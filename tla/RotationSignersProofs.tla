------------------------ MODULE RotationSignersProofs ------------------------
(***************************************************************************)
(* Theorems about RotationSigners, for any number of signers and faulty      *)
(* ones, any threshold, any plans and capsules, restarts and failed saves.   *)
(***************************************************************************)
EXTENDS RotationSigners, FiniteSetTheorems, TLAPS

-----------------------------------------------------------------------------
(* One entry *)

\* A lock is held by a plan of its predecessor that is begun and not tombstoned.
LocksOK(e) ==
  \A c \in AnyCapsule :
    LET held == e.predecessor_plan_locks[c]
    IN held # None => /\ predecessor[held] = c
                      /\ e.begin_votes[rotation_id[held]] = held
                      /\ rotation_id[held] \notin e.cancelled_rotations

\* An Activate vote is for a capsule of the plan begun, and a plan begun and not
\* tombstoned holds its lock.
RecordsOK(e) ==
  \A r \in Rotation :
    /\ e.activate_votes[r] # None =>
         /\ rotation_id[PlanOf[e.activate_votes[r]]] = r
         /\ e.begin_votes[r] = PlanOf[e.activate_votes[r]]
    /\ e.begin_votes[r] # None =>
         /\ rotation_id[e.begin_votes[r]] = r
         /\ r \notin e.cancelled_rotations =>
              e.predecessor_plan_locks[predecessor[e.begin_votes[r]]] = e.begin_votes[r]

\* What every request keeps of the entry it works on.
EntryOK(e) == LocksOK(e) /\ RecordsOK(e)

\* How an entry may change: tombstones and Activate votes stay, and a tombstone
\* freezes the Activate vote of its rotation.
Extends(n, e) ==
  \A r \in Rotation :
    /\ r \in e.cancelled_rotations => /\ r \in n.cancelled_rotations
                                      /\ n.activate_votes[r] = e.activate_votes[r]
    /\ e.activate_votes[r] # None => n.activate_votes[r] = e.activate_votes[r]

\* An entry extends itself, and extending is transitive.
LEMMA ExtendsIsPreorder ==
  /\ \A e : Extends(e, e)
  /\ \A e1, e2, e3 : Extends(e2, e1) /\ Extends(e3, e2) => Extends(e3, e1)
  BY DEF Extends

\* A freshly provisioned entry is in order.
LEMMA NewEntryOK == NewEntry \in Entry /\ EntryOK(NewEntry)
  BY PlanAssumption DEF NewEntry, Entry, EntryOK, LocksOK, RecordsOK, AnyCapsule

\* Facts about the constants, for one plan.
LEMMA PlanFacts ==
  ASSUME NEW p \in Plan
  PROVE  rotation_id[p] \in Rotation /\ predecessor[p] \in AnyCapsule /\ p # None
  BY PlanAssumption DEF Rotation

\* The entry that an intent stores.
LEMMA IntentEntry ==
  ASSUME NEW e \in Entry, EntryOK(e), NEW r \in Rotation, NEW active \in AnyCapsule,
         NEW n, n = [e EXCEPT !.intents = @ \cup {r}, !.active_capsule = active]
  PROVE  n \in Entry /\ EntryOK(n) /\ Extends(n, e)
<1>1. n = [active_capsule |-> active, intents |-> e.intents \cup {r},
           predecessor_plan_locks |-> e.predecessor_plan_locks,
           begin_votes |-> e.begin_votes, release_votes |-> e.release_votes,
           activate_votes |-> e.activate_votes,
           cancelled_rotations |-> e.cancelled_rotations]
  BY DEF Entry
<1>2. n \in Entry
  BY <1>1 DEF Entry
<1>3. /\ n.predecessor_plan_locks = e.predecessor_plan_locks
      /\ n.begin_votes = e.begin_votes /\ n.activate_votes = e.activate_votes
      /\ n.cancelled_rotations = e.cancelled_rotations
  BY <1>1
<1> QED
  BY <1>2, <1>3 DEF EntryOK, LocksOK, RecordsOK, Extends

\* The entry that a Begin vote stores.
LEMMA BeginEntry ==
  ASSUME NEW e \in Entry, EntryOK(e), NEW p \in Plan,
         e.predecessor_plan_locks[predecessor[p]] \in {None, p},
         e.begin_votes[rotation_id[p]] \in {None, p},
         rotation_id[p] \notin e.cancelled_rotations,
         NEW n, n = [e EXCEPT !.predecessor_plan_locks[predecessor[p]] = p,
                              !.begin_votes[rotation_id[p]] = p]
  PROVE  n \in Entry /\ EntryOK(n) /\ Extends(n, e)
<1> DEFINE r == rotation_id[p]
           a == predecessor[p]
<1>1. r \in Rotation /\ a \in AnyCapsule /\ p # None
  BY PlanFacts
<1>2. n = [active_capsule |-> e.active_capsule, intents |-> e.intents,
           predecessor_plan_locks |-> [e.predecessor_plan_locks EXCEPT ![a] = p],
           begin_votes |-> [e.begin_votes EXCEPT ![r] = p],
           release_votes |-> e.release_votes, activate_votes |-> e.activate_votes,
           cancelled_rotations |-> e.cancelled_rotations]
  BY DEF Entry
<1>3. n \in Entry
  <2>1. /\ [e.predecessor_plan_locks EXCEPT ![a] = p] \in [AnyCapsule -> Plan \cup {None}]
        /\ [e.begin_votes EXCEPT ![r] = p] \in [Rotation -> Plan \cup {None}]
    BY <1>1 DEF Entry
  <2> QED
    BY <1>2, <2>1 DEF Entry
<1>4. /\ n.activate_votes = e.activate_votes
      /\ n.cancelled_rotations = e.cancelled_rotations
      /\ \A i \in Rotation : n.begin_votes[i] = IF i = r THEN p ELSE e.begin_votes[i]
      /\ \A c \in AnyCapsule : n.predecessor_plan_locks[c] =
                                 IF c = a THEN p ELSE e.predecessor_plan_locks[c]
  BY <1>1, <1>2 DEF Entry
<1>5. ASSUME NEW i \in Rotation
      PROVE  /\ n.activate_votes[i] # None =>
                  /\ rotation_id[PlanOf[n.activate_votes[i]]] = i
                  /\ n.begin_votes[i] = PlanOf[n.activate_votes[i]]
             /\ n.begin_votes[i] # None =>
                  /\ rotation_id[n.begin_votes[i]] = i
                  /\ i \notin n.cancelled_rotations =>
                       n.predecessor_plan_locks[predecessor[n.begin_votes[i]]]
                         = n.begin_votes[i]
  <2>1. CASE i = r
    <3>1. n.activate_votes[i] # None => e.begin_votes[r] = PlanOf[n.activate_votes[i]]
                                        /\ n.activate_votes[i] \in Capsule
      BY <1>1, <1>4, <2>1 DEF EntryOK, LocksOK, RecordsOK, Entry
    <3>2. n.activate_votes[i] # None => PlanOf[n.activate_votes[i]] = p
      BY <3>1, PlanAssumption
    <3> QED
      BY <1>1, <1>4, <2>1, <3>2
  <2>2. CASE i # r
    <3>1. n.begin_votes[i] = e.begin_votes[i] /\ e.begin_votes[i] \in Plan \cup {None}
      BY <1>4, <2>2 DEF Entry
    <3>2. ASSUME e.begin_votes[i] # None, i \notin e.cancelled_rotations
          PROVE  /\ predecessor[e.begin_votes[i]] \in AnyCapsule
                 /\ predecessor[e.begin_votes[i]] # a
      <4>1. /\ e.begin_votes[i] # p
            /\ e.predecessor_plan_locks[predecessor[e.begin_votes[i]]] = e.begin_votes[i]
        BY <2>2, <3>2 DEF EntryOK, LocksOK, RecordsOK
      <4> QED
        BY <3>1, <3>2, <4>1, PlanAssumption
    <3> QED
      BY <1>4, <2>2, <3>1, <3>2 DEF EntryOK, LocksOK, RecordsOK
  <2> QED
    BY <2>1, <2>2
<1>6. RecordsOK(n)
  BY <1>5 DEF RecordsOK
<1>7. ASSUME NEW c \in AnyCapsule, n.predecessor_plan_locks[c] # None
      PROVE  LET held == n.predecessor_plan_locks[c]
             IN /\ predecessor[held] = c
                /\ n.begin_votes[rotation_id[held]] = held
                /\ rotation_id[held] \notin n.cancelled_rotations
  <2>1. CASE c = a
    BY <1>1, <1>4, <2>1
  <2>2. CASE c # a
    <3> DEFINE q == e.predecessor_plan_locks[c]
    <3>1. n.predecessor_plan_locks[c] = q /\ q \in Plan
      BY <1>4, <1>7, <2>2 DEF Entry
    <3>2. /\ predecessor[q] = c /\ e.begin_votes[rotation_id[q]] = q
          /\ rotation_id[q] \notin e.cancelled_rotations
      BY <1>7, <3>1 DEF EntryOK, LocksOK
    <3>3. rotation_id[q] # r /\ rotation_id[q] \in Rotation
      BY <2>2, <3>1, <3>2, PlanFacts
    <3> QED
      BY <1>4, <3>1, <3>2, <3>3
  <2> QED
    BY <2>1, <2>2
<1>8. EntryOK(n)
  BY <1>6, <1>7 DEF EntryOK, LocksOK
<1> QED
  BY <1>3, <1>4, <1>8 DEF Extends

\* The entry that a Release vote stores.
LEMMA ReleaseEntry ==
  ASSUME NEW e \in Entry, EntryOK(e), NEW r \in Rotation,
         NEW n, n = [e EXCEPT !.release_votes = @ \cup {r}]
  PROVE  n \in Entry /\ EntryOK(n) /\ Extends(n, e)
<1>1. n = [active_capsule |-> e.active_capsule, intents |-> e.intents,
           predecessor_plan_locks |-> e.predecessor_plan_locks,
           begin_votes |-> e.begin_votes, release_votes |-> e.release_votes \cup {r},
           activate_votes |-> e.activate_votes,
           cancelled_rotations |-> e.cancelled_rotations]
  BY DEF Entry
<1>2. n \in Entry
  BY <1>1 DEF Entry
<1>3. /\ n.predecessor_plan_locks = e.predecessor_plan_locks
      /\ n.begin_votes = e.begin_votes /\ n.activate_votes = e.activate_votes
      /\ n.cancelled_rotations = e.cancelled_rotations
  BY <1>1
<1> QED
  BY <1>2, <1>3 DEF EntryOK, LocksOK, RecordsOK, Extends

\* The entry that an Activate vote stores.
LEMMA ActivateEntry ==
  ASSUME NEW e \in Entry, EntryOK(e), NEW c \in Capsule,
         e.begin_votes[rotation_id[PlanOf[c]]] = PlanOf[c],
         e.activate_votes[rotation_id[PlanOf[c]]] \in {None, c},
         rotation_id[PlanOf[c]] \notin e.cancelled_rotations,
         NEW n, n = [e EXCEPT !.activate_votes[rotation_id[PlanOf[c]]] = c]
  PROVE  /\ n \in Entry /\ EntryOK(n) /\ Extends(n, e)
         /\ n.activate_votes[rotation_id[PlanOf[c]]] = c
<1> DEFINE r == rotation_id[PlanOf[c]]
<1>1. r \in Rotation /\ c # None
  BY PlanFacts, PlanAssumption
<1>2. n = [active_capsule |-> e.active_capsule, intents |-> e.intents,
           predecessor_plan_locks |-> e.predecessor_plan_locks,
           begin_votes |-> e.begin_votes, release_votes |-> e.release_votes,
           activate_votes |-> [e.activate_votes EXCEPT ![r] = c],
           cancelled_rotations |-> e.cancelled_rotations]
  BY DEF Entry
<1>3. n \in Entry
  BY <1>1, <1>2 DEF Entry
<1>4. /\ n.predecessor_plan_locks = e.predecessor_plan_locks
      /\ n.begin_votes = e.begin_votes /\ n.cancelled_rotations = e.cancelled_rotations
      /\ \A i \in Rotation : n.activate_votes[i] = IF i = r THEN c ELSE e.activate_votes[i]
  BY <1>1, <1>2 DEF Entry
<1>5. EntryOK(n)
  BY <1>1, <1>4 DEF EntryOK, LocksOK, RecordsOK
<1>6. Extends(n, e)
  BY <1>4 DEF Extends
<1> QED
  BY <1>1, <1>3, <1>4, <1>5, <1>6

\* The entry that a tombstone leaves.
LEMMA TombstonedEntry ==
  ASSUME NEW e \in Entry, EntryOK(e), NEW p \in Plan,
         e.begin_votes[rotation_id[p]] = p,
         e.predecessor_plan_locks[predecessor[p]] = p,
         NEW n, n = Tombstoned(e, p)
  PROVE  /\ n \in Entry /\ EntryOK(n) /\ Extends(n, e)
         /\ rotation_id[p] \in n.cancelled_rotations
         /\ n.activate_votes = e.activate_votes
<1> DEFINE r == rotation_id[p]
           a == predecessor[p]
<1>1. r \in Rotation /\ a \in AnyCapsule /\ p # None
  BY PlanFacts
<1>2. n = [active_capsule |-> e.active_capsule, intents |-> e.intents,
           predecessor_plan_locks |-> [e.predecessor_plan_locks EXCEPT ![a] = None],
           begin_votes |-> e.begin_votes, release_votes |-> e.release_votes,
           activate_votes |-> e.activate_votes,
           cancelled_rotations |-> e.cancelled_rotations \cup {r}]
  BY DEF Entry, Tombstoned
<1>3. n \in Entry
  BY <1>1, <1>2 DEF Entry
<1>4. /\ n.activate_votes = e.activate_votes /\ n.begin_votes = e.begin_votes
      /\ n.cancelled_rotations = e.cancelled_rotations \cup {r}
      /\ \A c \in AnyCapsule : n.predecessor_plan_locks[c] =
                                 IF c = a THEN None ELSE e.predecessor_plan_locks[c]
  BY <1>1, <1>2 DEF Entry
<1>5. ASSUME NEW i \in Rotation, e.begin_votes[i] # None, i \notin n.cancelled_rotations
      PROVE  n.predecessor_plan_locks[predecessor[e.begin_votes[i]]] = e.begin_votes[i]
  <2>1. /\ e.begin_votes[i] \in Plan /\ i # r /\ e.begin_votes[i] # p
        /\ e.predecessor_plan_locks[predecessor[e.begin_votes[i]]] = e.begin_votes[i]
    BY <1>4, <1>5 DEF EntryOK, LocksOK, RecordsOK, Entry
  <2>2. predecessor[e.begin_votes[i]] \in AnyCapsule /\ predecessor[e.begin_votes[i]] # a
    BY <2>1, PlanFacts
  <2> QED
    BY <1>4, <2>1, <2>2
<1>6. EntryOK(n)
  BY <1>4, <1>5 DEF EntryOK, LocksOK, RecordsOK
<1> QED
  BY <1>3, <1>4, <1>6 DEF Extends

-----------------------------------------------------------------------------
(* The inductive invariant *)

EntriesOK ==
  \A s \in Honest : /\ EntryOK(entry[s])
                    /\ EntryOK(saved[s])
                    /\ Extends(entry[s], saved[s])

\* What is in signer s's file about the votes that have left it.
Recorded(s, file) ==
  /\ \A c \in Capsule : <<s, c>> \in activate_sent =>
                          file.activate_votes[rotation_id[PlanOf[c]]] = c
  /\ \A p \in Plan : <<s, p>> \in finalized_sent =>
                       /\ rotation_id[p] \in file.cancelled_rotations
                       /\ file.activate_votes[rotation_id[p]] = None

VotesOK == \A s \in Honest : Recorded(s, saved[s])

IInv == TypeOK /\ EntriesOK /\ VotesOK

\* Signer s's handler has put n in memory, and perhaps in the file.
Writes(s, n) ==
  /\ n \in Entry
  /\ EntryOK(n)
  /\ Extends(n, entry[s])
  /\ entry' = [entry EXCEPT ![s] = n]
  /\ saved' \in {saved, [saved EXCEPT ![s] = n]}

\* A successful or a failed save is such a write.
LEMMA SavesWrite ==
  ASSUME NEW s \in Honest, NEW n \in Entry, EntryOK(n), Extends(n, entry[s]),
         Save(s, n) \/ SaveFails(s, n)
  PROVE  Writes(s, n)
  BY DEF Writes, Save, SaveFails

\* A file that extends another holds all that the other one recorded.
LEMMA RecordsStay ==
  ASSUME NEW s, NEW f1, NEW f2, Extends(f2, f1), Recorded(s, f1)
  PROVE  Recorded(s, f2)
<1>1. \A p \in Plan : rotation_id[p] \in Rotation
  BY PlanFacts
<1>2. \A c \in Capsule : PlanOf[c] \in Plan /\ c # None
  BY PlanAssumption
<1> QED
  BY <1>1, <1>2 DEF Recorded, Extends

\* A write keeps the entries in order, and the file only ever advances.
LEMMA WritesKeepEntries ==
  ASSUME IInv, NEW s \in Honest, NEW n, Writes(s, n)
  PROVE  /\ entry' \in [Honest -> Entry] /\ saved' \in [Honest -> Entry]
         /\ EntriesOK'
         /\ \A h \in Honest : Recorded(h, saved'[h])
<1>1. /\ entry \in [Honest -> Entry] /\ saved \in [Honest -> Entry] /\ n \in Entry
      /\ EntryOK(n) /\ Extends(n, entry[s])
      /\ \A h \in Honest : EntryOK(entry[h]) /\ EntryOK(saved[h]) /\ Extends(entry[h], saved[h])
  BY DEF IInv, TypeOK, EntriesOK, Writes
<1>2. /\ entry' \in [Honest -> Entry] /\ saved' \in [Honest -> Entry]
      /\ \A h \in Honest : /\ entry'[h] = IF h = s THEN n ELSE entry[h]
                           /\ saved'[h] \in {saved[h], entry'[h]}
                           /\ h # s => saved'[h] = saved[h]
  BY <1>1 DEF Writes
<1>3. Extends(n, saved[s]) /\ \A e : Extends(e, e)
  BY <1>1, ExtendsIsPreorder
<1>4. \A h \in Honest : Extends(saved'[h], saved[h])
  BY <1>2, <1>3
<1>5. \A h \in Honest : Recorded(h, saved'[h])
  BY <1>4, RecordsStay DEF IInv, VotesOK
<1> QED
  BY <1>1, <1>2, <1>3, <1>5 DEF EntriesOK

-----------------------------------------------------------------------------
(* Every action keeps the invariant *)

\* Requests after which no vote leaves that a file has to hold.
LEMMA OtherVotesKeepIInv ==
  ASSUME IInv, NEW s \in Honest, NEW n, Writes(s, n), UNCHANGED <<now, witnesses>>,
         UNCHANGED <<activate_sent, finalized_sent>>,
         NEW p \in Plan,
         begin_sent' \in {begin_sent, begin_sent \cup {<<s, p>>}},
         release_sent' \in {release_sent, release_sent \cup {<<s, p>>}},
         abort_sent' \in {abort_sent, abort_sent \cup {<<s, p>>}}
  PROVE  IInv'
<1>1. /\ entry' \in [Honest -> Entry] /\ saved' \in [Honest -> Entry] /\ EntriesOK'
      /\ \A h \in Honest : Recorded(h, saved'[h])
  BY WritesKeepEntries
<1>2. VotesOK'
  BY <1>1 DEF VotesOK, Recorded
<1>3. TypeOK'
  BY <1>1 DEF IInv, TypeOK, witnesses
<1> QED
  BY <1>1, <1>2, <1>3 DEF IInv

\* An intent.
LEMMA IntentKeepsIInv ==
  ASSUME IInv, NEW s \in Honest, NEW r \in Rotation, Intent(s, r)
  PROVE  IInv'
<1> DEFINE active == CHOOSE c \in AnyCapsule :
                       \E p \in Plan : rotation_id[p] = r /\ predecessor[p] = c
           n == [entry[s] EXCEPT !.intents = @ \cup {r}, !.active_capsule = active]
<1>1. PICK p \in Plan : rotation_id[p] = r
  BY DEF Rotation
<1>2. \E c \in AnyCapsule : \E q \in Plan : rotation_id[q] = r /\ predecessor[q] = c
  BY <1>1, PlanFacts
<1>3. active \in AnyCapsule
  BY <1>2
<1>4. entry[s] \in Entry /\ EntryOK(entry[s])
  BY DEF IInv, TypeOK, EntriesOK
<1>5. (Save(s, n) \/ SaveFails(s, n)) /\ UNCHANGED <<now, votes, witnesses>>
  BY DEF Intent
<1>6. n \in Entry /\ EntryOK(n) /\ Extends(n, entry[s])
  <2> HIDE DEF active
  <2> QED
    BY <1>3, <1>4, IntentEntry
<1> HIDE DEF n
<1>7. Writes(s, n)
  BY <1>5, <1>6, SavesWrite
<1> QED
  BY <1>1, <1>5, <1>7, OtherVotesKeepIInv DEF votes

\* Begin, Release and Abort votes.
LEMMA EarlyVotesKeepIInv ==
  ASSUME IInv, NEW s \in Honest, NEW p \in Plan,
         Begin(s, p) \/ Release(s, p) \/ Abort(s, p)
  PROVE  IInv'
<1>1. entry[s] \in Entry /\ EntryOK(entry[s]) /\ rotation_id[p] \in Rotation
  BY PlanFacts DEF IInv, TypeOK, EntriesOK
<1>2. CASE Begin(s, p)
  <2> DEFINE n == [entry[s] EXCEPT !.predecessor_plan_locks[predecessor[p]] = p,
                                   !.begin_votes[rotation_id[p]] = p]
  <2>1. n \in Entry /\ EntryOK(n) /\ Extends(n, entry[s])
    BY <1>1, <1>2, BeginEntry DEF Begin
  <2>2. Save(s, n) \/ SaveFails(s, n)
    BY <1>2 DEF Begin
  <2> HIDE DEF n
  <2>3. Writes(s, n)
    BY <2>1, <2>2, SavesWrite
  <2> QED
    BY <1>2, <2>3, OtherVotesKeepIInv DEF Begin
<1>3. CASE Release(s, p)
  <2> DEFINE n == [entry[s] EXCEPT !.release_votes = @ \cup {rotation_id[p]}]
  <2>1. n \in Entry /\ EntryOK(n) /\ Extends(n, entry[s])
    BY <1>1, ReleaseEntry
  <2>2. Save(s, n) \/ SaveFails(s, n)
    BY <1>3 DEF Release
  <2> HIDE DEF n
  <2>3. Writes(s, n)
    BY <2>1, <2>2, SavesWrite
  <2> QED
    BY <1>3, <2>3, OtherVotesKeepIInv DEF Release
<1>4. CASE Abort(s, p)
  <2>1. Save(s, entry[s]) \/ SaveFails(s, entry[s])
    BY <1>4 DEF Abort
  <2>2. Writes(s, entry[s])
    BY <1>1, <2>1, SavesWrite, ExtendsIsPreorder
  <2> QED
    BY <1>4, <2>2, OtherVotesKeepIInv DEF Abort
<1> QED
  BY <1>2, <1>3, <1>4

\* An Activate vote leaves only once it is in the file.
LEMMA ActivateKeepsIInv ==
  ASSUME IInv, NEW s \in Honest, NEW c \in Capsule, Activate(s, c)
  PROVE  IInv'
<1> DEFINE r == rotation_id[PlanOf[c]]
           n == [entry[s] EXCEPT !.activate_votes[r] = c]
<1>1. entry[s] \in Entry /\ EntryOK(entry[s]) /\ saved \in [Honest -> Entry]
  BY DEF IInv, TypeOK, EntriesOK
<1>2. /\ n \in Entry /\ EntryOK(n) /\ Extends(n, entry[s])
      /\ n.activate_votes[r] = c
  <2>1. /\ entry[s].begin_votes[r] = PlanOf[c] /\ entry[s].activate_votes[r] \in {None, c}
        /\ r \notin entry[s].cancelled_rotations
    BY DEF Activate
  <2>2. n = [entry[s] EXCEPT !.activate_votes[r] = c]
    OBVIOUS
  <2> HIDE DEF n
  <2> QED
    BY <1>1, <2>1, <2>2, ActivateEntry, ZenonT(30)
<1>3. /\ \/ Save(s, n) /\ activate_sent' = activate_sent \cup {<<s, c>>}
         \/ SaveFails(s, n) /\ UNCHANGED activate_sent
      /\ UNCHANGED <<now, begin_sent, release_sent, abort_sent, finalized_sent, witnesses>>
  BY DEF Activate
<1> HIDE DEF n
<1>4. Writes(s, n)
  BY <1>2, <1>3, SavesWrite
<1>5. /\ entry' \in [Honest -> Entry] /\ saved' \in [Honest -> Entry] /\ EntriesOK'
      /\ \A h \in Honest : Recorded(h, saved'[h])
  BY <1>4, WritesKeepEntries
<1>6. VotesOK'
  <2>1. CASE UNCHANGED activate_sent
    BY <1>3, <1>5, <2>1 DEF VotesOK, Recorded
  <2>2. CASE Save(s, n) /\ activate_sent' = activate_sent \cup {<<s, c>>}
    <3>1. saved'[s].activate_votes[r] = c
      BY <1>1, <1>2, <2>2 DEF Save
    <3> QED
      BY <1>3, <1>5, <2>2, <3>1 DEF VotesOK, Recorded
  <2> QED
    BY <1>3, <2>1, <2>2
<1>7. TypeOK'
  BY <1>3, <1>5 DEF IInv, TypeOK, witnesses
<1> QED
  BY <1>5, <1>6, <1>7 DEF IInv

\* Final aborts and owner cancellations.
LEMMA FinalizationsKeepIInv ==
  ASSUME IInv, NEW s \in Honest, NEW p \in Plan,
         FinalizeAbort(s, p) \/ FinalizeOwnerCancel(s, p)
  PROVE  IInv'
<1> DEFINE n == Tombstoned(entry[s], p)
           r == rotation_id[p]
<1>1. /\ entry[s] \in Entry /\ EntryOK(entry[s]) /\ saved \in [Honest -> Entry]
      /\ r \in Rotation
  BY PlanFacts DEF IInv, TypeOK, EntriesOK
<1>2. CASE FinalizeAbort(s, p)
  <2>1. /\ n \in Entry /\ EntryOK(n) /\ Extends(n, entry[s])
        /\ r \in n.cancelled_rotations /\ n.activate_votes = entry[s].activate_votes
    BY <1>1, <1>2, TombstonedEntry DEF FinalizeAbort, HoldsLock
  <2>2. /\ \/ Save(s, n) /\ finalized_sent' = finalized_sent \cup {<<s, p>>}
           \/ SaveFails(s, n) /\ UNCHANGED finalized_sent
        /\ entry[s].activate_votes[r] = None
        /\ UNCHANGED <<now, begin_sent, release_sent, activate_sent, abort_sent, witnesses>>
    BY <1>2 DEF FinalizeAbort
  <2> HIDE DEF n
  <2>3. Writes(s, n)
    BY <2>1, <2>2, SavesWrite
  <2>4. /\ entry' \in [Honest -> Entry] /\ saved' \in [Honest -> Entry] /\ EntriesOK'
        /\ \A h \in Honest : Recorded(h, saved'[h])
    BY <2>3, WritesKeepEntries
  <2>5. VotesOK'
    <3>1. CASE UNCHANGED finalized_sent
      BY <2>2, <2>4, <3>1 DEF VotesOK, Recorded
    <3>2. CASE Save(s, n) /\ finalized_sent' = finalized_sent \cup {<<s, p>>}
      <4>1. saved'[s] = n
        BY <1>1, <3>2 DEF Save
      <4> QED
        BY <2>1, <2>2, <2>4, <3>2, <4>1 DEF VotesOK, Recorded
    <3> QED
      BY <2>2, <3>1, <3>2
  <2>6. TypeOK'
    BY <2>2, <2>4 DEF IInv, TypeOK, witnesses
  <2> QED
    BY <2>4, <2>5, <2>6 DEF IInv
<1>3. CASE FinalizeOwnerCancel(s, p)
  <2>1. PICK m : /\ Save(s, m) \/ SaveFails(s, m)
                 /\ m \in Entry /\ EntryOK(m) /\ Extends(m, entry[s])
    <3>1. CASE r \in entry[s].cancelled_rotations
      <4>1. Save(s, entry[s]) \/ SaveFails(s, entry[s])
        BY <1>3, <3>1 DEF FinalizeOwnerCancel
      <4> QED
        BY <1>1, <4>1, ExtendsIsPreorder
    <3>2. CASE r \notin entry[s].cancelled_rotations
      <4>1. n \in Entry /\ EntryOK(n) /\ Extends(n, entry[s])
        BY <1>1, <1>3, <3>2, TombstonedEntry DEF FinalizeOwnerCancel, HoldsLock
      <4>2. Save(s, n) \/ SaveFails(s, n)
        BY <1>3, <3>2 DEF FinalizeOwnerCancel
      <4> QED
        BY <4>1, <4>2
    <3> QED
      BY <3>1, <3>2
  <2>2. Writes(s, m)
    BY <2>1, SavesWrite
  <2>3. UNCHANGED <<now, votes, witnesses>>
    BY <1>3 DEF FinalizeOwnerCancel
  <2> QED
    BY <2>2, <2>3, OtherVotesKeepIInv DEF votes
<1> QED
  BY <1>2, <1>3

\* A restart puts the file's entry back in memory.
LEMMA RestartKeepsIInv ==
  ASSUME IInv, NEW s \in Honest, Restart(s)
  PROVE  IInv'
<1>1. /\ entry \in [Honest -> Entry] /\ saved \in [Honest -> Entry]
      /\ entry' = [entry EXCEPT ![s] = saved[s]]
      /\ UNCHANGED <<now, saved, votes, witnesses>>
  BY DEF IInv, TypeOK, Restart
<1>2. entry' \in [Honest -> Entry] /\ EntriesOK'
  BY <1>1, ExtendsIsPreorder DEF IInv, EntriesOK
<1> QED
  BY <1>1, <1>2 DEF IInv, TypeOK, VotesOK, Recorded, votes, witnesses

\* Time, and what the witnesses do.
LEMMA OthersKeepIInv ==
  ASSUME IInv,
         \/ TimePasses
         \/ \E c \in Capsule : WitnessesActivate(c)
         \/ \E p \in Plan : WitnessesVeto(p)
  PROVE  IInv'
<1>1. UNCHANGED <<entry, saved, votes>>
  BY DEF TimePasses, WitnessesActivate, WitnessesVeto
<1>2. now' \in Nat /\ readable' \subseteq AnyCapsule /\ vetoed' \subseteq Plan
  <2>1. CASE TimePasses
    BY <2>1 DEF TimePasses, IInv, TypeOK, witnesses
  <2>2. CASE \E c \in Capsule : WitnessesActivate(c)
    BY <2>2 DEF WitnessesActivate, IInv, TypeOK, AnyCapsule
  <2>3. CASE \E p \in Plan : WitnessesVeto(p)
    BY <2>3 DEF WitnessesVeto, IInv, TypeOK
  <2> QED
    BY <2>1, <2>2, <2>3
<1> QED
  BY <1>1, <1>2 DEF IInv, TypeOK, EntriesOK, VotesOK, Recorded, votes

\* Every reachable state satisfies the invariant.
LEMMA SignerInvariant == Spec => []IInv
<1>1. Init => IInv
  <2> SUFFICES ASSUME Init PROVE IInv
    OBVIOUS
  <2>1. TypeOK
    BY NewEntryOK DEF Init, TypeOK, AnyCapsule
  <2>2. EntriesOK
    BY NewEntryOK, ExtendsIsPreorder DEF Init, EntriesOK
  <2>3. VotesOK
    BY DEF Init, VotesOK, Recorded
  <2> QED
    BY <2>1, <2>2, <2>3 DEF IInv
<1>2. IInv /\ [Next]_vars => IInv'
  <2> SUFFICES ASSUME IInv, [Next]_vars PROVE IInv'
    OBVIOUS
  <2>1. CASE UNCHANGED vars
    BY <2>1 DEF vars, votes, witnesses, IInv, TypeOK, EntriesOK, VotesOK, Recorded
  <2>2. CASE \E s \in Honest : SignerStep(s)
    BY <2>2, IntentKeepsIInv, EarlyVotesKeepIInv, ActivateKeepsIInv,
       FinalizationsKeepIInv, RestartKeepsIInv DEF SignerStep
  <2>3. CASE \/ TimePasses
             \/ \E c \in Capsule : WitnessesActivate(c)
             \/ \E p \in Plan : WitnessesVeto(p)
    BY <2>3, OthersKeepIInv
  <2> QED
    BY <2>1, <2>2, <2>3 DEF Next
<1> QED
  BY <1>1, <1>2, PTL DEF Spec

-----------------------------------------------------------------------------
(* The theorems *)

\* Type correctness.
THEOREM SignerTypeCorrect == Spec => []TypeOK
  BY SignerInvariant, PTL DEF IInv

\* A predecessor is locked by exactly the plan that the signer has begun and not
\* tombstoned, in memory and in the file.
THEOREM LockTheorem == Spec => []LockFollowsPlan
<1>1. IInv => LockFollowsPlan
  <2> SUFFICES ASSUME IInv, NEW s \in Honest, NEW c \in AnyCapsule, NEW p \in Plan,
                      NEW e \in {entry[s], saved[s]}
               PROVE  e.predecessor_plan_locks[c] = p <=>
                        /\ predecessor[p] = c
                        /\ e.begin_votes[rotation_id[p]] = p
                        /\ rotation_id[p] \notin e.cancelled_rotations
    BY DEF LockFollowsPlan
  <2>1. LocksOK(e) /\ RecordsOK(e)
    BY DEF IInv, EntriesOK, EntryOK
  <2>2. p # None /\ rotation_id[p] \in Rotation
    BY PlanFacts
  <2>3. e.predecessor_plan_locks[c] = p => /\ predecessor[p] = c
                                           /\ e.begin_votes[rotation_id[p]] = p
                                           /\ rotation_id[p] \notin e.cancelled_rotations
    BY <2>1, <2>2 DEF LocksOK
  <2>4. e.begin_votes[rotation_id[p]] = p /\ rotation_id[p] \notin e.cancelled_rotations
          => e.predecessor_plan_locks[predecessor[p]] = p
    BY <2>1, <2>2 DEF RecordsOK
  <2> QED
    BY <2>3, <2>4
<1> QED
  BY <1>1, SignerInvariant, PTL

\* An abort that n-t+1 signers have made final leaves fewer than t signers, faulty
\* ones included, that have voted or can ever vote to activate the plan.
THEOREM AbortTheorem == Spec => []AbortIsFinal
<1>1. IInv => AbortIsFinal
  <2> SUFFICES ASSUME IInv, NEW p \in Plan, NEW c \in Capsule, PlanOf[c] = p,
                      Cardinality({s \in Honest : <<s, p>> \in finalized_sent})
                        > Cardinality(Signer) - signer_threshold
               PROVE  ~Certified(activate_sent, c)
    BY DEF AbortIsFinal
  <2> DEFINE F == {s \in Honest : <<s, p>> \in finalized_sent}
             V == {s \in Honest : <<s, c>> \in activate_sent} \cup Faulty
  <2>1. F \subseteq Signer /\ V \subseteq Signer \ F
    <3>1. \A s \in Honest : ~(<<s, p>> \in finalized_sent /\ <<s, c>> \in activate_sent)
      BY PlanAssumption DEF IInv, VotesOK, Recorded
    <3> QED
      BY <3>1, SignerAssumption DEF Honest
  <2>2. Certified(activate_sent, c) => Cardinality(V) >= signer_threshold
    BY DEF Certified, Threshold
  <2>3. Cardinality(F) > Cardinality(Signer) - signer_threshold
    OBVIOUS
  <2> HIDE DEF F, V
  <2>4. /\ IsFiniteSet(Signer) /\ IsFiniteSet(F) /\ IsFiniteSet(Signer \ F)
    <3>1. IsFiniteSet(Signer) /\ Signer \ F \subseteq Signer
      BY SignerAssumption
    <3> QED
      BY <2>1, <3>1, FS_Subset
  <2>5. Cardinality(V) <= Cardinality(Signer \ F) /\ IsFiniteSet(V)
    BY <2>1, <2>4, FS_Subset
  <2>6. Cardinality(Signer \ F) = Cardinality(Signer) - Cardinality(F)
    <3>1. Cardinality(Signer \ F) = Cardinality(Signer) - Cardinality(Signer \cap F)
      BY <2>4, FS_Difference
    <3>2. Signer \cap F = F
      BY <2>1
    <3> QED
      BY <3>1, <3>2
  <2>7. /\ Cardinality(Signer) \in Nat /\ Cardinality(F) \in Nat /\ Cardinality(V) \in Nat
    BY <2>4, <2>5, FS_CardinalityType
  <2>8. signer_threshold \in Int
    BY <2>7, SignerAssumption
  <2> QED
    BY <2>2, <2>3, <2>5, <2>6, <2>7, <2>8
<1> QED
  BY <1>1, SignerInvariant, PTL

\* Any two sets of voters that make a certificate have an honest signer in common.
ThresholdsIntersect ==
  2 * signer_threshold > Cardinality(Signer) + Cardinality(Faulty)

\* The honest signer that has voted for both of two certified capsules.
LEMMA CommonVoter ==
  ASSUME ThresholdsIntersect, NEW c, NEW d,
         Certified(activate_sent, c), Certified(activate_sent, d)
  PROVE  \E s \in Honest : <<s, c>> \in activate_sent /\ <<s, d>> \in activate_sent
<1> DEFINE C == {s \in Honest : <<s, c>> \in activate_sent} \cup Faulty
           D == {s \in Honest : <<s, d>> \in activate_sent} \cup Faulty
<1>1. C \subseteq Signer /\ D \subseteq Signer /\ Faulty \subseteq Signer
  BY SignerAssumption DEF Honest
<1>2. Cardinality(C) >= signer_threshold /\ Cardinality(D) >= signer_threshold
  BY DEF Certified, Threshold
<1>3. SUFFICES ~(C \cap D \subseteq Faulty)
  BY DEF Honest
<1> HIDE DEF C, D
<1>4. /\ IsFiniteSet(Signer) /\ IsFiniteSet(C) /\ IsFiniteSet(D) /\ IsFiniteSet(Faulty)
      /\ IsFiniteSet(C \cup D) /\ IsFiniteSet(C \cap D)
  <2>1. IsFiniteSet(Signer) /\ C \cup D \subseteq Signer /\ C \cap D \subseteq Signer
    BY <1>1, SignerAssumption
  <2> QED
    BY <1>1, <2>1, FS_Subset
<1>5. Cardinality(C \cup D) <= Cardinality(Signer)
  <2>1. C \cup D \subseteq Signer
    BY <1>1
  <2> QED
    BY <1>4, <2>1, FS_Subset
<1>6. Cardinality(C \cup D) = Cardinality(C) + Cardinality(D) - Cardinality(C \cap D)
  BY <1>4, FS_Union
<1>7. C \cap D \subseteq Faulty => Cardinality(C \cap D) <= Cardinality(Faulty)
  BY <1>4, FS_Subset
<1>8. /\ Cardinality(Signer) \in Nat /\ Cardinality(C) \in Nat /\ Cardinality(D) \in Nat
      /\ Cardinality(Faulty) \in Nat /\ Cardinality(C \cap D) \in Nat
  BY <1>4, FS_CardinalityType
<1>9. signer_threshold \in Int
  BY <1>8, SignerAssumption
<1> QED
  BY <1>2, <1>5, <1>6, <1>7, <1>8, <1>9 DEF ThresholdsIntersect

\* When thresholds intersect, two certified siblings share an honest voter, and it
\* holds the tombstone of one of them.
THEOREM SiblingTheorem == ThresholdsIntersect => (Spec => []SiblingNeedsTombstone)
<1> SUFFICES ASSUME ThresholdsIntersect PROVE Spec => []SiblingNeedsTombstone
  OBVIOUS
<1>1. IInv => SiblingNeedsTombstone
  <2> SUFFICES ASSUME IInv, NEW c \in Capsule, NEW d \in Capsule,
                      c # d, predecessor[PlanOf[c]] = predecessor[PlanOf[d]],
                      Certified(activate_sent, c), Certified(activate_sent, d)
               PROVE  \E s \in Honest :
                        /\ {<<s, c>>, <<s, d>>} \subseteq activate_sent
                        /\ {rotation_id[PlanOf[c]], rotation_id[PlanOf[d]]}
                             \cap saved[s].cancelled_rotations # {}
    BY DEF SiblingNeedsTombstone
  <2>1. PICK s \in Honest : <<s, c>> \in activate_sent /\ <<s, d>> \in activate_sent
    BY CommonVoter
  <2>2. /\ saved[s].activate_votes[rotation_id[PlanOf[c]]] = c
        /\ saved[s].activate_votes[rotation_id[PlanOf[d]]] = d
    BY <2>1 DEF IInv, VotesOK, Recorded
  <2>3. /\ PlanOf[c] \in Plan /\ PlanOf[d] \in Plan /\ c # None /\ d # None
        /\ rotation_id[PlanOf[c]] \in Rotation /\ rotation_id[PlanOf[d]] \in Rotation
        /\ PlanOf[c] # None /\ PlanOf[d] # None
    BY PlanAssumption, PlanFacts
  <2>4. EntryOK(saved[s])
    BY DEF IInv, EntriesOK
  <2>5. rotation_id[PlanOf[c]] # rotation_id[PlanOf[d]] /\ PlanOf[c] # PlanOf[d]
    BY <2>2
  <2>6. /\ saved[s].begin_votes[rotation_id[PlanOf[c]]] = PlanOf[c]
        /\ saved[s].begin_votes[rotation_id[PlanOf[d]]] = PlanOf[d]
    BY <2>2, <2>3, <2>4 DEF EntryOK, RecordsOK
  <2>7. \/ rotation_id[PlanOf[c]] \in saved[s].cancelled_rotations
        \/ rotation_id[PlanOf[d]] \in saved[s].cancelled_rotations
    BY <2>3, <2>4, <2>5, <2>6 DEF EntryOK, RecordsOK
  <2> QED
    BY <2>1, <2>7
<1> QED
  BY <1>1, SignerInvariant, PTL
=============================================================================
