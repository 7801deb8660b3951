------------------------ MODULE GuardianEpochsProofs ------------------------
(***************************************************************************)
(* Theorems about GuardianEpochs, for any plans, rosters, requests and       *)
(* delays, and any number of failed writes and reboots.                      *)
(***************************************************************************)
EXTENDS GuardianEpochs, TLAPS

-----------------------------------------------------------------------------
(* Types: every handler stores an entry *)

\* A freshly provisioned entry is well typed.
LEMMA NewEntryType == NewEntry \in Entry
  BY NoneAssumption, EpochAssumption DEF NewEntry, Entry, Capsule

\* The ids of plans and requests.
LEMMA IdTypes ==
  /\ \A p \in Plan : rotation_id[p] \in RotationId /\ p \in Capsule /\ predecessor[p] \in Capsule
  /\ \A q \in Request : request_id[q] \in RequestId /\ config_ref[q] \in Capsule
  BY EpochAssumption DEF RotationId, RequestId, Capsule

\* Storing a session, or removing one.
LEMMA SessionType ==
  ASSUME NEW e \in Entry, NEW p \in Plan, NEW s \in Session \cup {None}
  PROVE  [e EXCEPT !.sessions[rotation_id[p]] = s] \in Entry
  BY IdTypes DEF Entry

\* WithSession changes the three fields that a round of the rotation may change.
LEMMA WithSessionType ==
  ASSUME NEW e \in Entry, NEW p \in Plan, e.sessions[rotation_id[p]] # None,
         NEW state \in MachineState, NEW local \in LocalState \cup {None},
         NEW staged \in Capsule \cup {None}
  PROVE  WithSession(e, p, state, local, staged) \in Entry
<1> DEFINE old == e.sessions[rotation_id[p]]
           s == [old EXCEPT !.state = state, !.local = local, !.staged = staged]
<1>1. old \in Session
  BY IdTypes DEF Entry
<1>2. s \in Session
  BY <1>1 DEF Session
<1>3. WithSession(e, p, state, local, staged) = [e EXCEPT !.sessions[rotation_id[p]] = s]
  BY DEF WithSession
<1> QED
  BY <1>2, <1>3, SessionType

\* Ending a rotation with a tombstone.
LEMMA AbortType ==
  ASSUME NEW e \in Entry, NEW p \in Plan
  PROVE  abort_prepared(e, p) \in Entry
<1>1. [plan |-> p, state |-> "Aborted"] \in Tombstone
  BY DEF Tombstone
<1> QED
  BY <1>1, IdTypes DEF abort_prepared, Entry

\* The list of pending recoveries holds request ids.
LEMMA DrainType ==
  ASSUME NEW e \in Entry
  PROVE  /\ Drain(e) \in Entry
         /\ Drain(e).recoveries = e.recoveries
         /\ Drain(e).cancellation_tombstones = e.cancellation_tombstones
         /\ Drain(e).sessions = e.sessions
<1>1. pending_old_recovery_ids(e) \in SUBSET RequestId
  BY DEF pending_old_recovery_ids
<1>2. CASE e.active = None
  BY <1>2 DEF Drain
<1>3. CASE e.active # None
  <2>1. e.active \in Capsule
    BY <1>3 DEF Entry
  <2> HIDE DEF pending_old_recovery_ids
  <2> QED
    BY <1>1, <1>3, <2>1 DEF Drain, Entry
<1> QED
  BY <1>2, <1>3

\* Both ways to activate a successor.
LEMMA ActivateType ==
  ASSUME NEW e \in Entry, NEW p \in Plan
  PROVE  /\ activate_successor(e, p) \in Entry
         /\ observe_replacement_activation(e, p) \in Entry
<1>1. /\ [plan |-> p, state |-> "Active"] \in Tombstone
      /\ [plan |-> p, state |-> "Draining"] \in Tombstone
  BY DEF Tombstone
<1>2. Drain(e) \in Entry
  BY DrainType
<1> QED
  BY <1>1, <1>2, IdTypes DEF activate_successor, observe_replacement_activation, Entry

\* The end of an activation: the successor is the capsule the guardian knows.
LEMMA CapsuleType ==
  ASSUME NEW e \in Entry, NEW p \in Plan
  PROVE  [e EXCEPT !.capsule = p, !.sessions[rotation_id[p]] = None] \in Entry
<1>1. [e EXCEPT !.capsule = p] \in Entry
  BY IdTypes DEF Entry
<1>2. [e EXCEPT !.capsule = p, !.sessions[rotation_id[p]] = None] =
        [[e EXCEPT !.capsule = p] EXCEPT !.sessions[rotation_id[p]] = None]
  BY DEF Entry
<1> QED
  BY <1>1, <1>2, SessionType

-----------------------------------------------------------------------------
(* One entry: what every handler keeps of it *)

\* A recovery is under its own id, is not both cancelled and released, is cancelled
\* when its id is tombstoned, and until then has an epoch that serves it.
RecoveriesOK(e) ==
  \A i \in RequestId : e.recoveries[i] # None =>
    LET pending == e.recoveries[i]
        c == config_ref[pending.request]
    IN /\ request_id[pending.request] = i
       /\ ~(pending.cancelled /\ pending.released)
       /\ e.cancellation_tombstones[i] # None => pending.cancelled
       /\ ~pending.cancelled /\ ~pending.released =>
            e.active = c \/ (c \in e.draining /\ i \in e.pending_request_ids[c])

\* What a draining epoch waits for has not been released.
DrainsOK(e) ==
  \A c \in Capsule : \A i \in e.pending_request_ids[c] :
    /\ e.recoveries[i] # None
    /\ config_ref[e.recoveries[i].request] = c
    /\ ~e.recoveries[i].released

\* A rotation with a tombstone has neither a session nor a prepared record, and the
\* rotation that made the present epoch was not aborted.
RotationsOK(e) ==
  /\ \A r \in RotationId : e.sessions[r] # None =>
       rotation_id[e.sessions[r].plan] = r /\ e.rotation_tombstones[r] = None
  /\ e.prepared # None => e.rotation_tombstones[rotation_id[e.prepared]] = None
  /\ e.capsule \in Plan =>
       /\ e.rotation_tombstones[rotation_id[e.capsule]] # None
       /\ e.rotation_tombstones[rotation_id[e.capsule]].state # "Aborted"
  /\ e.active \in {None, e.capsule}

EntryOK(e) == RecoveriesOK(e) /\ DrainsOK(e) /\ RotationsOK(e)

\* The same recovery, or the same session, further on.
SameRecovery(n, e) ==
  n # None /\ n.request = e.request /\ n.not_before = e.not_before /\ n.boot_id = e.boot_id

SameSession(n, e) ==
  n # None /\ n.plan = e.plan /\ n.not_before = e.not_before /\ n.boot_id = e.boot_id

\* Recoveries and tombstones are never taken back.
RecoveriesExtend(n, e) ==
  \A i \in RequestId :
    /\ e.recoveries[i] # None =>
         /\ SameRecovery(n.recoveries[i], e.recoveries[i])
         /\ e.recoveries[i].cancelled => n.recoveries[i].cancelled
         /\ e.recoveries[i].released => n.recoveries[i].released
    /\ e.cancellation_tombstones[i] # None => n.cancellation_tombstones[i] # None

\* A session or a prepared record only goes when its rotation gets a tombstone.
RotationsExtend(n, e) ==
  /\ \A r \in RotationId :
       /\ e.rotation_tombstones[r] # None => n.rotation_tombstones[r] = e.rotation_tombstones[r]
       /\ e.sessions[r] # None =>
            n.rotation_tombstones[r] # None \/ SameSession(n.sessions[r], e.sessions[r])
  /\ e.prepared # None =>
       n.prepared = e.prepared \/ n.rotation_tombstones[rotation_id[e.prepared]] # None

Extends(n, e) == RecoveriesExtend(n, e) /\ RotationsExtend(n, e)

\* Nothing has begun between e and n.
NoneBegun(n, e) ==
  /\ \A i \in RequestId : n.recoveries[i] # None =>
       e.recoveries[i] # None /\ SameRecovery(n.recoveries[i], e.recoveries[i])
  /\ \A r \in RotationId : n.sessions[r] # None =>
       e.sessions[r] # None /\ SameSession(n.sessions[r], e.sessions[r])

\* What a handler that begins nothing makes of an entry.
Step(n, e) == n \in Entry /\ EntryOK(n) /\ Extends(n, e) /\ NoneBegun(n, e)

\* The fields of the recoveries, and those of the rotations, are left alone.
SameRecoveries(n, e) ==
  /\ n.recoveries = e.recoveries
  /\ n.cancellation_tombstones = e.cancellation_tombstones

\* A session stored by WithSession is that of the same rotation.
LEMMA WithSessionStep ==
  ASSUME NEW e \in Entry, EntryOK(e), NEW p \in Plan, e.sessions[rotation_id[p]] # None,
         NEW state \in MachineState, NEW local \in LocalState \cup {None},
         NEW staged \in Capsule \cup {None},
         NEW n, n = WithSession(e, p, state, local, staged)
  PROVE  Step(n, e) /\ n = [e EXCEPT !.sessions = n.sessions]
<1> DEFINE r == rotation_id[p]
           old == e.sessions[r]
           s == [old EXCEPT !.state = state, !.local = local, !.staged = staged]
<1>1. old \in Session /\ r \in RotationId
  BY IdTypes DEF Entry
<1>2. s \in Session /\ s # None /\ SameSession(s, old)
  BY <1>1, NoneAssumption DEF Session, SameSession
<1>3. n \in Entry
  BY WithSessionType
<1> HIDE DEF s
<1>4. n = [e EXCEPT !.sessions[r] = s]
  BY DEF WithSession, s
<1>5. /\ n = [e EXCEPT !.sessions = n.sessions]
      /\ SameRecoveries(n, e) /\ n.active = e.active /\ n.draining = e.draining
      /\ n.pending_request_ids = e.pending_request_ids /\ n.capsule = e.capsule
      /\ n.prepared = e.prepared /\ n.rotation_tombstones = e.rotation_tombstones
  BY <1>4 DEF Entry, SameRecoveries
<1>6. \A x \in RotationId : n.sessions[x] = IF x = r THEN s ELSE e.sessions[x]
  BY <1>1, <1>4 DEF Entry
<1>7. RecoveriesOK(n) /\ DrainsOK(n) /\ RecoveriesExtend(n, e)
  BY <1>5 DEF EntryOK, RecoveriesOK, DrainsOK, RecoveriesExtend, SameRecoveries, SameRecovery
<1>8. RotationsOK(n)
  BY <1>1, <1>2, <1>5, <1>6 DEF EntryOK, RotationsOK, SameSession
<1>9. RotationsExtend(n, e) /\ NoneBegun(n, e)
  BY <1>1, <1>2, <1>5, <1>6
  DEF RotationsExtend, NoneBegun, SameSession, SameRecoveries, SameRecovery
<1> QED
  BY <1>3, <1>5, <1>7, <1>8, <1>9 DEF Step, EntryOK, Extends

\* An entry is a step from itself, and extending is transitive.
LEMMA StepIsReflexive ==
  ASSUME NEW e \in Entry, EntryOK(e)
  PROVE  Step(e, e)
  BY DEF Step, Extends, RecoveriesExtend, RotationsExtend, NoneBegun, SameRecovery, SameSession

LEMMA ExtendsIsTransitive ==
  ASSUME NEW e1 \in Entry, NEW e2 \in Entry, NEW e3 \in Entry,
         Extends(e2, e1), Extends(e3, e2)
  PROVE  Extends(e3, e1)
<1>1. RecoveriesExtend(e3, e1)
  BY DEF Extends, RecoveriesExtend, SameRecovery
<1>2. e1.prepared # None => rotation_id[e1.prepared] \in RotationId
  BY IdTypes DEF Entry
<1>3. RotationsExtend(e3, e1)
  BY <1>2 DEF Extends, RotationsExtend, SameSession
<1> QED
  BY <1>1, <1>3 DEF Extends

\* Aborting a rotation.
LEMMA AbortStep ==
  ASSUME NEW e \in Entry, EntryOK(e), NEW p \in Plan, e.prepared \in {None, p},
         e.rotation_tombstones[rotation_id[p]] \in {None, [plan |-> p, state |-> "Aborted"]},
         NEW n, n = abort_prepared(e, p)
  PROVE  /\ Step(n, e)
         /\ n.rotation_tombstones[rotation_id[p]] = [plan |-> p, state |-> "Aborted"]
         /\ SameRecoveries(n, e)
<1> DEFINE r == rotation_id[p]
           t == [plan |-> p, state |-> "Aborted"]
<1>1. t \in Tombstone /\ t # None /\ r \in RotationId /\ t.state = "Aborted"
  BY IdTypes, NoneAssumption DEF Tombstone
<1>2. n \in Entry
  BY AbortType
<1> HIDE DEF t
<1>3. n = [e EXCEPT !.prepared = None, !.rotation_tombstones[r] = t, !.sessions[r] = None]
  BY DEF abort_prepared, t
<1>4. /\ SameRecoveries(n, e) /\ n.active = e.active /\ n.draining = e.draining
      /\ n.pending_request_ids = e.pending_request_ids /\ n.capsule = e.capsule
      /\ n.prepared = None
  BY <1>3 DEF Entry, SameRecoveries
<1>5. \A x \in RotationId : /\ n.sessions[x] = IF x = r THEN None ELSE e.sessions[x]
                            /\ n.rotation_tombstones[x] = IF x = r THEN t ELSE e.rotation_tombstones[x]
  BY <1>1, <1>3 DEF Entry
<1>6. RecoveriesOK(n) /\ DrainsOK(n) /\ RecoveriesExtend(n, e)
  BY <1>4 DEF EntryOK, RecoveriesOK, DrainsOK, RecoveriesExtend, SameRecoveries, SameRecovery
<1>7. e.capsule \in Plan => rotation_id[e.capsule] \in RotationId /\ rotation_id[e.capsule] # r
  BY <1>1, IdTypes DEF EntryOK, RotationsOK, t
<1>8. RotationsOK(n)
  BY <1>1, <1>4, <1>5, <1>7 DEF EntryOK, RotationsOK
<1>9. RotationsExtend(n, e) /\ NoneBegun(n, e)
  BY <1>1, <1>4, <1>5
  DEF t, RotationsExtend, NoneBegun, SameSession, SameRecoveries, SameRecovery
<1> QED
  BY <1>1, <1>2, <1>4, <1>5, <1>6, <1>8, <1>9 DEF Step, EntryOK, Extends, t

\* Cancelling a session in memory.
LEMMA CancelledSessionStep ==
  ASSUME NEW e \in Entry, EntryOK(e), NEW p \in Plan,
         NEW n, n = CancelledSession(e, p)
  PROVE  Step(n, e)
<1> DEFINE r == rotation_id[p]
           old == e.sessions[r]
           s == [old EXCEPT !.state = "Aborted", !.cancelled = TRUE,
                            !.local = None, !.staged = None]
<1>1. CASE ~(e.rotation_tombstones[r] = None /\ e.sessions[r] # None)
  BY <1>1, StepIsReflexive DEF CancelledSession
<1>2. CASE e.rotation_tombstones[r] = None /\ e.sessions[r] # None
  <2>1. old \in Session /\ r \in RotationId
    BY <1>2, IdTypes DEF Entry
  <2>2. s \in Session /\ s # None /\ SameSession(s, old)
    BY <2>1, NoneAssumption DEF Session, MachineState, SameSession
  <2> HIDE DEF s
  <2>3. n = [e EXCEPT !.sessions[r] = s]
    BY <1>2 DEF CancelledSession, s
  <2>4. n \in Entry
    BY <2>2, <2>3, SessionType
  <2>5. /\ SameRecoveries(n, e) /\ n.active = e.active /\ n.draining = e.draining
        /\ n.pending_request_ids = e.pending_request_ids /\ n.capsule = e.capsule
        /\ n.prepared = e.prepared /\ n.rotation_tombstones = e.rotation_tombstones
    BY <2>3 DEF Entry, SameRecoveries
  <2>6. \A x \in RotationId : n.sessions[x] = IF x = r THEN s ELSE e.sessions[x]
    BY <2>1, <2>3 DEF Entry
  <2>7. RecoveriesOK(n) /\ DrainsOK(n) /\ RecoveriesExtend(n, e)
    BY <2>5 DEF EntryOK, RecoveriesOK, DrainsOK, RecoveriesExtend, SameRecoveries, SameRecovery
  <2>8. RotationsOK(n)
    BY <1>2, <2>1, <2>2, <2>5, <2>6 DEF EntryOK, RotationsOK, SameSession
  <2>9. RotationsExtend(n, e) /\ NoneBegun(n, e)
    BY <1>2, <2>1, <2>2, <2>5, <2>6
    DEF RotationsExtend, NoneBegun, SameSession, SameRecoveries, SameRecovery
  <2> QED
    BY <2>4, <2>7, <2>8, <2>9 DEF Step, EntryOK, Extends
<1> QED
  BY <1>1, <1>2

\* Preparing a record where none is prepared.
LEMMA PrepareStep ==
  ASSUME NEW e \in Entry, EntryOK(e), NEW p \in Plan, e.prepared = None,
         e.rotation_tombstones[rotation_id[p]] = None,
         NEW n, n = [e EXCEPT !.prepared = p]
  PROVE  Step(n, e) /\ n.prepared = p
<1>1. n \in Entry /\ n.prepared = p
  BY DEF Entry
<1>2. /\ SameRecoveries(n, e) /\ n.active = e.active /\ n.draining = e.draining
      /\ n.pending_request_ids = e.pending_request_ids /\ n.capsule = e.capsule
      /\ n.sessions = e.sessions /\ n.rotation_tombstones = e.rotation_tombstones
  BY DEF Entry, SameRecoveries
<1>3. RecoveriesOK(n) /\ DrainsOK(n) /\ RecoveriesExtend(n, e)
  BY <1>2 DEF EntryOK, RecoveriesOK, DrainsOK, RecoveriesExtend, SameRecoveries, SameRecovery
<1>4. RotationsOK(n)
  BY <1>1, <1>2 DEF EntryOK, RotationsOK
<1>5. RotationsExtend(n, e) /\ NoneBegun(n, e)
  BY <1>1, <1>2
  DEF RotationsExtend, NoneBegun, SameSession, SameRecoveries, SameRecovery
<1> QED
  BY <1>1, <1>3, <1>4, <1>5 DEF Step, EntryOK, Extends

\* Retiring a draining epoch that serves no request any more.
LEMMA RetireStep ==
  ASSUME NEW e \in Entry, EntryOK(e), NEW c \in Capsule, e.pending_request_ids[c] = {},
         NEW n, n = [e EXCEPT !.draining = @ \ {c}]
  PROVE  Step(n, e)
<1>1. n \in Entry
  BY DEF Entry
<1>2. /\ SameRecoveries(n, e) /\ n.active = e.active /\ n.draining = e.draining \ {c}
      /\ n.pending_request_ids = e.pending_request_ids /\ n.capsule = e.capsule
      /\ n.prepared = e.prepared /\ n.sessions = e.sessions
      /\ n.rotation_tombstones = e.rotation_tombstones
  BY DEF Entry, SameRecoveries
<1>3. RecoveriesOK(n) /\ DrainsOK(n) /\ RecoveriesExtend(n, e)
  BY <1>2 DEF EntryOK, RecoveriesOK, DrainsOK, RecoveriesExtend, SameRecoveries, SameRecovery
<1>4. RotationsOK(n)
  BY <1>2 DEF EntryOK, RotationsOK
<1>5. RotationsExtend(n, e) /\ NoneBegun(n, e)
  BY <1>2
  DEF RotationsExtend, NoneBegun, SameSession, SameRecoveries, SameRecovery
<1> QED
  BY <1>1, <1>3, <1>4, <1>5 DEF Step, EntryOK, Extends

\* The active epoch drains, and keeps every recovery that may still be served.
LEMMA DrainKeepsRecoveries ==
  ASSUME NEW e \in Entry, EntryOK(e), NEW i \in RequestId, e.recoveries[i] # None,
         ~e.recoveries[i].cancelled, ~e.recoveries[i].released
  PROVE  LET c == config_ref[e.recoveries[i].request]
         IN c \in Drain(e).draining /\ i \in Drain(e).pending_request_ids[c]
<1> DEFINE c == config_ref[e.recoveries[i].request]
<1>1. e.recoveries[i].request \in Request /\ c \in Capsule /\ c # None
  BY IdTypes, NoneAssumption DEF Entry, Recovery
<1>2. e.active = c \/ (c \in e.draining /\ i \in e.pending_request_ids[c])
  BY DEF EntryOK, RecoveriesOK
<1>3. CASE e.active = None
  BY <1>1, <1>2, <1>3 DEF Drain
<1>4. CASE e.active # None
  <2>1. e.active \in Capsule /\ e.active = e.capsule
    BY <1>4 DEF Entry, EntryOK, RotationsOK
  <2>2. /\ Drain(e).draining = e.draining \cup {e.active}
        /\ \A x \in Capsule : Drain(e).pending_request_ids[x] =
             IF x = e.active THEN pending_old_recovery_ids(e) ELSE e.pending_request_ids[x]
    BY <1>4, <2>1 DEF Drain, Entry
  <2>3. e.active = c => i \in pending_old_recovery_ids(e)
    BY <2>1 DEF pending_old_recovery_ids
  <2> QED
    BY <1>1, <1>2, <2>1, <2>2, <2>3
<1> QED
  BY <1>3, <1>4

\* And lists nothing but recoveries that have not been released.
LEMMA DrainListsUnreleased ==
  ASSUME NEW e \in Entry, EntryOK(e), NEW c \in Capsule,
         NEW i \in Drain(e).pending_request_ids[c]
  PROVE  /\ e.recoveries[i] # None
         /\ config_ref[e.recoveries[i].request] = c
         /\ ~e.recoveries[i].released
<1>1. CASE e.active # None /\ c = e.active
  <2>1. e.active = e.capsule /\ Drain(e).pending_request_ids[c] = pending_old_recovery_ids(e)
    BY <1>1 DEF Drain, Entry, EntryOK, RotationsOK
  <2> QED
    BY <1>1, <2>1 DEF pending_old_recovery_ids
<1>2. CASE e.active = None \/ c # e.active
  <2>1. Drain(e).pending_request_ids[c] = e.pending_request_ids[c]
    BY <1>2 DEF Drain, Entry
  <2> QED
    BY <2>1 DEF EntryOK, DrainsOK
<1> QED
  BY <1>1, <1>2

\* The entry that activate stores, for either kind of guardian.
Activated(e, p) ==
  LET a == IF p \in new_roster THEN activate_successor(e, p)
                               ELSE observe_replacement_activation(e, p)
  IN [a EXCEPT !.capsule = p, !.sessions[rotation_id[p]] = None]

\* An activation.
LEMMA ActivateStep ==
  ASSUME NEW e \in Entry, EntryOK(e), NEW p \in Plan,
         e.rotation_tombstones[rotation_id[p]] = None,
         e.prepared # None => e.prepared = p,
         p \notin new_roster => e.prepared = None,
         NEW n, n = Activated(e, p)
  PROVE  Step(n, e)
<1> DEFINE r == rotation_id[p]
           d == Drain(e)
           t == [plan |-> p, state |-> IF p \in new_roster THEN "Active" ELSE "Draining"]
           act == IF p \in new_roster THEN p ELSE None
<1>1. t \in Tombstone /\ t # None /\ t.state # "Aborted" /\ r \in RotationId /\ p \in Capsule
  BY IdTypes, NoneAssumption DEF Tombstone
<1>2. d \in Entry /\ SameRecoveries(d, e) /\ d.sessions = e.sessions
  BY DrainType DEF SameRecoveries
<1>3. d.rotation_tombstones = e.rotation_tombstones /\ d.prepared = e.prepared
  BY DEF Drain, Entry
<1> HIDE DEF t, d
<1>4. /\ n.active = act /\ n.prepared = None /\ n.capsule = p
      /\ n.draining = d.draining /\ n.pending_request_ids = d.pending_request_ids
      /\ n.recoveries = d.recoveries
      /\ n.cancellation_tombstones = d.cancellation_tombstones
      /\ n.rotation_tombstones = [d.rotation_tombstones EXCEPT ![r] = t]
      /\ n.sessions = [d.sessions EXCEPT ![r] = None]
  <2> HIDE DEF r
  <2>1. CASE p \in new_roster
    <3>1. n = [activate_successor(e, p) EXCEPT !.capsule = p, !.sessions[r] = None]
      BY <2>1 DEF Activated, r
    <3>2. activate_successor(e, p) =
            [d EXCEPT !.active = p, !.expected = p, !.prepared = None, !.activation_qc = p,
                      !.rotation_tombstones[r] = t]
      BY <2>1 DEF activate_successor, d, t, r
    <3> QED
      BY <1>2, <2>1, <3>1, <3>2 DEF Entry
  <2>2. CASE p \notin new_roster
    <3>1. n = [observe_replacement_activation(e, p) EXCEPT !.capsule = p, !.sessions[r] = None]
      BY <2>2 DEF Activated, r
    <3>2. observe_replacement_activation(e, p) =
            [d EXCEPT !.active = None, !.activation_qc = p, !.rotation_tombstones[r] = t]
      BY <2>2 DEF observe_replacement_activation, d, t, r
    <3>3. d.prepared = None
      BY <1>3, <2>2
    <3> QED
      BY <1>2, <2>2, <3>1, <3>2, <3>3 DEF Entry
  <2> QED
    BY <2>1, <2>2
<1>5. n \in Entry
  <2> DEFINE a == IF p \in new_roster THEN activate_successor(e, p)
                                      ELSE observe_replacement_activation(e, p)
  <2>1. a \in Entry
    BY ActivateType
  <2>2. n = [a EXCEPT !.capsule = p, !.sessions[r] = None]
    BY DEF Activated
  <2> HIDE DEF a
  <2> QED
    BY <2>1, <2>2, CapsuleType
<1>6. /\ SameRecoveries(n, e) /\ n.active = act /\ n.draining = d.draining
      /\ n.pending_request_ids = d.pending_request_ids /\ n.capsule = p /\ n.prepared = None
  BY <1>2, <1>4 DEF Entry, SameRecoveries
<1>7. \A x \in RotationId : /\ n.sessions[x] = IF x = r THEN None ELSE e.sessions[x]
                            /\ n.rotation_tombstones[x] = IF x = r THEN t ELSE e.rotation_tombstones[x]
  BY <1>1, <1>2, <1>3, <1>4 DEF Entry
<1>8. RecoveriesOK(n) /\ DrainsOK(n) /\ RecoveriesExtend(n, e)
  <2>1. RecoveriesOK(n) /\ RecoveriesExtend(n, e)
    BY <1>6, DrainKeepsRecoveries
    DEF EntryOK, RecoveriesOK, RecoveriesExtend, SameRecoveries, SameRecovery, d
  <2>2. DrainsOK(n)
    BY <1>6, DrainListsUnreleased DEF DrainsOK, SameRecoveries, d
  <2> QED
    BY <2>1, <2>2
<1>9. RotationsOK(n)
  BY <1>1, <1>6, <1>7 DEF EntryOK, RotationsOK
<1>10. RotationsExtend(n, e) /\ NoneBegun(n, e)
  BY <1>1, <1>6, <1>7
  DEF RotationsExtend, NoneBegun, SameSession, SameRecoveries, SameRecovery
<1> QED
  BY <1>5, <1>8, <1>9, <1>10 DEF Step, EntryOK, Extends

\* The fields of the rotations and of the active epoch are left alone.
SameRotations(n, e) ==
  /\ n.capsule = e.capsule /\ n.active = e.active /\ n.prepared = e.prepared
  /\ n.draining = e.draining /\ n.rotation_tombstones = e.rotation_tombstones
  /\ n.sessions = e.sessions

\* Then the rotations stay in order.
LEMMA SameRotationsKeep ==
  ASSUME NEW n, NEW e, RotationsOK(e), SameRotations(n, e)
  PROVE  RotationsOK(n) /\ RotationsExtend(n, e)
  BY DEF SameRotations, RotationsOK, RotationsExtend, SameSession

\* The entries that a handler stores: with a session, with a recovery, with a
\* cancelled and with a released recovery.
SessionStored(e, p, s) == [e EXCEPT !.sessions[rotation_id[p]] = s]

RecoveryStored(e, q, pending) == [e EXCEPT !.recoveries[request_id[q]] = pending]

CancelStored(e, q, new) ==
  [e EXCEPT !.cancellation_tombstones[request_id[q]] = q, !.recoveries[request_id[q]] = new]

ReleaseStored(e, i, new, c) ==
  [e EXCEPT !.recoveries[i] = new, !.pending_request_ids[c] = @ \ {i}]

\* Cancelling a recovery, known or not: new is what becomes of it.
LEMMA RecoveryCancelStep ==
  ASSUME NEW e \in Entry, EntryOK(e), NEW q \in Request, NEW new \in Recovery \cup {None},
         e.recoveries[request_id[q]] = None <=> new = None,
         e.recoveries[request_id[q]] # None =>
           /\ SameRecovery(new, e.recoveries[request_id[q]])
           /\ new.cancelled /\ ~new.released /\ ~e.recoveries[request_id[q]].released,
         NEW n, n = CancelStored(e, q, new)
  PROVE  Step(n, e) /\ n.cancellation_tombstones[request_id[q]] # None
<1> USE DEF CancelStored
<1> DEFINE i == request_id[q]
<1>1. i \in RequestId /\ q # None
  BY IdTypes, NoneAssumption
<1>2. n \in Entry
  BY <1>1 DEF Entry
<1>3. SameRotations(n, e) /\ n.pending_request_ids = e.pending_request_ids
  BY DEF Entry, SameRotations
<1>4. \A j \in RequestId :
        /\ n.recoveries[j] = IF j = i THEN new ELSE e.recoveries[j]
        /\ n.cancellation_tombstones[j] = IF j = i THEN q ELSE e.cancellation_tombstones[j]
  BY <1>1 DEF Entry
<1>5. RotationsOK(n) /\ RotationsExtend(n, e)
  BY <1>3, SameRotationsKeep DEF EntryOK
<1>6. RecoveriesOK(n) /\ DrainsOK(n)
  BY <1>1, <1>3, <1>4 DEF EntryOK, RecoveriesOK, DrainsOK, SameRecovery, SameRotations
<1>7. RecoveriesExtend(n, e) /\ NoneBegun(n, e)
  BY <1>1, <1>3, <1>4
  DEF RecoveriesExtend, NoneBegun, SameRecovery, SameRotations, SameSession
<1> QED
  BY <1>1, <1>2, <1>4, <1>5, <1>6, <1>7 DEF Step, EntryOK, Extends

\* Releasing a recovery: new is what becomes of it, and its epoch c no longer lists it.
LEMMA ReleaseStep ==
  ASSUME NEW e \in Entry, EntryOK(e), NEW i \in RequestId, NEW c \in Capsule,
         NEW new \in Recovery,
         e.recoveries[i] # None, SameRecovery(new, e.recoveries[i]),
         ~e.recoveries[i].cancelled, ~new.cancelled, new.released,
         config_ref[e.recoveries[i].request] = c,
         NEW n, n = ReleaseStored(e, i, new, c)
  PROVE  Step(n, e) /\ n.recoveries[i] = new
<1> DEFINE ids == e.pending_request_ids[c] \ {i}
<1>0. /\ n = [e EXCEPT !.recoveries[i] = new, !.pending_request_ids[c] = ids]
      /\ ids \in SUBSET RequestId
      /\ \A j : j \in e.pending_request_ids[c] /\ j # i => j \in ids
  BY DEF ReleaseStored, Entry
<1> HIDE DEF ids
<1>1. n \in Entry
  <2> DEFINE f == [e.recoveries EXCEPT ![i] = new]
             g == [e.pending_request_ids EXCEPT ![c] = ids]
  <2>1. /\ f \in [RequestId -> Recovery \cup {None}]
        /\ g \in [Capsule -> SUBSET RequestId]
    BY <1>0 DEF Entry
  <2>2. n = [e EXCEPT !.recoveries = f, !.pending_request_ids = g]
    BY <1>0 DEF Entry
  <2> HIDE DEF f, g
  <2> QED
    BY <2>1, <2>2 DEF Entry
<1>2. SameRotations(n, e) /\ n.cancellation_tombstones = e.cancellation_tombstones
  BY <1>0 DEF Entry, SameRotations
<1>3. /\ \A j \in RequestId : n.recoveries[j] = IF j = i THEN new ELSE e.recoveries[j]
      /\ \A x \in Capsule : n.pending_request_ids[x] = IF x = c THEN ids
                                                       ELSE e.pending_request_ids[x]
  BY <1>0 DEF Entry
<1>4. RotationsOK(n) /\ RotationsExtend(n, e)
  BY <1>2, SameRotationsKeep DEF EntryOK
<1>5. \A j \in RequestId : e.recoveries[j] # None => config_ref[e.recoveries[j].request] \in Capsule
  BY IdTypes DEF Entry, Recovery
<1>6. RecoveriesOK(n)
  <2> SUFFICES ASSUME NEW j \in RequestId, n.recoveries[j] # None, j # i
               PROVE  LET pending == n.recoveries[j]
                          x == config_ref[pending.request]
                      IN /\ request_id[pending.request] = j
                         /\ ~(pending.cancelled /\ pending.released)
                         /\ n.cancellation_tombstones[j] # None => pending.cancelled
                         /\ ~pending.cancelled /\ ~pending.released =>
                              \/ n.active = x
                              \/ x \in n.draining /\ j \in n.pending_request_ids[x]
    BY <1>2, <1>3 DEF EntryOK, RecoveriesOK, SameRecovery
  <2>1. n.recoveries[j] = e.recoveries[j]
    BY <1>3
  <2>2. \A x \in Capsule : j \in e.pending_request_ids[x] => j \in n.pending_request_ids[x]
    BY <1>0, <1>3
  <2> QED
    BY <1>2, <1>5, <2>1, <2>2 DEF EntryOK, RecoveriesOK, SameRotations
<1>7. DrainsOK(n)
  <2> SUFFICES ASSUME NEW x \in Capsule, NEW j \in n.pending_request_ids[x]
               PROVE  /\ n.recoveries[j] # None
                      /\ config_ref[n.recoveries[j].request] = x
                      /\ ~n.recoveries[j].released
    BY DEF DrainsOK
  <2>1. j \in e.pending_request_ids[x] /\ j \in RequestId
    BY <1>0, <1>3, <1>1 DEF Entry, ids
  <2>2. config_ref[e.recoveries[j].request] = x /\ e.recoveries[j] # None
        /\ ~e.recoveries[j].released
    BY <2>1 DEF EntryOK, DrainsOK
  <2>3. j # i
    BY <1>3, <2>2 DEF ids
  <2> QED
    BY <1>3, <2>1, <2>2, <2>3
<1>8. RecoveriesExtend(n, e) /\ NoneBegun(n, e)
  BY <1>2, <1>3
  DEF RecoveriesExtend, NoneBegun, SameRecovery, SameRotations, SameSession
<1> QED
  BY <1>1, <1>3, <1>4, <1>6, <1>7, <1>8 DEF Step, EntryOK, Extends

\* Accepting a new recovery.
LEMMA RecoveryBeginStep ==
  ASSUME NEW e \in Entry, EntryOK(e), NEW q \in Request, MayBegin(e, q),
         e.recoveries[request_id[q]] = None,
         NEW pending \in Recovery, pending.request = q, ~pending.cancelled, ~pending.released,
         NEW n, n = RecoveryStored(e, q, pending)
  PROVE  /\ n \in Entry /\ EntryOK(n) /\ Extends(n, e) /\ n.sessions = e.sessions
         /\ \A i \in RequestId :
              n.recoveries[i] = IF i = request_id[q] THEN pending ELSE e.recoveries[i]
<1> USE DEF RecoveryStored
<1> DEFINE i == request_id[q]
<1>1. i \in RequestId /\ pending # None
  BY IdTypes, NoneAssumption
<1>2. n \in Entry
  BY <1>1 DEF Entry
<1>3. /\ SameRotations(n, e) /\ n.cancellation_tombstones = e.cancellation_tombstones
      /\ n.pending_request_ids = e.pending_request_ids
  BY DEF Entry, SameRotations
<1>4. \A j \in RequestId : n.recoveries[j] = IF j = i THEN pending ELSE e.recoveries[j]
  BY <1>1 DEF Entry
<1>5. RotationsOK(n) /\ RotationsExtend(n, e)
  BY <1>3, SameRotationsKeep DEF EntryOK
<1>6. RecoveriesOK(n) /\ DrainsOK(n)
  BY <1>1, <1>3, <1>4 DEF EntryOK, RecoveriesOK, DrainsOK, SameRotations, MayBegin
<1>7. RecoveriesExtend(n, e)
  BY <1>1, <1>3, <1>4 DEF RecoveriesExtend, SameRecovery
<1> QED
  BY <1>2, <1>3, <1>4, <1>5, <1>6, <1>7 DEF EntryOK, Extends, SameRotations

\* Accepting a new rotation.
LEMMA RotationBeginStep ==
  ASSUME NEW e \in Entry, EntryOK(e), NEW p \in Plan,
         e.sessions[rotation_id[p]] = None, e.rotation_tombstones[rotation_id[p]] = None,
         NEW s \in Session, s.plan = p,
         NEW n, n = SessionStored(e, p, s)
  PROVE  /\ n \in Entry /\ EntryOK(n) /\ Extends(n, e) /\ n.recoveries = e.recoveries
         /\ \A r \in RotationId :
              n.sessions[r] = IF r = rotation_id[p] THEN s ELSE e.sessions[r]
<1> USE DEF SessionStored
<1> DEFINE r == rotation_id[p]
<1>1. r \in RotationId /\ s # None
  BY IdTypes, NoneAssumption
<1>2. n \in Entry
  BY SessionType
<1>3. /\ SameRecoveries(n, e) /\ n.active = e.active /\ n.draining = e.draining
      /\ n.pending_request_ids = e.pending_request_ids /\ n.capsule = e.capsule
      /\ n.prepared = e.prepared /\ n.rotation_tombstones = e.rotation_tombstones
  BY DEF Entry, SameRecoveries
<1>4. \A x \in RotationId : n.sessions[x] = IF x = r THEN s ELSE e.sessions[x]
  BY <1>1 DEF Entry
<1>5. RecoveriesOK(n) /\ DrainsOK(n) /\ RecoveriesExtend(n, e)
  BY <1>3 DEF EntryOK, RecoveriesOK, DrainsOK, RecoveriesExtend, SameRecoveries, SameRecovery
<1>6. RotationsOK(n) /\ RotationsExtend(n, e)
  BY <1>1, <1>3, <1>4 DEF EntryOK, RotationsOK, RotationsExtend, SameSession
<1> QED
  BY <1>2, <1>3, <1>4, <1>5, <1>6 DEF EntryOK, Extends, SameRecoveries

-----------------------------------------------------------------------------
(* The inductive invariant *)

\* Every reply of r that has left is recorded in e.
RepliesIn(e, r) ==
  /\ \A q \in Request :
       LET pending == e.recoveries[request_id[q]]
       IN /\ q \in r.begun => pending # None /\ pending.request = q
          /\ q \in r.cancelled => e.cancellation_tombstones[request_id[q]] # None
          /\ r.contributions[q] # 0 =>
               /\ r.contributions[q] = 1
               /\ pending # None /\ pending.request = q /\ pending.released
  /\ \A p \in Plan :
       LET tombstone == e.rotation_tombstones[rotation_id[p]]
       IN /\ p \in r.prepared => e.prepared = p \/ tombstone # None
          /\ p \in r.rotation_cancelled => tombstone = [plan |-> p, state |-> "Aborted"]

\* A recovery or session of the present boot is that of the last Begin (b, s), and
\* its not_before lies the whole delay after the arrival of that Begin.
RecoveryTimed(x, c, b) ==
  /\ x.boot_id <= c.boot_id
  /\ x.boot_id = c.boot_id =>
       /\ b[x.request] # None
       /\ b[x.request].boot_id = c.boot_id
       /\ b[x.request].at + recovery_delay = x.not_before + c.booted_at

SessionTimed(x, c, s) ==
  /\ x.boot_id <= c.boot_id
  /\ x.boot_id = c.boot_id =>
       /\ s[x.plan] # None
       /\ s[x.plan].boot_id = c.boot_id
       /\ s[x.plan].at + rotation_delay = x.not_before + c.booted_at

Timed(e, c, b, s) ==
  /\ \A i \in RequestId : e.recoveries[i] # None => RecoveryTimed(e.recoveries[i], c, b)
  /\ \A r \in RotationId : e.sessions[r] # None => SessionTimed(e.sessions[r], c, s)

ClockOK == clock.booted_at <= clock.up_since /\ clock.up_since <= now

IInv ==
  /\ TypeOK
  /\ EntryOK(entry) /\ EntryOK(saved)
  /\ Extends(entry, saved)
  /\ RepliesIn(saved, replies)
  /\ ClockOK
  /\ Timed(entry, clock, begun, started)
  /\ Timed(saved, clock, begun, started)

\* What was recorded stays recorded.
LEMMA RecordedStays ==
  ASSUME NEW e \in Entry, NEW n \in Entry, Extends(n, e), NEW r, RepliesIn(e, r)
  PROVE  RepliesIn(n, r)
<1>1. ASSUME NEW q \in Request
      PROVE  LET pending == n.recoveries[request_id[q]]
             IN /\ q \in r.begun => pending # None /\ pending.request = q
                /\ q \in r.cancelled => n.cancellation_tombstones[request_id[q]] # None
                /\ r.contributions[q] # 0 =>
                     /\ r.contributions[q] = 1
                     /\ pending # None /\ pending.request = q /\ pending.released
  BY IdTypes DEF RepliesIn, Extends, RecoveriesExtend, SameRecovery
<1>2. ASSUME NEW p \in Plan
      PROVE  LET tombstone == n.rotation_tombstones[rotation_id[p]]
             IN /\ p \in r.prepared => n.prepared = p \/ tombstone # None
                /\ p \in r.rotation_cancelled => tombstone = [plan |-> p, state |-> "Aborted"]
  <2>1. rotation_id[p] \in RotationId /\ p # None
    BY IdTypes, NoneAssumption
  <2>2. [plan |-> p, state |-> "Aborted"] # None
    BY NoneAssumption DEF Tombstone
  <2> QED
    BY <2>1, <2>2 DEF RepliesIn, Extends, RotationsExtend
<1> QED
  BY <1>1, <1>2 DEF RepliesIn

\* In particular, all replies are recorded in what a handler stores.
LEMMA RepliesRecorded ==
  ASSUME IInv, NEW n \in Entry, Extends(n, entry)
  PROVE  RepliesIn(n, replies) /\ Extends(n, saved)
<1>1. entry \in Entry /\ saved \in Entry /\ Extends(entry, saved) /\ RepliesIn(saved, replies)
  BY DEF IInv, TypeOK
<1>2. Extends(n, saved)
  BY <1>1, ExtendsIsTransitive
<1> QED
  BY <1>1, <1>2, RecordedStays

\* Times stay in order when nothing begins.
LEMMA TimedStays ==
  ASSUME NEW n, NEW e, NEW c, NEW b, NEW s, Timed(e, c, b, s), NoneBegun(n, e)
  PROVE  Timed(n, c, b, s)
  BY DEF Timed, NoneBegun, SameRecovery, SameSession, RecoveryTimed, SessionTimed

\* A handler that succeeds.
LEMMA PersistKeepsIInv ==
  ASSUME IInv, NEW n \in Entry, EntryOK(n), Extends(n, entry),
         NEW r \in Replies, RepliesIn(n, r), Persist(n, r),
         begun' \in [Request -> Arrival \cup {None}],
         started' \in [Plan -> Arrival \cup {None}],
         Timed(n, clock, begun', started'), Timed(saved, clock, begun', started')
  PROVE  IInv'
<1>1. /\ entry' = n /\ saved' \in {saved, n} /\ now' = now /\ clock' = clock
      /\ \/ saved' = n /\ replies' = r
         \/ replies' = replies
      /\ failures' \in {failures, failures + 1}
  BY DEF Persist
<1>2. TypeOK'
  BY <1>1 DEF IInv, TypeOK
<1>3. EntryOK(entry') /\ EntryOK(saved')
  BY <1>1 DEF IInv
<1>4. Extends(entry', saved')
  BY <1>1, RepliesRecorded, StepIsReflexive DEF Step
<1>5. RepliesIn(saved', replies')
  BY <1>1, RepliesRecorded DEF IInv
<1>6. ClockOK'
  BY <1>1 DEF IInv, ClockOK
<1>7. Timed(entry', clock', begun', started') /\ Timed(saved', clock', begun', started')
  BY <1>1
<1> QED
  BY <1>2, <1>3, <1>4, <1>5, <1>6, <1>7 DEF IInv

\* A handler that succeeds and begins nothing.
LEMMA StepKeepsIInv ==
  ASSUME IInv, NEW n, Step(n, entry), NEW r \in Replies, RepliesIn(n, r), Persist(n, r),
         UNCHANGED <<begun, started>>
  PROVE  IInv'
<1>1. Timed(n, clock, begun, started) /\ Timed(saved, clock, begun, started)
  BY TimedStays DEF IInv, Step
<1>2. /\ begun \in [Request -> Arrival \cup {None}]
      /\ started \in [Plan -> Arrival \cup {None}]
  BY DEF IInv, TypeOK
<1> QED
  BY <1>1, <1>2, PersistKeepsIInv DEF Step

\* A handler whose reply the properties do not count.
LEMMA QuietKeepsIInv ==
  ASSUME IInv, NEW n, Step(n, entry), Persist(n, replies), UNCHANGED <<begun, started>>
  PROVE  IInv'
<1>1. replies \in Replies /\ RepliesIn(n, replies)
  BY RepliesRecorded DEF IInv, TypeOK, Step
<1> QED
  BY <1>1, StepKeepsIInv

\* A handler that fails halfway.
LEMMA FailKeepsIInv ==
  ASSUME IInv, NEW n, Step(n, entry), FailWith(n)
  PROVE  IInv'
<1>1. /\ entry' = n /\ UNCHANGED <<now, clock, saved, replies, begun, started, failures>>
  BY DEF FailWith
<1>2. n \in Entry /\ EntryOK(n) /\ Extends(n, saved) /\ Timed(n, clock, begun, started)
  BY TimedStays, RepliesRecorded DEF IInv, Step
<1>3. TypeOK'
  BY <1>1, <1>2 DEF IInv, TypeOK
<1>4. RepliesIn(saved', replies') /\ Timed(saved', clock', begun', started') /\ EntryOK(saved')
  BY <1>1 DEF IInv
<1>5. EntryOK(entry') /\ Extends(entry', saved') /\ Timed(entry', clock', begun', started')
  BY <1>1, <1>2
<1>6. ClockOK'
  BY <1>1 DEF IInv, ClockOK
<1> QED
  BY <1>3, <1>4, <1>5, <1>6 DEF IInv

-----------------------------------------------------------------------------
(* Every action keeps the invariant: rotations *)

\* The session that session_mut finds.
LEMMA FoundSession ==
  ASSUME IInv, NEW p \in Plan, session_mut(entry, p)
  PROVE  /\ entry \in Entry /\ EntryOK(entry)
         /\ entry.sessions[rotation_id[p]] # None
         /\ entry.sessions[rotation_id[p]] \in Session
         /\ entry.rotation_tombstones[rotation_id[p]] = None
         /\ State(entry, p) \in MachineState
         /\ Local(entry, p) \in LocalState \cup {None}
         /\ Staged(entry, p) \in Capsule \cup {None}
<1>1. entry \in Entry /\ EntryOK(entry) /\ rotation_id[p] \in RotationId
  BY IdTypes DEF IInv, TypeOK
<1>2. entry.sessions[rotation_id[p]] # None
  BY DEF session_mut
<1>3. entry.sessions[rotation_id[p]] \in Session
  BY <1>1, <1>2 DEF Entry
<1>4. entry.rotation_tombstones[rotation_id[p]] = None
  BY <1>1, <1>2 DEF EntryOK, RotationsOK
<1> QED
  BY <1>1, <1>2, <1>3, <1>4 DEF State, Local, Staged, Session

\* The rounds of a rotation, which only change the session.
LEMMA RoundKeepsIInv ==
  ASSUME IInv, NEW p \in Plan, session_mut(entry, p), NEW state \in MachineState,
         NEW local \in LocalState \cup {None}, NEW staged \in Capsule \cup {None},
         Persist(WithSession(entry, p, state, local, staged), replies),
         UNCHANGED <<begun, started>>
  PROVE  IInv'
  BY FoundSession, WithSessionStep, QuietKeepsIInv

LEMMA RoundFailKeepsIInv ==
  ASSUME IInv, NEW p \in Plan, session_mut(entry, p), NEW state \in MachineState,
         NEW local \in LocalState \cup {None}, NEW staged \in Capsule \cup {None},
         FailWith(WithSession(entry, p, state, local, staged))
  PROVE  IInv'
  BY FoundSession, WithSessionStep, FailKeepsIInv

\* Rounds that send old-share material.
LEMMA ShareKeepsIInv ==
  ASSUME IInv, NEW p \in Plan, session_mut(entry, p), NEW state \in MachineState,
         NEW local \in LocalState \cup {None}, NEW staged \in Capsule \cup {None},
         Persist(WithSession(entry, p, state, local, staged),
                 [replies EXCEPT !.shares = @ \cup {p}]),
         UNCHANGED <<begun, started>>
  PROVE  IInv'
<1> DEFINE n == WithSession(entry, p, state, local, staged)
           r == [replies EXCEPT !.shares = @ \cup {p}]
<1>1. Step(n, entry)
  BY FoundSession, WithSessionStep
<1>2. replies \in Replies /\ RepliesIn(n, replies)
  BY <1>1, RepliesRecorded DEF IInv, TypeOK, Step
<1>3. /\ r \in Replies
      /\ r.begun = replies.begun /\ r.cancelled = replies.cancelled
      /\ r.contributions = replies.contributions /\ r.prepared = replies.prepared
      /\ r.rotation_cancelled = replies.rotation_cancelled
  BY <1>2 DEF Replies
<1>4. RepliesIn(n, r)
  BY <1>2, <1>3 DEF RepliesIn
<1> QED
  BY <1>1, <1>3, <1>4, StepKeepsIInv

\* The handoff of an old guardian.
LEMMA HandoffKeepsIInv ==
  ASSUME IInv, NEW p \in Plan, handoff_complete(p)
  PROVE  IInv'
<1> DEFINE n == WithSession(entry, p, State(entry, p), None, Staged(entry, p))
           r == [replies EXCEPT !.handoff = @ \cup {p}]
<1>1. session_mut(entry, p) /\ Persist(n, r) /\ UNCHANGED <<begun, started>>
  BY DEF handoff_complete
<1>2. Step(n, entry)
  BY <1>1, FoundSession, WithSessionStep
<1>3. replies \in Replies /\ RepliesIn(n, replies)
  BY <1>2, RepliesRecorded DEF IInv, TypeOK, Step
<1>4. /\ r \in Replies
      /\ r.begun = replies.begun /\ r.cancelled = replies.cancelled
      /\ r.contributions = replies.contributions /\ r.prepared = replies.prepared
      /\ r.rotation_cancelled = replies.rotation_cancelled
  BY <1>3 DEF Replies
<1>5. RepliesIn(n, r)
  BY <1>3, <1>4 DEF RepliesIn
<1> QED
  BY <1>1, <1>2, <1>4, <1>5, StepKeepsIInv

\* A step after a step is a step.
LEMMA StepIsTransitive ==
  ASSUME NEW e1 \in Entry, NEW e2, NEW e3, Step(e2, e1), Step(e3, e2)
  PROVE  Step(e3, e1)
<1>1. Extends(e3, e1)
  BY ExtendsIsTransitive DEF Step
<1>2. NoneBegun(e3, e1)
  BY DEF Step, NoneBegun, SameRecovery, SameSession
<1> QED
  BY <1>1, <1>2 DEF Step

\* The commitment to a prepared record.
LEMMA PrepareKeepsIInv ==
  ASSUME IInv, NEW p \in Plan, prepare_commit(p)
  PROVE  IInv'
<1> DEFINE w == WithSession(entry, p, State(entry, p), Local(entry, p), None)
           n == [w EXCEPT !.prepared = p]
           r == [replies EXCEPT !.prepared = @ \cup {p}]
<1>1. /\ session_mut(entry, p) /\ MayPrepare(entry, p)
      /\ Persist(n, r) /\ UNCHANGED <<begun, started>>
  BY DEF prepare_commit
<1>2. Step(w, entry) /\ w = [entry EXCEPT !.sessions = w.sessions] /\ entry \in Entry
  BY <1>1, FoundSession, WithSessionStep
<1> HIDE DEF w
<1>3. w.prepared = None /\ w.rotation_tombstones[rotation_id[p]] = None
  BY <1>1, <1>2 DEF MayPrepare, Entry
<1>4. Step(n, w) /\ n.prepared = p
  BY <1>2, <1>3, PrepareStep DEF Step
<1> HIDE DEF n
<1>5. Step(n, entry)
  BY <1>2, <1>4, StepIsTransitive
<1>6. replies \in Replies /\ RepliesIn(n, replies)
  BY <1>5, RepliesRecorded DEF IInv, TypeOK, Step
<1>7. /\ r \in Replies
      /\ r.begun = replies.begun /\ r.cancelled = replies.cancelled
      /\ r.contributions = replies.contributions /\ r.prepared = replies.prepared \cup {p}
      /\ r.rotation_cancelled = replies.rotation_cancelled
  BY <1>6 DEF Replies
<1>8. RepliesIn(n, r)
  BY <1>4, <1>6, <1>7 DEF RepliesIn
<1> QED
  BY <1>1, <1>5, <1>7, <1>8, StepKeepsIInv

\* A threshold abort.
LEMMA AbortKeepsIInv ==
  ASSUME IInv, NEW p \in Plan, RotationAbort(p) \/ RotationAbortConflict(p)
  PROVE  IInv'
<1>1. CASE RotationAbort(p)
  <2>1. /\ session_mut(entry, p) /\ MayAbort(entry, p)
        /\ Persist(abort_prepared(entry, p), replies) /\ UNCHANGED <<begun, started>>
    BY <1>1 DEF RotationAbort
  <2>2. Step(abort_prepared(entry, p), entry)
    BY <2>1, FoundSession, AbortStep DEF MayAbort
  <2> QED
    BY <2>1, <2>2, QuietKeepsIInv
<1>2. CASE RotationAbortConflict(p)
  <2>1. /\ session_mut(entry, p)
        /\ FailWith(WithSession(entry, p, "Aborted", Local(entry, p), Staged(entry, p)))
        /\ "Aborted" \in MachineState
    BY <1>2 DEF RotationAbortConflict, MachineState
  <2> QED
    BY <2>1, FoundSession, RoundFailKeepsIInv
<1> QED
  BY <1>1, <1>2

\* The owner's cancellation of a rotation.
LEMMA RotationCancelKeepsIInv ==
  ASSUME IInv, NEW p \in Plan, RotationCancel(p) \/ RotationCancelConflict(p)
  PROVE  IInv'
<1> DEFINE t == [plan |-> p, state |-> "Aborted"]
           a == abort_prepared(entry, p)
           r == [replies EXCEPT !.rotation_cancelled = @ \cup {p}]
<1>1. /\ entry \in Entry /\ EntryOK(entry)
      /\ entry.rotation_tombstones[rotation_id[p]] \in {None, t}
  BY DEF IInv, TypeOK, RotationCancel, RotationCancelConflict, MayCancel
<1>2. MayAbort(entry, p) =>
        Step(a, entry) /\ a.rotation_tombstones[rotation_id[p]] = t
  BY <1>1, AbortStep DEF MayAbort
<1>3. CASE RotationCancel(p)
  <2>1. MayAbort(entry, p) /\ Persist(a, r) /\ UNCHANGED <<begun, started>>
    BY <1>3 DEF RotationCancel
  <2> HIDE DEF a, t
  <2>2. Step(a, entry) /\ a.rotation_tombstones[rotation_id[p]] = t
    BY <1>2, <2>1
  <2>3. replies \in Replies /\ RepliesIn(a, replies)
    BY <2>2, RepliesRecorded DEF IInv, TypeOK, Step
  <2>4. /\ r \in Replies
        /\ r.begun = replies.begun /\ r.cancelled = replies.cancelled
        /\ r.contributions = replies.contributions /\ r.prepared = replies.prepared
        /\ r.rotation_cancelled = replies.rotation_cancelled \cup {p}
    BY <2>3 DEF Replies
  <2>5. RepliesIn(a, r)
    BY <2>2, <2>3, <2>4 DEF RepliesIn, t
  <2> QED
    BY <2>1, <2>2, <2>4, <2>5, StepKeepsIInv
<1>4. CASE RotationCancelConflict(p)
  <2>1. Step(CancelledSession(entry, p), entry)
    BY <1>1, CancelledSessionStep
  <2>2. FailWith(IF MayAbort(entry, p) THEN a ELSE CancelledSession(entry, p))
    BY <1>4 DEF RotationCancelConflict
  <2> HIDE DEF a
  <2> QED
    BY <1>2, <2>1, <2>2, FailKeepsIInv
<1> QED
  BY <1>3, <1>4

\* An activation, or one that the store refuses.
LEMMA ActivateKeepsIInv ==
  ASSUME IInv, NEW p \in Plan, activate(p) \/ ActivateConflict(p)
  PROVE  IInv'
<1>1. CASE activate(p)
  <2>1. /\ MayActivate(entry, p) /\ StoreAccepts(entry, p)
        /\ Persist(Activated(entry, p), replies) /\ UNCHANGED <<begun, started>>
    BY <1>1 DEF activate, Activated
  <2>2. /\ session_mut(entry, p)
        /\ entry.prepared # None => entry.prepared = p
        /\ p \notin new_roster => entry.prepared = None
    BY <2>1 DEF MayActivate, StoreAccepts
  <2>3. Step(Activated(entry, p), entry)
    BY <2>2, FoundSession, ActivateStep
  <2> QED
    BY <2>1, <2>3, QuietKeepsIInv
<1>2. CASE ActivateConflict(p)
  <2>1. /\ session_mut(entry, p)
        /\ FailWith(WithSession(entry, p, "Active", Local(entry, p), Staged(entry, p)))
        /\ "Active" \in MachineState
    BY <1>2 DEF ActivateConflict, MayActivate, MachineState
  <2> QED
    BY <2>1, FoundSession, RoundFailKeepsIInv
<1> QED
  BY <1>1, <1>2

\* The rounds of the DPSS session and the staging of its result.
LEMMA RoundsKeepIInv ==
  ASSUME IInv, NEW p \in Plan,
         \/ repair_round1(p) \/ repair_round2(p) \/ repair_finalize(p)
         \/ refresh_round1(p) \/ refresh_round2(p) \/ refresh_finalize(p)
         \/ stage_material(p)
  PROVE  IInv'
<1>1. /\ session_mut(entry, p) /\ entry \in Entry
      /\ "Preparing" \in MachineState
      /\ {"RepairDealer", "OldShare", "Repaired", "RefreshRound1", "RefreshRound2",
          "Refreshed"} \subseteq LocalState
  BY DEF repair_round1, repair_round2, repair_finalize, refresh_round1, refresh_round2,
         refresh_finalize, stage_material, MachineState, LocalState, IInv, TypeOK
<1>2. /\ State(entry, p) \in MachineState /\ Local(entry, p) \in LocalState \cup {None}
      /\ Staged(entry, p) \in Capsule \cup {None} /\ entry.capsule \in Capsule
  BY <1>1, FoundSession DEF Entry
<1>3. CASE repair_round1(p)
  BY <1>1, <1>2, <1>3, ShareKeepsIInv, RoundFailKeepsIInv DEF repair_round1
<1>4. CASE repair_round2(p)
  BY <1>1, <1>2, <1>4, RoundKeepsIInv DEF repair_round2
<1>5. CASE repair_finalize(p)
  BY <1>1, <1>2, <1>5, RoundKeepsIInv, RoundFailKeepsIInv DEF repair_finalize
<1>6. CASE refresh_round1(p)
  BY <1>1, <1>2, <1>6, ShareKeepsIInv DEF refresh_round1
<1>7. CASE refresh_round2(p)
  BY <1>1, <1>2, <1>7, RoundKeepsIInv DEF refresh_round2
<1>8. CASE refresh_finalize(p)
  BY <1>1, <1>2, <1>8, RoundKeepsIInv DEF refresh_finalize
<1>9. CASE stage_material(p)
  BY <1>1, <1>2, <1>9, RoundKeepsIInv DEF stage_material
<1> QED
  BY <1>3, <1>4, <1>5, <1>6, <1>7, <1>8, <1>9

\* The clocks a handler has read.
LEMMA SampledTimes ==
  ASSUME IInv, NEW at \in Sampled
  PROVE  /\ at \in Nat /\ at <= now /\ clock.boot_id \in Nat /\ clock.booted_at \in Nat
         /\ monotonic_now(at) \in Nat /\ monotonic_now(at) + clock.booted_at = at
<1>1. /\ now \in Nat /\ clock.boot_id \in Nat /\ clock.booted_at \in Nat
      /\ clock.up_since \in Nat /\ clock.booted_at <= clock.up_since
  BY DEF IInv, TypeOK, Clock, ClockOK
<1> QED
  BY <1>1 DEF Sampled, monotonic_now

\* An accepted Begin of a rotation.
LEMMA RotationBeginKeepsIInv ==
  ASSUME IInv, NEW p \in Plan, RotationBegin(p) \/ RotationBeginAgain(p)
  PROVE  IInv'
<1>1. CASE RotationBegin(p)
  <2>1. PICK at \in Sampled :
          /\ Persist([entry EXCEPT !.sessions[rotation_id[p]] = NewSession(p, at)], replies)
          /\ started' = [started EXCEPT ![p] = [at |-> at, boot_id |-> clock.boot_id]]
    BY <1>1 DEF RotationBegin
  <2> DEFINE r == rotation_id[p]
             x == NewSession(p, at)
             n == [entry EXCEPT !.sessions[r] = x]
             b == [at |-> at, boot_id |-> clock.boot_id]
  <2>2. /\ entry \in Entry /\ saved \in Entry /\ EntryOK(entry) /\ Extends(entry, saved)
        /\ EntryOK(saved) /\ r \in RotationId
        /\ entry.sessions[r] = None /\ entry.rotation_tombstones[r] = None
        /\ begun' = begun /\ begun \in [Request -> Arrival \cup {None}]
        /\ started \in [Plan -> Arrival \cup {None}] /\ replies \in Replies
    BY <1>1, IdTypes DEF RotationBegin, IInv, TypeOK
  <2>3. /\ x \in Session /\ x.plan = p /\ x.boot_id = clock.boot_id
        /\ x.not_before + clock.booted_at = at + rotation_delay
    BY SampledTimes, EpochAssumption, NoneAssumption DEF NewSession, Session, MachineState
  <2>4. b \in Arrival /\ b # None /\ b.at = at /\ b.boot_id = clock.boot_id
    BY SampledTimes, NoneAssumption DEF Arrival
  <2> HIDE DEF x, b
  <2>0. n = SessionStored(entry, p, x)
    BY DEF SessionStored
  <2> HIDE DEF n
  <2>5. /\ n \in Entry /\ EntryOK(n) /\ Extends(n, entry) /\ n.recoveries = entry.recoveries
        /\ \A y \in RotationId : n.sessions[y] = IF y = r THEN x ELSE entry.sessions[y]
    BY <2>0, <2>2, <2>3, RotationBeginStep
  <2>6. /\ started' \in [Plan -> Arrival \cup {None}]
        /\ \A y \in Plan : started'[y] = IF y = p THEN b ELSE started[y]
    BY <2>1, <2>2, <2>4 DEF b
  <2>7. saved.sessions[r] = None
    BY <2>2 DEF Extends, RotationsExtend, SameSession
  <2>8. \A e \in {entry, saved} : \A y \in RotationId : e.sessions[y] # None /\ y # r =>
          SessionTimed(e.sessions[y], clock, started')
    <3> SUFFICES ASSUME NEW e \in {entry, saved}, NEW y \in RotationId,
                        e.sessions[y] # None, y # r
                 PROVE  SessionTimed(e.sessions[y], clock, started')
      OBVIOUS
    <3>1. e \in Entry /\ EntryOK(e) /\ SessionTimed(e.sessions[y], clock, started)
      BY <2>2 DEF IInv, Timed
    <3>2. e.sessions[y].plan \in Plan /\ e.sessions[y].plan # p
      BY <3>1 DEF Entry, Session, EntryOK, RotationsOK
    <3>3. started'[e.sessions[y].plan] = started[e.sessions[y].plan]
      BY <2>6, <3>2
    <3> QED
      BY <3>1, <3>3 DEF SessionTimed
  <2>9. SessionTimed(x, clock, started')
    BY <2>3, <2>4, <2>6, SampledTimes DEF SessionTimed
  <2>10. Timed(n, clock, begun', started') /\ Timed(saved, clock, begun', started')
    BY <2>2, <2>5, <2>7, <2>8, <2>9 DEF IInv, Timed
  <2>11. RepliesIn(n, replies)
    BY <2>5, RepliesRecorded
  <2>12. Persist(n, replies)
    BY <2>1 DEF x, n
  <2> QED
    BY <2>2, <2>5, <2>6, <2>10, <2>11, <2>12, PersistKeepsIInv
<1>2. CASE RotationBeginAgain(p)
  <2>1. Step(entry, entry)
    BY StepIsReflexive DEF IInv, TypeOK
  <2> QED
    BY <1>2, <2>1, QuietKeepsIInv DEF RotationBeginAgain
<1> QED
  BY <1>1, <1>2

\* Retirement of a drained epoch.
LEMMA RetireKeepsIInv ==
  ASSUME IInv, NEW c \in Capsule, retire(c)
  PROVE  IInv'
<1>1. Step([entry EXCEPT !.draining = @ \ {c}], entry)
  BY RetireStep DEF IInv, TypeOK, retire
<1> QED
  BY <1>1, QuietKeepsIInv DEF retire

-----------------------------------------------------------------------------
(* Every action keeps the invariant: recoveries *)

\* An accepted Begin of a recovery, new or repeated.
LEMMA RecoveryBeginKeepsIInv ==
  ASSUME IInv, NEW q \in Request, RecoveryBegin(q) \/ RecoveryBeginAgain(q)
  PROVE  IInv'
<1> DEFINE i == request_id[q]
           r == [replies EXCEPT !.begun = @ \cup {q}]
<1>1. /\ entry \in Entry /\ saved \in Entry /\ EntryOK(entry) /\ Extends(entry, saved)
      /\ EntryOK(saved) /\ i \in RequestId
      /\ begun \in [Request -> Arrival \cup {None}]
      /\ started \in [Plan -> Arrival \cup {None}] /\ replies \in Replies
      /\ started' = started
  BY IdTypes DEF RecoveryBegin, RecoveryBeginAgain, IInv, TypeOK
<1>2. /\ r \in Replies
      /\ r.begun = replies.begun \cup {q} /\ r.cancelled = replies.cancelled
      /\ r.contributions = replies.contributions /\ r.prepared = replies.prepared
      /\ r.rotation_cancelled = replies.rotation_cancelled
  BY <1>1 DEF Replies
<1> HIDE DEF r
<1>3. CASE RecoveryBegin(q)
  <2> DEFINE pending(at) == [request |-> q, not_before |-> monotonic_now(at) + recovery_delay,
                             boot_id |-> clock.boot_id, cancelled |-> FALSE, released |-> FALSE]
  <2>1. PICK at \in Sampled :
          /\ Persist([entry EXCEPT !.recoveries[i] = pending(at)], r)
          /\ begun' = [begun EXCEPT ![q] = [at |-> at, boot_id |-> clock.boot_id]]
    BY <1>3 DEF RecoveryBegin, r
  <2> DEFINE x == pending(at)
             n == [entry EXCEPT !.recoveries[i] = x]
             b == [at |-> at, boot_id |-> clock.boot_id]
  <2>2. MayBegin(entry, q) /\ entry.recoveries[i] = None
    BY <1>3 DEF RecoveryBegin
  <2>3. /\ x \in Recovery /\ x.request = q /\ x.boot_id = clock.boot_id
        /\ ~x.cancelled /\ ~x.released /\ x # None
        /\ x.not_before + clock.booted_at = at + recovery_delay
    <3>1. /\ monotonic_now(at) + recovery_delay \in Nat /\ clock.boot_id \in Nat
          /\ (monotonic_now(at) + recovery_delay) + clock.booted_at = at + recovery_delay
      BY SampledTimes, EpochAssumption
    <3>2. x \in Recovery /\ x.request = q /\ x.boot_id = clock.boot_id
      BY <3>1 DEF Recovery
    <3>3. ~x.cancelled /\ ~x.released /\ x.not_before = monotonic_now(at) + recovery_delay
      OBVIOUS
    <3> HIDE DEF x
    <3>4. x # None
      BY <3>2, NoneAssumption
    <3> QED
      BY <3>1, <3>2, <3>3, <3>4
  <2>4. b \in Arrival /\ b # None /\ b.at = at /\ b.boot_id = clock.boot_id
    BY SampledTimes, NoneAssumption DEF Arrival
  <2> HIDE DEF x, b
  <2>0. n = RecoveryStored(entry, q, x)
    BY DEF RecoveryStored
  <2> HIDE DEF n
  <2>5. /\ n \in Entry /\ EntryOK(n) /\ Extends(n, entry) /\ n.sessions = entry.sessions
        /\ \A j \in RequestId : n.recoveries[j] = IF j = i THEN x ELSE entry.recoveries[j]
    BY <1>1, <2>0, <2>2, <2>3, RecoveryBeginStep
  <2>6. /\ begun' \in [Request -> Arrival \cup {None}]
        /\ \A y \in Request : begun'[y] = IF y = q THEN b ELSE begun[y]
    BY <1>1, <2>1, <2>4 DEF b
  <2>7. saved.recoveries[i] = None
    BY <1>1, <2>2 DEF Extends, RecoveriesExtend, SameRecovery
  <2>8. \A e \in {entry, saved} : \A j \in RequestId : e.recoveries[j] # None /\ j # i =>
          RecoveryTimed(e.recoveries[j], clock, begun')
    <3> SUFFICES ASSUME NEW e \in {entry, saved}, NEW j \in RequestId,
                        e.recoveries[j] # None, j # i
                 PROVE  RecoveryTimed(e.recoveries[j], clock, begun')
      OBVIOUS
    <3>1. e \in Entry /\ EntryOK(e) /\ RecoveryTimed(e.recoveries[j], clock, begun)
      BY <1>1 DEF IInv, Timed
    <3>2. e.recoveries[j].request \in Request /\ e.recoveries[j].request # q
      BY <3>1 DEF Entry, Recovery, EntryOK, RecoveriesOK
    <3>3. begun'[e.recoveries[j].request] = begun[e.recoveries[j].request]
      BY <2>6, <3>2
    <3> QED
      BY <3>1, <3>3 DEF RecoveryTimed
  <2>9. RecoveryTimed(x, clock, begun')
    BY <2>3, <2>4, <2>6, SampledTimes DEF RecoveryTimed
  <2>10. Timed(n, clock, begun', started') /\ Timed(saved, clock, begun', started')
    BY <1>1, <2>5, <2>7, <2>8, <2>9 DEF IInv, Timed
  <2>11. RepliesIn(n, replies)
    BY <2>5, RepliesRecorded
  <2>12. RepliesIn(n, r)
    BY <1>1, <1>2, <2>3, <2>5, <2>11 DEF RepliesIn
  <2>13. Persist(n, r)
    BY <2>1 DEF x, n
  <2> QED
    BY <1>1, <1>2, <2>5, <2>6, <2>10, <2>12, <2>13, PersistKeepsIInv
<1>4. CASE RecoveryBeginAgain(q)
  <2>1. /\ Step(entry, entry) /\ RepliesIn(entry, replies)
        /\ entry.recoveries[i] # None /\ entry.recoveries[i].request = q
        /\ Persist(entry, r) /\ UNCHANGED <<begun, started>>
    BY <1>1, <1>4, StepIsReflexive, RepliesRecorded DEF Step, RecoveryBeginAgain, r
  <2>2. RepliesIn(entry, r)
    BY <1>2, <2>1 DEF RepliesIn
  <2> QED
    BY <1>2, <2>1, <2>2, StepKeepsIInv
<1> QED
  BY <1>3, <1>4

\* The owner's cancellation of a recovery.
LEMMA RecoveryCancelKeepsIInv ==
  ASSUME IInv, NEW q \in Request, RecoveryCancel(q)
  PROVE  IInv'
<1> DEFINE i == request_id[q]
           old == entry.recoveries[i]
           new == IF old = None THEN None ELSE [old EXCEPT !.cancelled = TRUE]
           n == CancelStored(entry, q, new)
           r == [replies EXCEPT !.cancelled = @ \cup {q}]
<1>1. /\ entry \in Entry /\ EntryOK(entry) /\ replies \in Replies
      /\ i \in RequestId /\ old \in Recovery \cup {None}
  BY IdTypes DEF IInv, TypeOK, Entry
<1>2. /\ old # None => old.request = q /\ ~old.released
      /\ UNCHANGED <<begun, started>>
  BY DEF RecoveryCancel
<1>3. Persist(n, r)
  BY DEF RecoveryCancel, CancelStored
<1>4. /\ new \in Recovery \cup {None}
      /\ old = None <=> new = None
      /\ old # None => SameRecovery(new, old) /\ new.cancelled /\ ~new.released
  BY <1>1, <1>2, NoneAssumption DEF Recovery, SameRecovery
<1> HIDE DEF new
<1>5. Step(n, entry) /\ n.cancellation_tombstones[i] # None
  BY <1>1, <1>2, <1>4, RecoveryCancelStep
<1> HIDE DEF n
<1>6. RepliesIn(n, replies)
  BY <1>5, RepliesRecorded DEF Step
<1>7. /\ r \in Replies
      /\ r.begun = replies.begun /\ r.cancelled = replies.cancelled \cup {q}
      /\ r.contributions = replies.contributions /\ r.prepared = replies.prepared
      /\ r.rotation_cancelled = replies.rotation_cancelled
  BY <1>1 DEF Replies
<1>8. RepliesIn(n, r)
  BY <1>5, <1>6, <1>7 DEF RepliesIn
<1> QED
  BY <1>2, <1>3, <1>5, <1>7, <1>8, StepKeepsIInv

\* A release: the request had not been released before, so this is its only answer.
LEMMA ReleaseKeepsIInv ==
  ASSUME IInv, NEW q \in Request, RecoveryRelease(q)
  PROVE  IInv'
<1> DEFINE i == request_id[q]
           c == config_ref[q]
           old == entry.recoveries[i]
           new == [old EXCEPT !.released = TRUE]
           n == ReleaseStored(entry, i, new, c)
           r == [replies EXCEPT !.contributions[q] = @ + 1]
<1>1. /\ entry \in Entry /\ saved \in Entry /\ EntryOK(entry) /\ replies \in Replies
      /\ Extends(entry, saved) /\ RepliesIn(saved, replies)
      /\ i \in RequestId /\ c \in Capsule
  BY IdTypes DEF IInv, TypeOK, Entry
<1>2. /\ old # None /\ old.request = q /\ ~old.cancelled /\ ~old.released
      /\ UNCHANGED <<begun, started>>
  BY DEF RecoveryRelease
<1>3. Persist(n, r)
  BY DEF RecoveryRelease, ReleaseStored
<1>4. old \in Recovery
  BY <1>1, <1>2 DEF Entry
<1>5. /\ new \in Recovery /\ new # None /\ SameRecovery(new, old) /\ new.request = q
      /\ new.released /\ ~new.cancelled
  BY <1>2, <1>4, NoneAssumption DEF Recovery, SameRecovery
<1> HIDE DEF new
<1>6. Step(n, entry) /\ n.recoveries[i] = new
  BY <1>1, <1>2, <1>5, ReleaseStep
<1> HIDE DEF n
<1>7. RepliesIn(n, replies)
  BY <1>6, RepliesRecorded DEF Step
<1>8. replies.contributions[q] = 0
  BY <1>1, <1>2 DEF RepliesIn, Extends, RecoveriesExtend, SameRecovery
<1>9. /\ r \in Replies
      /\ r.begun = replies.begun /\ r.cancelled = replies.cancelled
      /\ r.prepared = replies.prepared /\ r.rotation_cancelled = replies.rotation_cancelled
      /\ \A x \in Request : r.contributions[x] = IF x = q THEN 1 ELSE replies.contributions[x]
  BY <1>1, <1>8 DEF Replies
<1>10. RepliesIn(n, r)
  BY <1>5, <1>6, <1>7, <1>9 DEF RepliesIn
<1> QED
  BY <1>2, <1>3, <1>6, <1>9, <1>10, StepKeepsIInv

-----------------------------------------------------------------------------
(* Clocks, restarts and reboots *)

\* Time passes, the process restarts from its file, the machine reboots.
LEMMA ClockKeepsIInv ==
  ASSUME IInv, Tick \/ Restart \/ Reboot
  PROVE  IInv'
<1>1. /\ TypeOK /\ entry \in Entry /\ saved \in Entry /\ EntryOK(entry) /\ EntryOK(saved)
      /\ now \in Nat /\ clock \in Clock
      /\ clock.boot_id \in Nat /\ clock.booted_at \in Nat /\ clock.up_since \in Nat
      /\ clock.booted_at <= clock.up_since /\ clock.up_since <= now
      /\ Extends(saved, saved)
  BY StepIsReflexive DEF IInv, TypeOK, Clock, ClockOK, Step
<1>2. CASE Tick
  <2>1. now' = now + 1 /\ UNCHANGED <<clock, entry, saved, replies, begun, started, failures>>
    BY <1>2 DEF Tick
  <2>2. TypeOK' /\ ClockOK'
    BY <1>1, <2>1 DEF TypeOK, ClockOK
  <2> QED
    BY <2>1, <2>2 DEF IInv
<1>3. CASE Restart
  <2> DEFINE k == [clock EXCEPT !.up_since = now]
  <2>1. /\ entry' = saved /\ clock' = k
        /\ UNCHANGED <<now, saved, replies, begun, started, failures>>
    BY <1>3 DEF Restart
  <2>2. /\ k \in Clock /\ k.boot_id = clock.boot_id /\ k.booted_at = clock.booted_at
        /\ k.up_since = now
    BY <1>1 DEF Clock
  <2> HIDE DEF k
  <2>3. TypeOK' /\ ClockOK'
    BY <1>1, <2>1, <2>2 DEF TypeOK, ClockOK
  <2>4. Timed(saved, k, begun, started)
    BY <2>2 DEF IInv, Timed, RecoveryTimed, SessionTimed
  <2> QED
    BY <1>1, <2>1, <2>3, <2>4 DEF IInv
<1>4. CASE Reboot
  <2> DEFINE k == [boot_id |-> clock.boot_id + 1, booted_at |-> now, up_since |-> now]
  <2>1. /\ entry' = saved /\ clock' = k
        /\ UNCHANGED <<now, saved, replies, begun, started, failures>>
    BY <1>4 DEF Reboot
  <2>2. /\ k \in Clock /\ k.boot_id = clock.boot_id + 1 /\ k.booted_at = now /\ k.up_since = now
    BY <1>1 DEF Clock
  <2> HIDE DEF k
  <2>3. TypeOK' /\ ClockOK'
    BY <1>1, <2>1, <2>2 DEF TypeOK, ClockOK
  <2>4. /\ \A i \in RequestId : saved.recoveries[i] # None => saved.recoveries[i].boot_id \in Nat
        /\ \A x \in RotationId : saved.sessions[x] # None => saved.sessions[x].boot_id \in Nat
    BY <1>1 DEF Entry, Recovery, Session
  <2>5. Timed(saved, k, begun, started)
    BY <1>1, <2>2, <2>4 DEF IInv, Timed, RecoveryTimed, SessionTimed
  <2> QED
    BY <1>1, <2>1, <2>3, <2>5 DEF IInv
<1> QED
  BY <1>2, <1>3, <1>4

-----------------------------------------------------------------------------
(* The invariant holds *)

\* A provisioned guardian.
LEMMA InitIInv == Init => IInv
<1> SUFFICES ASSUME Init
             PROVE  IInv
  OBVIOUS
<1>1. /\ NewEntry \in Entry /\ entry = NewEntry /\ saved = NewEntry
      /\ \A i \in RequestId : /\ NewEntry.recoveries[i] = None
                              /\ NewEntry.cancellation_tombstones[i] = None
      /\ \A r \in RotationId : NewEntry.sessions[r] = None /\ NewEntry.rotation_tombstones[r] = None
      /\ NewEntry.capsule = Genesis /\ NewEntry.prepared = None
      /\ NewEntry.active \in {None, Genesis}
      /\ \A c \in Capsule : NewEntry.pending_request_ids[c] = {}
  BY NewEntryType DEF Init, NewEntry
<1>2. EntryOK(NewEntry)
  BY <1>1, EpochAssumption DEF EntryOK, RecoveriesOK, DrainsOK, RotationsOK
<1>3. Extends(NewEntry, NewEntry)
  BY <1>1, <1>2, StepIsReflexive DEF Step
<1>4. /\ replies.begun = {} /\ replies.cancelled = {} /\ replies.prepared = {}
      /\ replies.rotation_cancelled = {} /\ replies \in Replies
      /\ \A q \in Request : replies.contributions[q] = 0
  BY DEF Init, Replies
<1>5. RepliesIn(NewEntry, replies)
  BY <1>4 DEF RepliesIn
<1>6. ClockOK /\ clock \in Clock
  BY DEF Init, ClockOK, Clock
<1>7. Timed(NewEntry, clock, begun, started)
  BY <1>1 DEF Timed
<1>8. TypeOK
  BY <1>1, <1>4, <1>6 DEF TypeOK, Init
<1> QED
  BY <1>1, <1>2, <1>3, <1>5, <1>6, <1>7, <1>8 DEF IInv

\* Every step keeps it.
LEMMA NextKeepsIInv == IInv /\ [Next]_vars => IInv'
<1> SUFFICES ASSUME IInv, [Next]_vars
             PROVE  IInv'
  OBVIOUS
<1>1. CASE Tick \/ Restart \/ Reboot
  BY <1>1, ClockKeepsIInv
<1>2. ASSUME NEW p \in Plan, handle_guardian_rotation_v3(p)
      PROVE  IInv'
  <2>1. CASE RotationBegin(p) \/ RotationBeginAgain(p)
    BY <2>1, RotationBeginKeepsIInv
  <2>2. CASE RotationCancel(p) \/ RotationCancelConflict(p)
    BY <2>2, RotationCancelKeepsIInv
  <2>3. CASE RotationAbort(p) \/ RotationAbortConflict(p)
    BY <2>3, AbortKeepsIInv
  <2>4. CASE \/ repair_round1(p) \/ repair_round2(p) \/ repair_finalize(p)
             \/ refresh_round1(p) \/ refresh_round2(p) \/ refresh_finalize(p)
             \/ stage_material(p)
    BY <2>4, RoundsKeepIInv
  <2>5. CASE prepare_commit(p)
    BY <2>5, PrepareKeepsIInv
  <2>6. CASE handoff_complete(p)
    BY <2>6, HandoffKeepsIInv
  <2>7. CASE activate(p) \/ ActivateConflict(p)
    BY <2>7, ActivateKeepsIInv
  <2> QED
    BY <1>2, <2>1, <2>2, <2>3, <2>4, <2>5, <2>6, <2>7 DEF handle_guardian_rotation_v3
<1>3. ASSUME NEW c \in Capsule, retire(c)
      PROVE  IInv'
  BY <1>3, RetireKeepsIInv
<1>4. ASSUME NEW q \in Request, handle_guardian_recovery_v3(q)
      PROVE  IInv'
  BY <1>4, RecoveryBeginKeepsIInv, RecoveryCancelKeepsIInv, ReleaseKeepsIInv
  DEF handle_guardian_recovery_v3
<1>5. CASE UNCHANGED vars
  BY <1>5 DEF vars, IInv, TypeOK, ClockOK
<1> QED
  BY <1>1, <1>2, <1>3, <1>4, <1>5 DEF Next

\* The invariant of the specification.
THEOREM InvariantTheorem == Spec => []IInv
<1>1. Init => IInv
  BY InitIInv
<1>2. IInv /\ [Next]_vars => IInv'
  BY NextKeepsIInv
<1> QED
  BY <1>1, <1>2, PTL DEF Spec

-----------------------------------------------------------------------------
(* The properties *)

\* Type correctness of the guardian's memory, file, clocks and replies.
THEOREM EpochTypeCorrect == Spec => []TypeOK
<1>1. IInv => TypeOK
  BY DEF IInv
<1> QED
  BY <1>1, InvariantTheorem, PTL

\* At most one contribution per request, and none when its cancellation was
\* acknowledged, across rotations, failed writes, restarts and reboots.
THEOREM OneAnswerTheorem == Spec => []OneAnswer
<1>1. IInv => OneAnswer
  <2> SUFFICES ASSUME IInv, NEW q \in Request
               PROVE  /\ replies.contributions[q] <= 1
                      /\ q \in replies.cancelled => replies.contributions[q] = 0
    BY DEF OneAnswer
  <2>1. /\ replies.contributions[q] \in Nat /\ RepliesIn(saved, replies) /\ EntryOK(saved)
        /\ request_id[q] \in RequestId
    BY IdTypes DEF IInv, TypeOK, Replies
  <2>2. replies.contributions[q] # 0 => replies.contributions[q] = 1 /\ q \notin replies.cancelled
    BY <2>1 DEF RepliesIn, EntryOK, RecoveriesOK
  <2> QED
    BY <2>1, <2>2
<1> QED
  BY <1>1, InvariantTheorem, PTL

\* An activation loses no recovery whose Begin was acknowledged.
THEOREM BegunIsServableTheorem == Spec => []BegunIsServable
<1>1. IInv => BegunIsServable
  <2> SUFFICES ASSUME IInv, NEW q \in replies.begun
               PROVE  LET pending == entry.recoveries[request_id[q]]
                      IN /\ pending # None /\ pending.request = q
                         /\ pending.cancelled \/ pending.released \/ record_for_request(entry, q)
    BY DEF BegunIsServable
  <2>1. /\ q \in Request /\ request_id[q] \in RequestId
        /\ RepliesIn(entry, replies) /\ EntryOK(entry)
    BY IdTypes, RepliesRecorded, StepIsReflexive DEF IInv, TypeOK, Replies, Step
  <2>2. entry.recoveries[request_id[q]] # None /\ entry.recoveries[request_id[q]].request = q
    BY <2>1 DEF RepliesIn
  <2> QED
    BY <2>1, <2>2 DEF EntryOK, RecoveriesOK, record_for_request
<1> QED
  BY <1>1, InvariantTheorem, PTL

\* The list that retire_epoch waits for holds nothing that has been released, in
\* memory and in the file.
THEOREM DrainTheorem == Spec => []DrainsForUnreleased
<1>1. IInv => DrainsForUnreleased
  BY DEF IInv, TypeOK, Entry, EntryOK, DrainsOK, DrainsForUnreleased
<1> QED
  BY <1>1, InvariantTheorem, PTL

\* An acknowledged preparation stays in the file until its rotation has ended.
THEOREM PreparedIsKeptTheorem == Spec => []PreparedIsKept
<1>1. IInv => PreparedIsKept
  BY DEF IInv, TypeOK, Replies, RepliesIn, PreparedIsKept
<1> QED
  BY <1>1, InvariantTheorem, PTL

\* An acknowledged cancellation of a rotation is permanent, in memory and file.
THEOREM RotationCancelTheorem == Spec => []RotationCancelIsFinal
<1>1. IInv => RotationCancelIsFinal
  <2> SUFFICES ASSUME IInv, NEW p \in replies.rotation_cancelled, NEW e \in {entry, saved}
               PROVE  /\ e.sessions[rotation_id[p]] = None
                      /\ e.prepared # p
                      /\ p \notin {e.capsule, e.active}
    BY DEF RotationCancelIsFinal
  <2>1. /\ p \in Plan /\ p # None /\ rotation_id[p] \in RotationId
        /\ RepliesIn(entry, replies) /\ RepliesIn(saved, replies)
        /\ EntryOK(e)
    BY IdTypes, NoneAssumption, RepliesRecorded, StepIsReflexive
    DEF IInv, TypeOK, Replies, Step
  <2>2. /\ e.rotation_tombstones[rotation_id[p]] # None
        /\ e.rotation_tombstones[rotation_id[p]].state = "Aborted"
    <3>1. [plan |-> p, state |-> "Aborted"] # None
      BY <2>1, NoneAssumption DEF Tombstone
    <3>2. e.rotation_tombstones[rotation_id[p]] = [plan |-> p, state |-> "Aborted"]
      BY <2>1 DEF RepliesIn
    <3> QED
      BY <3>1, <3>2
  <2> QED
    BY <2>1, <2>2 DEF EntryOK, RotationsOK
<1> QED
  BY <1>1, InvariantTheorem, PTL

\* The delay of a recovery that may be released is over.
LEMMA RecoveryDelay ==
  ASSUME IInv, NEW q \in Request, RecoveryRelease(q)
  PROVE  /\ begun[q] # None
         /\ begun[q].boot_id = clock.boot_id
         /\ now >= begun[q].at + recovery_delay
<1> DEFINE pending == entry.recoveries[request_id[q]]
<1>1. /\ pending # None /\ pending.request = q /\ pending.boot_id = clock.boot_id
      /\ \E at \in Sampled : monotonic_now(at) >= pending.not_before
  BY DEF RecoveryRelease
<1>2. entry \in Entry /\ request_id[q] \in RequestId /\ now \in Nat
      /\ begun \in [Request -> Arrival \cup {None}] /\ Timed(entry, clock, begun, started)
  BY IdTypes DEF IInv, TypeOK
<1>3. pending \in Recovery /\ RecoveryTimed(pending, clock, begun)
  BY <1>1, <1>2 DEF Entry, Timed
<1> HIDE DEF pending
<1>4. /\ begun[q] # None /\ begun[q].boot_id = clock.boot_id
      /\ begun[q].at + recovery_delay = pending.not_before + clock.booted_at
  BY <1>1, <1>3 DEF RecoveryTimed
<1>5. pending.not_before \in Nat /\ begun[q].at \in Nat
  BY <1>2, <1>3, <1>4 DEF Recovery, Arrival
<1>6. now >= pending.not_before + clock.booted_at
  BY <1>1, <1>2, <1>5, SampledTimes
<1> QED
  BY <1>4, <1>6

\* The delay of a rotation that sends old-share material is over.
LEMMA RotationDelay ==
  ASSUME IInv, NEW p \in Plan, session_mut(entry, p), DelayOver(entry, p)
  PROVE  /\ started[p] # None
         /\ started[p].boot_id = clock.boot_id
         /\ now >= started[p].at + rotation_delay
<1> DEFINE x == entry.sessions[rotation_id[p]]
<1>1. /\ x # None /\ x \in Session /\ x.plan = p /\ x.boot_id = clock.boot_id
      /\ \E at \in Sampled : monotonic_now(at) >= x.not_before
  BY FoundSession DEF session_mut, DelayOver
<1>2. rotation_id[p] \in RotationId /\ now \in Nat
      /\ started \in [Plan -> Arrival \cup {None}] /\ Timed(entry, clock, begun, started)
  BY IdTypes DEF IInv, TypeOK
<1>3. SessionTimed(x, clock, started)
  BY <1>1, <1>2 DEF Timed
<1> HIDE DEF x
<1>4. /\ started[p] # None /\ started[p].boot_id = clock.boot_id
      /\ started[p].at + rotation_delay = x.not_before + clock.booted_at
  BY <1>1, <1>3 DEF SessionTimed
<1>5. x.not_before \in Nat /\ started[p].at \in Nat
  BY <1>1, <1>2, <1>4 DEF Session, Arrival
<1>6. now >= x.not_before + clock.booted_at
  BY <1>1, <1>2, <1>5, SampledTimes
<1> QED
  BY <1>4, <1>6

\* What a rotation request may do to the replies.
LEMMA RotationReplies ==
  ASSUME IInv, NEW p \in Plan, handle_guardian_rotation_v3(p)
  PROVE  /\ replies'.contributions = replies.contributions
         /\ \/ replies'.shares = replies.shares
            \/ /\ replies'.shares = replies.shares \cup {p}
               /\ session_mut(entry, p) /\ DelayOver(entry, p)
<1>1. replies \in Replies
  BY DEF IInv, TypeOK
<1>2. CASE repair_round1(p) \/ refresh_round1(p)
  <2>1. /\ session_mut(entry, p) /\ DelayOver(entry, p)
        /\ replies' \in {replies, [replies EXCEPT !.shares = @ \cup {p}]}
    BY <1>2 DEF repair_round1, refresh_round1, Persist, FailWith
  <2> QED
    BY <1>1, <2>1 DEF Replies
<1>3. CASE \/ RotationBegin(p) \/ RotationBeginAgain(p) \/ RotationCancelConflict(p)
           \/ RotationAbort(p) \/ RotationAbortConflict(p)
           \/ repair_round2(p) \/ repair_finalize(p) \/ refresh_round2(p)
           \/ refresh_finalize(p) \/ stage_material(p) \/ activate(p) \/ ActivateConflict(p)
  <2>1. replies' = replies
    BY <1>3 DEF RotationBegin, RotationBeginAgain, RotationCancelConflict, RotationAbort,
                RotationAbortConflict, repair_round2, repair_finalize, refresh_round2,
                refresh_finalize, stage_material, activate, ActivateConflict, Persist, FailWith
  <2> QED
    BY <2>1
<1>4. CASE RotationCancel(p) \/ prepare_commit(p) \/ handoff_complete(p)
  <2>1. replies' \in {replies, [replies EXCEPT !.rotation_cancelled = @ \cup {p}],
                      [replies EXCEPT !.prepared = @ \cup {p}],
                      [replies EXCEPT !.handoff = @ \cup {p}]}
    BY <1>4 DEF RotationCancel, prepare_commit, handoff_complete, Persist
  <2> QED
    BY <1>1, <2>1 DEF Replies
<1> QED
  BY <1>2, <1>3, <1>4 DEF handle_guardian_rotation_v3

\* What a recovery request may do to the replies.
LEMMA RecoveryReplies ==
  ASSUME IInv, NEW q \in Request, handle_guardian_recovery_v3(q)
  PROVE  /\ replies'.shares = replies.shares
         /\ \A x \in Request : replies'.contributions[x] # replies.contributions[x] =>
              x = q /\ RecoveryRelease(q)
<1>1. replies \in Replies
  BY DEF IInv, TypeOK
<1>2. CASE RecoveryRelease(q)
  <2>1. replies' \in {replies, [replies EXCEPT !.contributions[q] = @ + 1]}
    BY <1>2 DEF RecoveryRelease, Persist
  <2> QED
    BY <1>1, <1>2, <2>1 DEF Replies
<1>3. CASE RecoveryBegin(q) \/ RecoveryBeginAgain(q) \/ RecoveryCancel(q)
  <2>1. replies' \in {replies, [replies EXCEPT !.begun = @ \cup {q}],
                      [replies EXCEPT !.cancelled = @ \cup {q}]}
    BY <1>3 DEF RecoveryBegin, RecoveryBeginAgain, RecoveryCancel, Persist
  <2> QED
    BY <1>1, <2>1 DEF Replies
<1> QED
  BY <1>2, <1>3 DEF handle_guardian_recovery_v3

\* No contribution and no old-share material before the whole delay has passed in
\* the boot of its Begin.
THEOREM MaterialWaitsTheorem == Spec => MaterialWaits
<1>1. IInv /\ [Next]_vars => [MaterialWaited]_vars
  <2> SUFFICES ASSUME IInv, Next
               PROVE  MaterialWaited
    OBVIOUS
  <2>1. /\ replies.contributions \in [Request -> Nat]
        /\ \A n \in Nat : ~(n > n)
    BY DEF IInv, TypeOK, Replies
  <2>2. CASE Tick \/ Restart \/ Reboot \/ \E c \in Capsule : retire(c)
    <3>1. replies' = replies
      BY <2>2 DEF Tick, Restart, Reboot, retire, Persist
    <3> QED
      BY <2>1, <3>1 DEF MaterialWaited
  <2>3. ASSUME NEW p \in Plan, handle_guardian_rotation_v3(p)
        PROVE  MaterialWaited
    <3>1. \A x \in Plan : x \in replies'.shares \ replies.shares =>
            x = p /\ session_mut(entry, p) /\ DelayOver(entry, p)
      BY <2>3, RotationReplies
    <3>2. \A q \in Request : ~(replies'.contributions[q] > replies.contributions[q])
      BY <2>1, <2>3, RotationReplies
    <3> QED
      BY <3>1, <3>2, RotationDelay DEF MaterialWaited
  <2>4. ASSUME NEW q \in Request, handle_guardian_recovery_v3(q)
        PROVE  MaterialWaited
    <3>1. replies'.shares \ replies.shares = {}
      BY <2>4, RecoveryReplies
    <3>2. \A x \in Request : replies'.contributions[x] > replies.contributions[x] =>
            x = q /\ RecoveryRelease(q)
      BY <2>1, <2>4, RecoveryReplies
    <3> QED
      BY <3>1, <3>2, RecoveryDelay DEF MaterialWaited
  <2> QED
    BY <2>2, <2>3, <2>4 DEF Next
<1> QED
  BY <1>1, InvariantTheorem, PTL DEF Spec, MaterialWaits

=============================================================================
