----------------------- MODULE GuardianRecoveryProofs -----------------------
(***************************************************************************)
(* Theorems about GuardianRecovery, for any number of guardians, any         *)
(* threshold and delay, and any requests, reboots and failed saves.          *)
(***************************************************************************)
EXTENDS GuardianRecovery, FiniteSetTheorems, TLAPS

-----------------------------------------------------------------------------
(* One entry *)

\* What every handler keeps of the entry it works on.
EntryOK(e) ==
  \A i \in RequestId :
    /\ e.pending[i] # None => request_id[e.pending[i].request] = i
    /\ e.cancelled[i] # None => request_id[e.cancelled[i]] = i
    /\ e.released[i] # None =>
         /\ e.pending[i] # None
         /\ e.pending[i].request = e.released[i]
         /\ e.cancelled[i] # e.released[i]

\* How an entry may change: nothing that is recorded is ever taken back.
Extends(n, e) ==
  \A i \in RequestId :
    /\ e.pending[i] # None => n.pending[i] = e.pending[i]
    /\ e.cancelled[i] # None => n.cancelled[i] = e.cancelled[i]
    /\ e.released[i] # None => n.released[i] = e.released[i]

\* An entry extends itself, and extending is transitive.
LEMMA ExtendsIsPreorder ==
  /\ \A e : Extends(e, e)
  /\ \A e1, e2, e3 : Extends(e2, e1) /\ Extends(e3, e2) => Extends(e3, e1)
  BY DEF Extends

\* A freshly provisioned entry is in order.
LEMMA NewEntryOK == NewEntry \in Entry /\ EntryOK(NewEntry)
  BY DEF NewEntry, Entry, EntryOK

\* The entry a Begin stores.
LEMMA BegunEntry ==
  ASSUME NEW e \in Entry, EntryOK(e), NEW q \in Request,
         NEW started \in Nat, NEW boot \in Nat,
         e.pending[request_id[q]] = None,
         NEW n, n = Begun(e, q, started, boot)
  PROVE  /\ n \in Entry /\ EntryOK(n) /\ Extends(n, e)
         /\ n.pending[request_id[q]] = [request |-> q, started_monotonic |-> started,
                                        boot_id |-> boot]
         /\ \A i \in RequestId : i # request_id[q] => n.pending[i] = e.pending[i]
<1> DEFINE p == [request |-> q, started_monotonic |-> started, boot_id |-> boot]
           i == request_id[q]
<1>1. p \in Pending /\ i \in RequestId /\ nonce[q] \in Nonce
  BY DEF Pending, RequestId, Nonce
<1>2. n = [pending |-> [e.pending EXCEPT ![i] = p], cancelled |-> e.cancelled,
           released |-> e.released, seen_nonces |-> e.seen_nonces \cup {nonce[q]}]
  BY DEF Begun, Entry
<1>3. p.request = q
  OBVIOUS
<1> HIDE DEF p
<1>4. n \in Entry
  BY <1>1, <1>2 DEF Entry
<1>5. /\ n.cancelled = e.cancelled /\ n.released = e.released
      /\ \A j \in RequestId : n.pending[j] = IF j = i THEN p ELSE e.pending[j]
  BY <1>1, <1>2 DEF Entry
<1>6. EntryOK(n)
  BY <1>1, <1>3, <1>5 DEF EntryOK
<1>7. Extends(n, e)
  BY <1>5 DEF Extends
<1> QED
  BY <1>1, <1>4, <1>5, <1>6, <1>7 DEF p

\* The entry an accepted cancellation stores.
LEMMA CancelledEntry ==
  ASSUME NEW e \in Entry, EntryOK(e), NEW q \in Request,
         e.released[request_id[q]] # q, e.cancelled[request_id[q]] \in {None, q},
         NEW n, n = [e EXCEPT !.cancelled[request_id[q]] = q]
  PROVE  /\ n \in Entry /\ EntryOK(n) /\ Extends(n, e)
         /\ n.cancelled[request_id[q]] = q /\ n.pending = e.pending
<1>1. request_id[q] \in RequestId
  BY DEF RequestId
<1>2. n = [pending |-> e.pending, cancelled |-> [e.cancelled EXCEPT ![request_id[q]] = q],
           released |-> e.released, seen_nonces |-> e.seen_nonces]
  BY DEF Entry
<1>3. n \in Entry
  BY <1>1, <1>2 DEF Entry
<1>4. /\ n.pending = e.pending /\ n.released = e.released
      /\ \A j \in RequestId : n.cancelled[j] = IF j = request_id[q] THEN q ELSE e.cancelled[j]
  BY <1>1, <1>2 DEF Entry
<1> QED
  BY <1>1, <1>3, <1>4 DEF EntryOK, Extends

\* The entry a release stores.
LEMMA ReleasedEntry ==
  ASSUME NEW e \in Entry, EntryOK(e), NEW q \in Request,
         e.cancelled[request_id[q]] # q, e.pending[request_id[q]] # None,
         e.pending[request_id[q]].request = q,
         NEW n, n = [e EXCEPT !.released[request_id[q]] = q]
  PROVE  /\ n \in Entry /\ EntryOK(n) /\ Extends(n, e)
         /\ n.released[request_id[q]] = q /\ n.pending = e.pending
<1>1. request_id[q] \in RequestId
  BY DEF RequestId
<1>2. n = [pending |-> e.pending, cancelled |-> e.cancelled,
           released |-> [e.released EXCEPT ![request_id[q]] = q],
           seen_nonces |-> e.seen_nonces]
  BY DEF Entry
<1>3. n \in Entry
  BY <1>1, <1>2 DEF Entry
<1>4. /\ n.pending = e.pending /\ n.cancelled = e.cancelled
      /\ \A j \in RequestId : n.released[j] = IF j = request_id[q] THEN q ELSE e.released[j]
  BY <1>1, <1>2 DEF Entry
<1> QED
  BY <1>1, <1>3, <1>4 DEF EntryOK, Extends

-----------------------------------------------------------------------------
(* The inductive invariant *)

EntriesOK ==
  \A g \in Honest : /\ EntryOK(entry[g])
                    /\ EntryOK(saved[g])
                    /\ Extends(entry[g], saved[g])

ClocksOK ==
  \A g \in Honest : clock[g].booted_at <= clock[g].up_since /\ clock[g].up_since <= now

\* A reply that has left is in the file.
RepliesOK ==
  \A g \in Honest, q \in Request :
    /\ <<g, q>> \in cancel_acks => saved[g].cancelled[request_id[q]] = q
    /\ <<g, q>> \in contributions => saved[g].released[request_id[q]] = q

\* A pending recovery of the present boot is the last accepted Begin of its request.
Timed(g, e) ==
  \A i \in RequestId : e.pending[i] # None =>
    /\ e.pending[i].boot_id <= clock[g].boot_id
    /\ e.pending[i].boot_id = clock[g].boot_id =>
         begun[g][e.pending[i].request] =
           [at |-> e.pending[i].started_monotonic + clock[g].booted_at,
            boot_id |-> clock[g].boot_id]

TimesOK == \A g \in Honest : Timed(g, entry[g]) /\ Timed(g, saved[g])

IInv == TypeOK /\ EntriesOK /\ ClocksOK /\ RepliesOK /\ TimesOK

\* Guardian g's handler has put n in memory, and perhaps in the file.
Writes(g, n) ==
  /\ n \in Entry
  /\ EntryOK(n)
  /\ Extends(n, entry[g])
  /\ entry' = [entry EXCEPT ![g] = n]
  /\ saved' \in {saved, [saved EXCEPT ![g] = n]}

\* A write keeps the entries in order, and the file only ever advances.
LEMMA WritesKeepEntries ==
  ASSUME IInv, NEW g \in Honest, NEW n, Writes(g, n)
  PROVE  /\ entry' \in [Honest -> Entry] /\ saved' \in [Honest -> Entry]
         /\ EntriesOK'
         /\ \A h \in Honest : Extends(saved'[h], saved[h])
<1>1. /\ entry \in [Honest -> Entry] /\ saved \in [Honest -> Entry] /\ n \in Entry
      /\ EntryOK(n) /\ Extends(n, entry[g])
      /\ \A h \in Honest : EntryOK(entry[h]) /\ EntryOK(saved[h]) /\ Extends(entry[h], saved[h])
  BY DEF IInv, TypeOK, EntriesOK, Writes
<1>2. /\ entry' \in [Honest -> Entry] /\ saved' \in [Honest -> Entry]
      /\ \A h \in Honest : /\ entry'[h] = IF h = g THEN n ELSE entry[h]
                           /\ saved'[h] \in {saved[h], entry'[h]}
                           /\ h # g => saved'[h] = saved[h]
  BY <1>1 DEF Writes
<1>3. Extends(n, saved[g]) /\ \A e : Extends(e, e)
  BY <1>1, ExtendsIsPreorder
<1> QED
  BY <1>1, <1>2, <1>3 DEF EntriesOK

\* When the file only advances, replies stay recorded.
LEMMA RepliesStayRecorded ==
  ASSUME IInv, UNCHANGED <<cancel_acks, contributions>>,
         \A h \in Honest : Extends(saved'[h], saved[h])
  PROVE  RepliesOK'
<1> SUFFICES ASSUME NEW g \in Honest, NEW q \in Request
             PROVE  /\ <<g, q>> \in cancel_acks => saved'[g].cancelled[request_id[q]] = q
                    /\ <<g, q>> \in contributions => saved'[g].released[request_id[q]] = q
  BY DEF RepliesOK
<1>1. q # None /\ request_id[q] \in RequestId
  BY RequestAssumption DEF RequestId
<1> QED
  BY <1>1 DEF IInv, RepliesOK, Extends

\* When no clock is reset and no Begin is accepted, times stay in order.
LEMMA TimesStayInOrder ==
  ASSUME IInv, NEW g \in Honest, NEW n, Writes(g, n), n.pending = entry[g].pending,
         UNCHANGED <<clock, begun>>
  PROVE  TimesOK'
<1>1. entry \in [Honest -> Entry] /\ saved \in [Honest -> Entry]
  BY DEF IInv, TypeOK
<1>2. \A h \in Honest : entry'[h] = (IF h = g THEN n ELSE entry[h])
                        /\ saved'[h] \in {saved[h], entry'[h]}
  BY <1>1 DEF Writes
<1>3. \A h \in Honest : Timed(h, entry'[h]) /\ Timed(h, saved'[h])
  BY <1>2 DEF IInv, TimesOK, Timed
<1> QED
  BY <1>3 DEF TimesOK, Timed

-----------------------------------------------------------------------------
(* Every action keeps the invariant *)

\* An accepted Begin.
LEMMA BeginKeepsIInv ==
  ASSUME IInv, NEW g \in Honest, NEW q \in Request, GuardianBegin(g, q)
  PROVE  IInv'
<1>1. PICK at \in Sampled(g) :
        LET stored == Begun(entry[g], q, monotonic_now(g, at), clock[g].boot_id)
        IN /\ Save(g, stored) \/ SaveFails(g, stored)
           /\ begun' = [begun EXCEPT ![g][q] = [at |-> at, boot_id |-> clock[g].boot_id]]
  BY DEF GuardianBegin, MayBegin
<1> DEFINE started == monotonic_now(g, at)
           boot == clock[g].boot_id
           n == Begun(entry[g], q, started, boot)
           i == request_id[q]
           p == [request |-> q, started_monotonic |-> started, boot_id |-> boot]
           b == [at |-> at, boot_id |-> boot]
<1>2. /\ clock \in [Honest -> Clock] /\ now \in Nat /\ entry \in [Honest -> Entry]
      /\ saved \in [Honest -> Entry]
      /\ begun \in [Honest -> [Request -> Arrival \cup {None}]]
  BY DEF IInv, TypeOK
<1>3. boot \in Nat /\ clock[g].booted_at \in Nat /\ clock[g].up_since \in Nat
  BY <1>2 DEF Clock
<1>4. at \in Nat /\ started \in Nat /\ at = started + clock[g].booted_at
  BY <1>2, <1>3 DEF IInv, ClocksOK, Sampled, monotonic_now
<1>5. /\ entry[g] \in Entry /\ EntryOK(entry[g]) /\ entry[g].pending[i] = None
  BY <1>2 DEF IInv, EntriesOK, GuardianBegin, MayBegin
<1>6. /\ n \in Entry /\ EntryOK(n) /\ Extends(n, entry[g]) /\ n.pending[i] = p
      /\ \A j \in RequestId : j # i => n.pending[j] = entry[g].pending[j]
  BY <1>3, <1>4, <1>5, BegunEntry
<1>7. Save(g, n) \/ SaveFails(g, n)
  BY <1>1
<1>8. begun' = [begun EXCEPT ![g][q] = b] /\ b \in Arrival
  BY <1>1, <1>3, <1>4 DEF Arrival
<1>9. p.request = q /\ p.started_monotonic = started /\ p.boot_id = boot
  OBVIOUS
<1>u. UNCHANGED <<now, clock, cancel_acks, contributions>>
  BY DEF GuardianBegin, MayBegin
<1> HIDE DEF n, p, b
<1>10. Writes(g, n)
  BY <1>6, <1>7 DEF Writes, Save, SaveFails
<1>11. /\ entry' \in [Honest -> Entry] /\ saved' \in [Honest -> Entry] /\ EntriesOK'
       /\ \A h \in Honest : Extends(saved'[h], saved[h])
  BY <1>10, WritesKeepEntries
<1>12. begun' \in [Honest -> [Request -> Arrival \cup {None}]]
  BY <1>2, <1>8
<1>13. \A h \in Honest, r \in Request :
          begun'[h][r] = IF h = g /\ r = q THEN b ELSE begun[h][r]
  BY <1>2, <1>8
<1>14. /\ \A h \in Honest : h # g => entry'[h] = entry[h] /\ saved'[h] = saved[h]
       /\ entry'[g] = n /\ saved'[g] \in {saved[g], n}
  BY <1>2, <1>10 DEF Writes
<1>15. \* no other pending recovery is of request q
       ASSUME NEW e \in Entry, EntryOK(e), NEW j \in RequestId, j # i, e.pending[j] # None
       PROVE  e.pending[j].request \in Request /\ e.pending[j].request # q
  BY <1>15 DEF EntryOK, Entry, Pending
<1>16. saved[g].pending[i] = None
  <2>1. Extends(entry[g], saved[g]) /\ i \in RequestId
    BY DEF IInv, EntriesOK, RequestId
  <2> QED
    BY <1>5, <2>1 DEF Extends
<1>17. ASSUME NEW e \in Entry, EntryOK(e), e.pending[i] = None, Timed(g, e),
              NEW j \in RequestId, e.pending[j] # None
       PROVE  /\ e.pending[j].boot_id <= boot
              /\ e.pending[j].boot_id = boot =>
                   begun'[g][e.pending[j].request] =
                     [at |-> e.pending[j].started_monotonic + clock[g].booted_at,
                      boot_id |-> boot]
  <2>1. e.pending[j].request \in Request /\ e.pending[j].request # q
    BY <1>15, <1>17
  <2> QED
    BY <1>13, <1>17, <2>1 DEF Timed
<1>18. ASSUME NEW h \in Honest PROVE Timed(h, entry[h])' /\ Timed(h, saved[h])'
  <2>1. CASE h # g
    <3>1. entry'[h] = entry[h] /\ saved'[h] = saved[h]
      BY <1>14, <2>1
    <3>2. \A r \in Request : begun'[h][r] = begun[h][r]
      BY <1>13, <2>1
    <3>3. /\ \A j \in RequestId : entry[h].pending[j] # None
                                  => entry[h].pending[j].request \in Request
          /\ \A j \in RequestId : saved[h].pending[j] # None
                                  => saved[h].pending[j].request \in Request
      BY <1>2 DEF Entry, Pending
    <3>4. Timed(h, entry[h]) /\ Timed(h, saved[h])
      BY DEF IInv, TimesOK
    <3> QED
      BY <1>u, <3>1, <3>2, <3>3, <3>4 DEF Timed
  <2>2. CASE h = g
    <3>1. ASSUME NEW j \in RequestId, n.pending[j] # None
          PROVE  /\ n.pending[j].boot_id <= boot
                 /\ n.pending[j].boot_id = boot =>
                      begun'[g][n.pending[j].request] =
                        [at |-> n.pending[j].started_monotonic + clock[g].booted_at,
                         boot_id |-> boot]
      <4>1. CASE j = i
        <5>1. n.pending[j] = p /\ begun'[g][q] = b
          BY <1>6, <1>13, <4>1
        <5>2. b = [at |-> started + clock[g].booted_at, boot_id |-> boot]
          BY <1>4 DEF b
        <5> QED
          BY <1>3, <1>9, <5>1, <5>2
      <4>2. CASE j # i
        <5>1. n.pending[j] = entry[g].pending[j] /\ entry[g].pending[j] # None
          BY <1>6, <3>1, <4>2
        <5>2. Timed(g, entry[g])
          BY DEF IInv, TimesOK
        <5> QED
          BY <1>5, <1>17, <5>1, <5>2
      <4> QED
        BY <4>1, <4>2
    <3>2. ASSUME NEW j \in RequestId, saved[g].pending[j] # None
          PROVE  /\ saved[g].pending[j].boot_id <= boot
                 /\ saved[g].pending[j].boot_id = boot =>
                      begun'[g][saved[g].pending[j].request] =
                        [at |-> saved[g].pending[j].started_monotonic + clock[g].booted_at,
                         boot_id |-> boot]
      <4>1. saved[g] \in Entry /\ EntryOK(saved[g]) /\ Timed(g, saved[g])
        BY <1>2 DEF IInv, EntriesOK, TimesOK
      <4> QED
        BY <1>16, <1>17, <3>2, <4>1
    <3> QED
      BY <1>14, <1>u, <2>2, <3>1, <3>2 DEF Timed
  <2> QED
    BY <2>1, <2>2
<1>19. RepliesOK'
  BY <1>11, <1>u, RepliesStayRecorded
<1> QED
  BY <1>11, <1>12, <1>18, <1>19, <1>u DEF IInv, TypeOK, ClocksOK, TimesOK

\* The other three handlers, which accept no Begin.
LEMMA HandlersKeepIInv ==
  ASSUME IInv, NEW g \in Honest, NEW q \in Request,
         GuardianCancel(g, q) \/ ReleaseRefused(g, q) \/ GuardianRelease(g, q)
  PROVE  IInv'
<1>1. /\ entry \in [Honest -> Entry] /\ saved \in [Honest -> Entry]
      /\ entry[g] \in Entry /\ EntryOK(entry[g])
      /\ request_id[q] \in RequestId
  BY DEF IInv, TypeOK, EntriesOK, RequestId
<1>2. ASSUME NEW n, Writes(g, n), n.pending = entry[g].pending,
             UNCHANGED <<now, clock, begun>>
      PROVE  /\ entry' \in [Honest -> Entry] /\ saved' \in [Honest -> Entry]
             /\ EntriesOK' /\ ClocksOK' /\ TimesOK'
             /\ \A h \in Honest : Extends(saved'[h], saved[h])
  BY <1>2, WritesKeepEntries, TimesStayInOrder DEF IInv, ClocksOK
<1>3. ASSUME NEW n, Save(g, n) \/ SaveFails(g, n), n \in Entry, EntryOK(n),
             Extends(n, entry[g])
      PROVE  Writes(g, n)
  BY <1>3 DEF Writes, Save, SaveFails
<1>4. CASE GuardianCancel(g, q)
  <2> DEFINE n == [entry[g] EXCEPT !.cancelled[request_id[q]] = q]
  <2>1. /\ n \in Entry /\ EntryOK(n) /\ Extends(n, entry[g])
        /\ n.cancelled[request_id[q]] = q /\ n.pending = entry[g].pending
    BY <1>1, <1>4, CancelledEntry DEF GuardianCancel, MayCancel
  <2>2. /\ \/ Save(g, n) /\ cancel_acks' = cancel_acks \cup {<<g, q>>}
           \/ SaveFails(g, n) /\ UNCHANGED cancel_acks
        /\ UNCHANGED <<now, clock, contributions, begun>>
    BY <1>4 DEF GuardianCancel, MayCancel
  <2> HIDE DEF n
  <2>3. Writes(g, n)
    BY <1>3, <2>1, <2>2
  <2>4. /\ entry' \in [Honest -> Entry] /\ saved' \in [Honest -> Entry]
        /\ EntriesOK' /\ ClocksOK' /\ TimesOK'
        /\ \A h \in Honest : Extends(saved'[h], saved[h])
    BY <1>2, <2>1, <2>2, <2>3
  <2>5. RepliesOK'
    <3>1. CASE UNCHANGED cancel_acks
      BY <2>2, <2>4, <3>1, RepliesStayRecorded
    <3>2. CASE Save(g, n) /\ cancel_acks' = cancel_acks \cup {<<g, q>>}
      <4>1. saved'[g].cancelled[request_id[q]] = q
        BY <1>1, <2>1, <3>2 DEF Save
      <4>2. ASSUME NEW h \in Honest, NEW r \in Request
            PROVE  /\ <<h, r>> \in cancel_acks => saved'[h].cancelled[request_id[r]] = r
                   /\ <<h, r>> \in contributions => saved'[h].released[request_id[r]] = r
        <5>1. r # None /\ request_id[r] \in RequestId
          BY RequestAssumption DEF RequestId
        <5> QED
          BY <2>4, <5>1 DEF IInv, RepliesOK, Extends
      <4> QED
        BY <2>2, <3>2, <4>1, <4>2 DEF RepliesOK
    <3> QED
      BY <2>2, <3>1, <3>2
  <2>6. cancel_acks' \subseteq Honest \X Request
    BY <2>2 DEF IInv, TypeOK
  <2> QED
    BY <2>2, <2>4, <2>5, <2>6 DEF IInv, TypeOK
<1>5. CASE ReleaseRefused(g, q)
  <2>1. Writes(g, entry[g]) /\ UNCHANGED <<now, clock, cancel_acks, contributions, begun>>
    BY <1>1, <1>3, <1>5, ExtendsIsPreorder DEF ReleaseRefused
  <2>2. /\ entry' \in [Honest -> Entry] /\ saved' \in [Honest -> Entry]
        /\ EntriesOK' /\ ClocksOK' /\ TimesOK'
        /\ \A h \in Honest : Extends(saved'[h], saved[h])
    BY <1>2, <2>1
  <2>3. RepliesOK'
    BY <2>1, <2>2, RepliesStayRecorded
  <2> QED
    BY <2>1, <2>2, <2>3 DEF IInv, TypeOK
<1>6. CASE GuardianRelease(g, q)
  <2> DEFINE n == [entry[g] EXCEPT !.released[request_id[q]] = q]
  <2>1. /\ n \in Entry /\ EntryOK(n) /\ Extends(n, entry[g])
        /\ n.released[request_id[q]] = q /\ n.pending = entry[g].pending
    <3>1. /\ entry[g].cancelled[request_id[q]] # q
          /\ entry[g].pending[request_id[q]] # None
          /\ entry[g].pending[request_id[q]].request = q
      BY <1>6 DEF GuardianRelease, MayRelease, authorize_release_at
    <3> QED
      BY <1>1, <3>1, ReleasedEntry
  <2>2. /\ \/ Save(g, n) /\ contributions' = contributions \cup {<<g, q>>}
           \/ SaveFails(g, n) /\ UNCHANGED contributions
        /\ UNCHANGED <<now, clock, cancel_acks, begun>>
    BY <1>6 DEF GuardianRelease, MayRelease
  <2> HIDE DEF n
  <2>3. Writes(g, n)
    BY <1>3, <2>1, <2>2
  <2>4. /\ entry' \in [Honest -> Entry] /\ saved' \in [Honest -> Entry]
        /\ EntriesOK' /\ ClocksOK' /\ TimesOK'
        /\ \A h \in Honest : Extends(saved'[h], saved[h])
    BY <1>2, <2>1, <2>2, <2>3
  <2>5. RepliesOK'
    <3>1. CASE UNCHANGED contributions
      BY <2>2, <2>4, <3>1, RepliesStayRecorded
    <3>2. CASE Save(g, n) /\ contributions' = contributions \cup {<<g, q>>}
      <4>1. saved'[g].released[request_id[q]] = q
        BY <1>1, <2>1, <3>2 DEF Save
      <4>2. ASSUME NEW h \in Honest, NEW r \in Request
            PROVE  /\ <<h, r>> \in cancel_acks => saved'[h].cancelled[request_id[r]] = r
                   /\ <<h, r>> \in contributions => saved'[h].released[request_id[r]] = r
        <5>1. r # None /\ request_id[r] \in RequestId
          BY RequestAssumption DEF RequestId
        <5> QED
          BY <2>4, <5>1 DEF IInv, RepliesOK, Extends
      <4> QED
        BY <2>2, <3>2, <4>1, <4>2 DEF RepliesOK
    <3> QED
      BY <2>2, <3>1, <3>2
  <2>6. contributions' \subseteq Honest \X Request
    BY <2>2 DEF IInv, TypeOK
  <2> QED
    BY <2>2, <2>4, <2>5, <2>6 DEF IInv, TypeOK
<1> QED
  BY <1>4, <1>5, <1>6

\* A restart or a reboot puts the file's entry back in memory.
LEMMA RestartsKeepIInv ==
  ASSUME IInv, NEW g \in Honest, Restart(g) \/ Reboot(g)
  PROVE  IInv'
<1>1. /\ entry \in [Honest -> Entry] /\ saved \in [Honest -> Entry]
      /\ clock \in [Honest -> Clock] /\ now \in Nat
  BY DEF IInv, TypeOK
<1>2. /\ entry' = [entry EXCEPT ![g] = saved[g]]
      /\ UNCHANGED <<now, saved, cancel_acks, contributions, begun>>
  BY DEF Restart, Reboot
<1>3. entry' \in [Honest -> Entry] /\ EntriesOK'
  BY <1>1, <1>2, ExtendsIsPreorder DEF IInv, EntriesOK
<1>4. /\ clock' \in [Honest -> Clock] /\ ClocksOK'
      /\ \A h \in Honest : h # g => clock'[h] = clock[h]
      /\ \/ clock'[g].boot_id = clock[g].boot_id /\ clock'[g].booted_at = clock[g].booted_at
         \/ clock'[g].boot_id > clock[g].boot_id
  <2>1. CASE Restart(g)
    <3>1. clock' = [clock EXCEPT ![g] = [boot_id |-> clock[g].boot_id,
                                         booted_at |-> clock[g].booted_at,
                                         up_since |-> now]]
      <4>1. clock' = [clock EXCEPT ![g] = [clock[g] EXCEPT !.up_since = now]]
        BY <2>1 DEF Restart
      <4>2. [clock[g] EXCEPT !.up_since = now] =
              [boot_id |-> clock[g].boot_id, booted_at |-> clock[g].booted_at,
               up_since |-> now]
        BY <1>1 DEF Clock
      <4> QED
        BY <4>1, <4>2
    <3> QED
      BY <1>1, <1>2, <3>1 DEF IInv, ClocksOK, Clock
  <2>2. CASE Reboot(g)
    <3>1. clock' = [clock EXCEPT ![g] = [boot_id |-> clock[g].boot_id + 1,
                                         booted_at |-> now, up_since |-> now]]
      BY <2>2 DEF Reboot
    <3> QED
      BY <1>1, <1>2, <3>1 DEF IInv, ClocksOK, Clock
  <2> QED
    BY <2>1, <2>2
<1>5. ASSUME NEW h \in Honest PROVE Timed(h, entry[h])' /\ Timed(h, saved[h])'
  <2>1. Timed(h, entry[h]) /\ Timed(h, saved[h])
    BY DEF IInv, TimesOK
  <2>2. /\ clock[h].boot_id \in Nat /\ clock'[h].boot_id \in Nat
        /\ \A j \in RequestId : saved[h].pending[j] # None => saved[h].pending[j].boot_id \in Nat
    BY <1>1, <1>4 DEF Clock, Entry, Pending
  <2>3. CASE h # g
    BY <1>1, <1>2, <1>4, <2>1, <2>3 DEF Timed
  <2>4. CASE h = g
    <3>1. entry'[g] = saved[g] /\ saved'[g] = saved[g] /\ begun' = begun
      BY <1>1, <1>2
    <3>2. CASE /\ clock'[g].boot_id = clock[g].boot_id
               /\ clock'[g].booted_at = clock[g].booted_at
      BY <2>1, <2>4, <3>1, <3>2 DEF Timed
    <3>3. CASE clock'[g].boot_id > clock[g].boot_id
      <4>1. \A j \in RequestId : saved[g].pending[j] # None =>
               saved[g].pending[j].boot_id < clock'[g].boot_id
        <5>1. \A j \in RequestId : saved[g].pending[j] # None =>
                 saved[g].pending[j].boot_id <= clock[g].boot_id
          BY <2>1, <2>4 DEF Timed
        <5> QED
          BY <2>2, <2>4, <3>3, <5>1
      <4> QED
        BY <2>2, <2>4, <3>1, <4>1 DEF Timed
    <3> QED
      BY <1>4, <3>2, <3>3
  <2> QED
    BY <2>3, <2>4
<1>6. RepliesOK'
  BY <1>2 DEF IInv, RepliesOK
<1> QED
  BY <1>2, <1>3, <1>4, <1>5, <1>6 DEF IInv, TypeOK, TimesOK

\* The passing of time.
LEMMA TickKeepsIInv == ASSUME IInv, Tick PROVE IInv'
<1>1. clock \in [Honest -> Clock] /\ now \in Nat /\ now' = now + 1
      /\ UNCHANGED <<clock, entry, saved, cancel_acks, contributions, begun>>
  BY DEF IInv, TypeOK, Tick
<1>2. ClocksOK'
  BY <1>1 DEF IInv, ClocksOK, Clock
<1> QED
  BY <1>1, <1>2 DEF IInv, TypeOK, EntriesOK, RepliesOK, TimesOK, Timed

\* Every reachable state satisfies the invariant.
LEMMA GuardianInvariant == Spec => []IInv
<1>1. Init => IInv
  <2> SUFFICES ASSUME Init PROVE IInv
    OBVIOUS
  <2>1. TypeOK
    BY NewEntryOK DEF Init, TypeOK, Clock
  <2>2. EntriesOK
    BY NewEntryOK, ExtendsIsPreorder DEF Init, EntriesOK
  <2>3. ClocksOK /\ RepliesOK
    BY DEF Init, ClocksOK, RepliesOK
  <2>4. TimesOK
    BY DEF Init, TimesOK, Timed, NewEntry
  <2> QED
    BY <2>1, <2>2, <2>3, <2>4 DEF IInv
<1>2. IInv /\ [Next]_vars => IInv'
  <2> SUFFICES ASSUME IInv, [Next]_vars PROVE IInv'
    OBVIOUS
  <2>1. CASE UNCHANGED vars
    BY <2>1 DEF vars, IInv, TypeOK, EntriesOK, ClocksOK, RepliesOK, TimesOK, Timed
  <2>2. CASE Tick
    BY <2>2, TickKeepsIInv
  <2>3. CASE \E g \in Honest : Restart(g) \/ Reboot(g)
    BY <2>3, RestartsKeepIInv
  <2>4. CASE \E g \in Honest, q \in Request : guardian_mailbox(g, q)
    BY <2>4, BeginKeepsIInv, HandlersKeepIInv DEF guardian_mailbox
  <2> QED
    BY <2>1, <2>2, <2>3, <2>4 DEF Next
<1> QED
  BY <1>1, <1>2, PTL DEF Spec

-----------------------------------------------------------------------------
(* The theorems *)

\* Type correctness.
THEOREM GuardianTypeCorrect == Spec => []TypeOK
  BY GuardianInvariant, PTL DEF IInv

\* The owner's hard cancellation is final: n-k+1 acknowledgements of guardians that
\* keep their promise leave fewer than k contributions, malicious ones included.
THEOREM HardCancelTheorem == Spec => []HardCancelIsFinal
<1>1. IInv => HardCancelIsFinal
  <2> SUFFICES ASSUME IInv, NEW q \in Request,
                      Cardinality(Ackers(q)) >= required_cancel_acks
               PROVE  ~Reconstructible(q)
    BY DEF HardCancelIsFinal
  <2> DEFINE A == Ackers(q)
             C == Contributors(q)
  <2>1. A \subseteq Guardian /\ C \subseteq Guardian \ A
    <3>1. \A g \in Honest : ~(<<g, q>> \in cancel_acks /\ <<g, q>> \in contributions)
      <4> SUFFICES ASSUME NEW g \in Honest, <<g, q>> \in cancel_acks,
                          <<g, q>> \in contributions
                   PROVE  FALSE
        OBVIOUS
      <4>1. /\ saved[g].cancelled[request_id[q]] = q
            /\ saved[g].released[request_id[q]] = q
            /\ EntryOK(saved[g])
        BY DEF IInv, RepliesOK, EntriesOK
      <4>2. request_id[q] \in RequestId /\ q # None
        BY RequestAssumption DEF RequestId
      <4> QED
        BY <4>1, <4>2 DEF EntryOK
    <3> QED
      BY <3>1, GuardianAssumption DEF Ackers, Contributors, Honest
  <2> HIDE DEF A, C
  <2>2. /\ IsFiniteSet(Guardian) /\ IsFiniteSet(A) /\ IsFiniteSet(Guardian \ A)
        /\ IsFiniteSet(C)
    <3>1. IsFiniteSet(Guardian) /\ Guardian \ A \subseteq Guardian /\ C \subseteq Guardian
      BY <2>1, GuardianAssumption
    <3> QED
      BY <2>1, <3>1, FS_Subset
  <2>3. Cardinality(C) <= Cardinality(Guardian \ A)
    BY <2>1, <2>2, FS_Subset
  <2>4. Cardinality(Guardian \ A) = Cardinality(Guardian) - Cardinality(A)
    <3>1. Cardinality(Guardian \ A) = Cardinality(Guardian) - Cardinality(Guardian \cap A)
      BY <2>2, FS_Difference
    <3>2. Guardian \cap A = A
      BY <2>1
    <3> QED
      BY <3>1, <3>2
  <2>5. /\ Cardinality(Guardian) \in Nat /\ Cardinality(A) \in Nat /\ Cardinality(C) \in Nat
        /\ Cardinality(Guardian \ A) \in Nat
    BY <2>2, FS_CardinalityType
  <2>6. Cardinality(A) >= Cardinality(Guardian) - guardian_threshold + 1
    BY DEF A, required_cancel_acks
  <2>7. guardian_threshold \in Int
    BY <2>5, GuardianAssumption
  <2> QED
    BY <2>3, <2>4, <2>5, <2>6, <2>7 DEF C, Reconstructible
<1> QED
  BY <1>1, GuardianInvariant, PTL

\* A contribution leaves only in the boot in which its Begin arrived, the whole
\* delay of true time later, whatever the wall clocks say.
THEOREM ReleaseWaitsTheorem == Spec => ReleaseWaits
<1>1. IInv /\ [Next]_vars =>
        [\A g \in Honest, q \in Request :
           <<g, q>> \in contributions' \ contributions =>
             /\ begun[g][q] # None
             /\ begun[g][q].boot_id = clock[g].boot_id
             /\ now >= begun[g][q].at + minimum_recovery_delay]_vars
  <2> SUFFICES ASSUME IInv, [Next]_vars, NEW g \in Honest, NEW q \in Request,
                      <<g, q>> \in contributions', <<g, q>> \notin contributions
               PROVE  /\ begun[g][q] # None
                      /\ begun[g][q].boot_id = clock[g].boot_id
                      /\ now >= begun[g][q].at + minimum_recovery_delay
    OBVIOUS
  <2>1. GuardianRelease(g, q)
    <3>1. contributions' # contributions
      OBVIOUS
    <3>2. Next
      BY <3>1 DEF vars
    <3>3. PICK h \in Honest, r \in Request : guardian_mailbox(h, r)
      BY <3>1, <3>2 DEF Next, Tick, Restart, Reboot
    <3>4. GuardianRelease(h, r) /\ contributions' = contributions \cup {<<h, r>>}
      BY <3>1, <3>3
      DEF guardian_mailbox, GuardianBegin, MayBegin, GuardianCancel, MayCancel, ReleaseRefused, GuardianRelease, MayRelease
    <3>5. h = g /\ r = q
      BY <3>4
    <3> QED
      BY <3>4, <3>5
  <2> DEFINE p == entry[g].pending[request_id[q]]
  <2>2. /\ p # None /\ p.boot_id = clock[g].boot_id /\ p.request = q
        /\ \E at \in Sampled(g) : monotonic_now(g, at) >= p.started_monotonic
                                                          + minimum_recovery_delay
    BY <2>1 DEF GuardianRelease, MayRelease, authorize_release_at
  <2>3. request_id[q] \in RequestId /\ Timed(g, entry[g])
    BY DEF IInv, TimesOK, RequestId
  <2>4. /\ clock[g] \in Clock /\ now \in Nat /\ entry[g] \in Entry
    BY DEF IInv, TypeOK
  <2>5. /\ clock[g].boot_id \in Nat /\ clock[g].booted_at \in Nat /\ clock[g].up_since \in Nat
        /\ p \in Pending
    BY <2>2, <2>3, <2>4 DEF Clock, Entry
  <2>6. p.started_monotonic \in Nat
    BY <2>5 DEF Pending
  <2>7. begun[g][q] = [at |-> p.started_monotonic + clock[g].booted_at,
                       boot_id |-> clock[g].boot_id]
    BY <2>2, <2>3 DEF Timed
  <2> HIDE DEF p
  <2>8. begun[g][q] \in Arrival
    BY <2>5, <2>6, <2>7 DEF Arrival
  <2>9. now >= p.started_monotonic + clock[g].booted_at + minimum_recovery_delay
    BY <2>2, <2>4, <2>5, <2>6, GuardianAssumption DEF Sampled, monotonic_now
  <2> QED
    BY <2>7, <2>8, <2>9, RequestAssumption
<1> QED
  BY <1>1, GuardianInvariant, PTL DEF Spec, ReleaseWaits
=============================================================================
