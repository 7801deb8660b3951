----------------------------- MODULE CallsProofs -----------------------------
(***************************************************************************)
(* What a call does to the process that makes it.                            *)
(***************************************************************************)
EXTENDS Calls, FiniteSetTheorems, WellFoundedInduction, TLAPS

\* A record with the fields of a process, and perhaps others.
IsProcess(p) ==
  /\ p = [f \in DOMAIN p |-> p[f]]
  /\ {"pc", "called", "got", "acked", "tries"} \subseteq DOMAIN p

\* The process is in the middle of a stage that calls the members of targets.
Ongoing(p, targets) ==
  /\ p.called \subseteq targets
  /\ p.called # targets
  /\ p.got \subseteq p.called

\* p has become r, which differs in the fields of calls only.
Updated(p, r, pc, called, got, acked, tries) ==
  /\ IsProcess(r) /\ DOMAIN r = DOMAIN p
  /\ r.pc = pc /\ r.called = called /\ r.got = got /\ r.acked = acked /\ r.tries = tries
  /\ \A f \in DOMAIN p \ {"pc", "called", "got", "acked", "tries"} : r[f] = p[f]

\* A process that enters a stage has called nobody yet.
LEMMA EnterFields ==
  ASSUME NEW p, IsProcess(p), NEW pc
  PROVE  Updated(p, Enter(p, pc), pc, {}, {}, p.got, 0)
  BY DEF IsProcess, Updated, Enter

\* The three ways a turn of a stage's loop can end.
LEMMA SettleFields ==
  ASSUME NEW p, IsProcess(p), NEW st
  PROVE  \/ /\ Settle(p, st) = p
            /\ p.called # st.targets
         \/ /\ Settle(p, st) = Enter(p, st.next)
            /\ Cardinality(p.got) >= st.need
         \/ /\ Settle(p, st) = Enter(p, st.otherwise)
            /\ ~(Cardinality(p.got) >= st.need)
  BY DEF Settle

\* Whoever is still to be called includes a first one.
LEMMA FirstOfTargets ==
  ASSUME NEW S \in SUBSET Nat, S # {}
  PROVE  First(S) \in S
<1> DEFINE R == {ss \in Nat \X Nat : ss[1] < ss[2]}
<1>1. R = OpToRel(<, Nat)
  BY DEF OpToRel
<1>2. IsWellFoundedOn(R, Nat)
  BY <1>1, NatLessThanWellFounded
<1>5. \A a, b \in Nat : a < b => <<a, b>> \in R
  OBVIOUS
<1> HIDE DEF R
<1>3. PICK x \in S : \A y \in S : ~(<<y, x>> \in R)
  BY <1>2, WFMin
<1>4. \A y \in S : x <= y
  <2>1. ASSUME NEW y \in S PROVE ~(y < x)
    <3>1. x \in Nat /\ y \in Nat
      OBVIOUS
    <3> QED
      BY <1>3, <1>5, <3>1, Zenon
  <2>2. ASSUME NEW y \in S PROVE x <= y
    <3>1. x \in Nat /\ y \in Nat
      OBVIOUS
    <3> QED
      BY <2>1, <3>1
  <2> QED
    BY <2>2
<1> QED
  BY <1>4 DEF First


\* Only the fields of calls differ between p and r.
SameOwner(p, r) ==
  /\ IsProcess(r) /\ DOMAIN r = DOMAIN p
  /\ \A f \in DOMAIN p \ {"pc", "called", "got", "acked", "tries"} : r[f] = p[f]

\* After a call in stage st, in which G have answered: the stage goes on, or it is
\* over with enough answers, or with too few.
Outcome(p, r, G, st) ==
  /\ SameOwner(p, r)
  /\ r.tries \in Nat
  /\ \/ r.pc = p.pc /\ Ongoing(r, st.targets) /\ r.got = G /\ r.acked = p.acked
     \/ /\ r.pc = st.next /\ r.called = {} /\ r.got = {} /\ r.acked = G
        /\ Cardinality(G) >= st.need
     \/ /\ r.pc = st.otherwise /\ r.called = {} /\ r.got = {} /\ r.acked = G
        /\ ~(Cardinality(G) >= st.need)

\* The same, as the outcome of the call that ended the turn.
LEMMA SettleOutcome ==
  ASSUME NEW p, NEW p1, IsProcess(p1), SameOwner(p, p1), p1.pc = p.pc, p1.acked = p.acked,
         p1.tries \in Nat, NEW st,
         p1.called \subseteq st.targets, p1.got \subseteq p1.called
  PROVE  Outcome(p, Settle(p1, st), p1.got, st)
<1>1. /\ Updated(p1, Enter(p1, st.next), st.next, {}, {}, p1.got, 0)
      /\ Updated(p1, Enter(p1, st.otherwise), st.otherwise, {}, {}, p1.got, 0)
  BY EnterFields
<1>2. /\ SameOwner(p, Enter(p1, st.next)) /\ SameOwner(p, Enter(p1, st.otherwise))
  BY <1>1 DEF Updated, SameOwner
<1>3. CASE Settle(p1, st) = p1 /\ p1.called # st.targets
  BY <1>3 DEF Outcome, Ongoing
<1>4. CASE Settle(p1, st) = Enter(p1, st.next) /\ Cardinality(p1.got) >= st.need
  BY <1>1, <1>2, <1>4 DEF Outcome, Updated
<1>5. CASE Settle(p1, st) = Enter(p1, st.otherwise) /\ ~(Cardinality(p1.got) >= st.need)
  BY <1>1, <1>2, <1>5 DEF Outcome, Updated
<1> QED
  BY <1>3, <1>4, <1>5, SettleFields

\* The three ways a call can end.
LEMMA CallOutcome ==
  ASSUME NEW p, IsProcess(p), p.tries \in Nat, NEW st, Ongoing(p, st.targets),
         NEW x \in st.targets
  PROVE  /\ Outcome(p, Answered(p, x, st), p.got \cup {x}, st)
         /\ Outcome(p, Missed(p, x, st), p.got, st)
         /\ Outcome(p, Declined(p, x, st), p.got, st)
<1>1. Outcome(p, Answered(p, x, st), p.got \cup {x}, st)
  <2> DEFINE p1 == [p EXCEPT !.called = @ \cup {x}, !.got = @ \cup {x}, !.tries = 0]
  <2>1. /\ IsProcess(p1) /\ SameOwner(p, p1) /\ p1.pc = p.pc /\ p1.acked = p.acked
        /\ p1.tries = 0 /\ p1.called = p.called \cup {x} /\ p1.got = p.got \cup {x}
    BY DEF IsProcess, SameOwner
  <2>2. Answered(p, x, st) = Settle(p1, st)
    BY DEF Answered
  <2> HIDE DEF p1
  <2>3. p1.called \subseteq st.targets /\ p1.got \subseteq p1.called
    BY <2>1 DEF Ongoing
  <2> QED
    BY <2>1, <2>2, <2>3, SettleOutcome
<1>2. Outcome(p, Declined(p, x, st), p.got, st)
  <2> DEFINE p1 == [p EXCEPT !.called = @ \cup {x}, !.tries = 0]
  <2>1. /\ IsProcess(p1) /\ SameOwner(p, p1) /\ p1.pc = p.pc /\ p1.acked = p.acked
        /\ p1.tries = 0 /\ p1.called = p.called \cup {x} /\ p1.got = p.got
    BY DEF IsProcess, SameOwner
  <2>2. Declined(p, x, st) = Settle(p1, st)
    BY DEF Declined
  <2> HIDE DEF p1
  <2>3. p1.called \subseteq st.targets /\ p1.got \subseteq p1.called
    BY <2>1 DEF Ongoing
  <2> QED
    BY <2>1, <2>2, <2>3, SettleOutcome
<1>3. Outcome(p, Missed(p, x, st), p.got, st)
  <2>1. CASE ~(p.tries + 1 < st.tries)
    BY <1>2, <2>1 DEF Missed, Declined
  <2>2. CASE p.tries + 1 < st.tries
    <3> DEFINE p1 == [p EXCEPT !.tries = @ + 1]
    <3>1. /\ IsProcess(p1) /\ SameOwner(p, p1) /\ p1.pc = p.pc /\ p1.acked = p.acked
          /\ p1.tries = p.tries + 1 /\ p1.called = p.called /\ p1.got = p.got
      BY DEF IsProcess, SameOwner
    <3>2. Missed(p, x, st) = p1
      BY <2>2 DEF Missed
    <3> HIDE DEF p1
    <3> QED
      BY <3>1, <3>2 DEF Outcome, Ongoing
  <2> QED
    BY <2>1, <2>2
<1> QED
  BY <1>1, <1>2, <1>3

\* Who is called next is one of the stage's targets that has not been called.
LEMMA TurnIsTarget ==
  ASSUME NEW p, NEW pc, NEW targets \in SUBSET Nat, Ongoing(p, targets),
         NEW x \in Turn(p, pc, targets)
  PROVE  p.pc = pc /\ x \in targets /\ x \notin p.called
<1>1. p.pc = pc /\ x = First(targets \ p.called)
  BY DEF Turn
<1>2. targets \ p.called \in SUBSET Nat /\ targets \ p.called # {}
  BY DEF Ongoing
<1> QED
  BY <1>1, <1>2, FirstOfTargets

\* A subset with as many members is the whole set.
LEMMA EnoughIsAll ==
  ASSUME NEW T, IsFiniteSet(T), NEW G \in SUBSET T, Cardinality(G) >= Cardinality(T)
  PROVE  G = T
<1>1. Cardinality(G) <= Cardinality(T) /\ (Cardinality(G) = Cardinality(T) => G = T)
  BY FS_Subset
<1>2. Cardinality(G) \in Nat /\ Cardinality(T) \in Nat
  BY FS_Subset, FS_CardinalityType
<1> QED
  BY <1>1, <1>2

=============================================================================
