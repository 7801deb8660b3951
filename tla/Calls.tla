-------------------------------- MODULE Calls --------------------------------
(***************************************************************************)
(* How the command-line programs call the other parties: setup, recover,     *)
(* rotate and cancel work through stages, and in each stage they call a set  *)
(* of numbered actors one after the other.  A call that fails for whatever   *)
(* reason is tried again over the next relay.                                *)
(*                                                                           *)
(* A process is a record with fields pc, called (whom the present stage has  *)
(* called), got (who of them answered), acked (who answered in the stage     *)
(* before) and tries (attempts at the present call that failed).             *)
(***************************************************************************)
EXTENDS Integers, FiniteSets

\* policy "all": the first failed call ends the run; "enough": the loop stops at
\* need answers; "try": everybody is called, then the answers are counted.
Stage(targets, policy, need, tries, next) ==
  [targets |-> targets, policy |-> policy, need |-> need, tries |-> tries, next |-> next,
   otherwise |-> "Failed"]

All(targets, tries, next) == Stage(targets, "all", Cardinality(targets), tries, next)

Enter(p, pc) ==
  [p EXCEPT !.pc = pc, !.called = {}, !.got = {}, !.acked = p.got, !.tries = 0]

\* The end of one turn of a stage's loop.
Settle(p, st) ==
  LET enough == Cardinality(p.got) >= st.need
      over == \/ p.called = st.targets
              \/ st.policy = "all" /\ p.called # p.got
              \/ st.policy = "enough" /\ enough
  IN IF over THEN Enter(p, IF enough THEN st.next ELSE st.otherwise) ELSE p

Answered(p, x, st) ==
  Settle([p EXCEPT !.called = @ \cup {x}, !.got = @ \cup {x}, !.tries = 0], st)

\* send_rotation_mailbox: the next relay, if there is one.
Missed(p, x, st) ==
  IF p.tries + 1 < st.tries
  THEN [p EXCEPT !.tries = @ + 1]
  ELSE Settle([p EXCEPT !.called = @ \cup {x}, !.tries = 0], st)

First(S) == CHOOSE x \in S : \A y \in S : x <= y

\* The actor that a process calls in stage pc, in the order of the roster.
Turn(p, pc, targets) == IF p.pc = pc THEN {First(targets \ p.called)} ELSE {}

\* The actor answered with something that is of no use: it is not asked again.
Declined(p, x, st) ==
  Settle([p EXCEPT !.called = @ \cup {x}, !.tries = 0], st)

=============================================================================
