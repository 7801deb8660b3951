------------------------ MODULE EpochRecoveryMachine -------------------------
(***************************************************************************)
(* EpochRecoveryMachine of gp-core: one guardian's recovery requests across  *)
(* guardian epochs, without a state file and without reboots.  Certificates  *)
(* are valid, every request has an id and a nonce of its own, and a draining *)
(* epoch is past its deadline whenever the caller says so.                   *)
(***************************************************************************)
EXTENDS Naturals

CONSTANTS Request, delay, None

VARIABLES
  now,          \* the time that the operations are given
  config_ref,   \* config_ref[q]: the epoch that request q names
  active,       \* the active epoch
  draining,     \* the epochs that drain
  pending,      \* pending[q]: the PendingEpochRecovery of q
  cancelled     \* the requests that have been cancelled

vars == <<active, draining, pending, cancelled>>

New == draining = {} /\ pending = [q \in Request |-> None] /\ cancelled = {}

begin(q) ==
  /\ config_ref[q] = active
  /\ q \notin cancelled
  /\ pending[q] = None
  /\ pending' = [pending EXCEPT ![q] = [not_before |-> now + delay, state |-> "DelayPending"]]
  /\ UNCHANGED <<active, draining, cancelled>>

activate_successor ==
  /\ draining' = draining \cup {active}
  /\ active' = active + 1
  /\ UNCHANGED <<pending, cancelled>>

Known(q) == /\ q \notin cancelled
            /\ pending[q] # None
            /\ config_ref[q] \in {active} \cup draining

authorize_release(q) ==
  /\ Known(q)
  /\ now >= pending[q].not_before
  /\ pending' = [pending EXCEPT ![q].state = "Releasing"]
  /\ UNCHANGED <<active, draining, cancelled>>

\* The request has expired: only the state changes.
ReleaseExpired(q) ==
  /\ Known(q)
  /\ pending' = [pending EXCEPT ![q].state = "Expired"]
  /\ UNCHANGED <<active, draining, cancelled>>

cancel(q) ==
  /\ cancelled' = cancelled \cup {q}
  /\ pending' = IF pending[q] = None THEN pending
                ELSE [pending EXCEPT ![q].state = "Cancelled"]
  /\ UNCHANGED <<active, draining>>

retire_draining_epoch(e) ==
  /\ e \in draining
  /\ \A q \in Request : pending[q] # None /\ config_ref[q] = e =>
                          pending[q].state \notin {"DelayPending", "Releasing"}
  /\ draining' = draining \ {e}
  /\ UNCHANGED <<active, pending, cancelled>>

Next == \/ activate_successor
        \/ \E e \in draining : retire_draining_epoch(e)
        \/ \E q \in Request : \/ begin(q) \/ cancel(q)
                              \/ authorize_release(q) \/ ReleaseExpired(q)
=============================================================================
