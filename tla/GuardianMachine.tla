--------------------------- MODULE GuardianMachine ---------------------------
(***************************************************************************)
(* GuardianMachine of gp-core: the rules by which one guardian begins,       *)
(* cancels and releases recovery requests, without clocks that restart and   *)
(* without a state file.  Certificates are valid, and requests are of the    *)
(* guardian's configuration; a request stands for its digest.                *)
(***************************************************************************)
EXTENDS Naturals

CONSTANTS Request, request_id, nonce, delay, None

VARIABLES
  now,          \* the time that the operations are given
  pending,      \* pending[i]: the GuardianPending of request id i
  cancelled,    \* cancelled[i]: the request that was cancelled under id i
  seen_nonces

vars == <<pending, cancelled, seen_nonces>>

RequestId == {request_id[q] : q \in Request}

Init ==
  /\ pending = [i \in RequestId |-> None]
  /\ cancelled = [i \in RequestId |-> None]
  /\ seen_nonces = {}

begin_at(q) ==
  /\ cancelled[request_id[q]] = None
  /\ pending[request_id[q]] = None
  /\ nonce[q] \notin seen_nonces
  /\ seen_nonces' = seen_nonces \cup {nonce[q]}
  /\ pending' = [pending EXCEPT ![request_id[q]] =
                   [request |-> q, not_before |-> now + delay, state |-> "DelayPending"]]
  /\ UNCHANGED cancelled

\* A cancelled request that is cancelled again changes nothing.
cancel(q) ==
  LET i == request_id[q]
  IN /\ cancelled[i] = None
     /\ pending[i] # None => pending[i].request = q
     /\ cancelled' = [cancelled EXCEPT ![i] = q]
     /\ pending' = IF pending[i] = None THEN pending
                   ELSE [pending EXCEPT ![i].state = "Cancelled"]
     /\ UNCHANGED seen_nonces

\* What authorize_release_at finds out about the request of a valid certificate.
Known(q) ==
  LET i == request_id[q]
  IN cancelled[i] = None /\ pending[i] # None /\ pending[i].request = q

authorize_release_at(q) ==
  /\ Known(q)
  /\ now >= pending[request_id[q]].not_before
  /\ pending' = [pending EXCEPT ![request_id[q]].state = "Releasing"]
  /\ UNCHANGED <<cancelled, seen_nonces>>

\* The request has expired: only the state changes.
ReleaseExpired(q) ==
  /\ Known(q)
  /\ pending' = [pending EXCEPT ![request_id[q]].state = "Expired"]
  /\ UNCHANGED <<cancelled, seen_nonces>>

Next == \E q \in Request : \/ begin_at(q) \/ cancel(q)
                           \/ authorize_release_at(q) \/ ReleaseExpired(q)

Spec == Init /\ [][Next]_vars
=============================================================================
