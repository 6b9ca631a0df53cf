--------------------------- MODULE OutboxHandover ---------------------------
(***************************************************************************)
(* What the outbox promises to a decision that wrote an event: its workflow *)
(* is started once, the event is marked only after that, and every event is *)
(* marked in the end.  OutboxRelay is shown to implement this.              *)
(***************************************************************************)
CONSTANT Events

VARIABLES
  status,   \* status[e]: the outbox row of e
  started   \* the events whose workflow Temporal has started

vars == << status, started >>

Init ==
  /\ status = [e \in Events |-> "NONE"]
  /\ started = {}

Append(e) ==
  /\ status[e] = "NONE"
  /\ status' = [status EXCEPT ![e] = "PENDING"]
  /\ UNCHANGED started

Start(e) ==
  /\ status[e] = "PENDING" /\ e \notin started
  /\ started' = started \cup { e }
  /\ UNCHANGED status

\* A batch is marked in one transaction.
Mark(es) ==
  /\ es \subseteq started
  /\ \A e \in es : status[e] = "PENDING"
  /\ status' = [e \in Events |-> IF e \in es THEN "DISPATCHED" ELSE status[e]]
  /\ UNCHANGED started

Next ==
  \/ \E e \in Events : Append(e) \/ Start(e)
  \/ \E es \in SUBSET Events : Mark(es)

Spec == Init /\ [][Next]_vars

=============================================================================
