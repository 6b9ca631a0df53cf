---------------------------- MODULE OutboxRelay ----------------------------
(***************************************************************************)
(* The worker's outbox relay: packages/withdrawals/src/outbox-relay.ts,     *)
(* polled by apps/worker/src/main.ts.  Each worker runs one batch at a time, *)
(* in one transaction: it claims due events with FOR UPDATE SKIP LOCKED,    *)
(* starts a workflow for each, writes the outcome to its row and COMMITs.   *)
(* A batch that fails, or whose worker crashes, is rolled back; what it     *)
(* started in Temporal stays started.  Temporal comes and goes; while it is *)
(* unreachable a start may have been accepted although it seems to fail.    *)
(***************************************************************************)
EXTENDS Integers, SequencesExt

CONSTANTS
  Events,     \* withdrawal.approved events
  Relays,     \* workers
  Limit,      \* the events a batch claims at most
  Width,      \* 2^attempts must be less than 2^Width: int is 32 bits, so 31
  MaxCrashes, \* bound on the workers' crashes
  MaxOutages  \* bound on how often Temporal becomes unreachable

ASSUME RelayAssumption ==
  /\ Limit \in 1 .. 100
  /\ Width \in Nat \ { 0 }
  /\ MaxCrashes \in Nat /\ MaxOutages \in Nat

VARIABLES
  event,    \* event[e]: status and attempts of the outbox row
  due,      \* the pending events with available_at <= now(), in that order
  batch,    \* batch[p]: the events p's transaction claimed, dispatched and will retry
  starts,   \* starts[e]: the workflow executions Temporal started for e
  up,       \* Temporal is reachable
  crashes,  \* crashes so far
  outages   \* outages so far

relayVars == << event, due, batch, starts, up, crashes, outages >>

Statuses == { "NONE", "PENDING", "DISPATCHED", "DEAD_LETTER" }

RelayTypeOK ==
  /\ event \in [Events -> [ status : Statuses, attempts : 0 .. Width ]]
  /\ due \in Seq({ e \in Events : event[e].status = "PENDING" }) /\ IsInjective(due)
  /\ batch \in [Relays -> [ claimed : SUBSET Events, dispatched : SUBSET Events,
                        retried : SUBSET Events ]]
  /\ \A p \in Relays : Cardinality(batch[p].claimed) <= Limit
  /\ starts \in [Events -> Nat]
  /\ up \in BOOLEAN
  /\ crashes \in 0 .. MaxCrashes /\ outages \in 0 .. MaxOutages

NoBatch == [ claimed |-> {}, dispatched |-> {}, retried |-> {} ]

RelayInit ==
  /\ event = [e \in Events |-> [ status |-> "NONE", attempts |-> 0 ]]
  /\ due = << >>
  /\ batch = [p \in Relays |-> NoBatch]
  /\ starts = [e \in Events |-> 0]
  /\ up = TRUE
  /\ crashes = 0 /\ outages = 0

-----------------------------------------------------------------------------
(* The surroundings.                                                       *)

\* An approval commits its outbox row, available at once.
Approve(e) ==
  /\ event[e].status = "NONE"
  /\ event' = [event EXCEPT ![e].status = "PENDING"]
  /\ due' = Append(due, e)
  /\ UNCHANGED << batch, starts, up, crashes, outages >>

\* The clock reaches the available_at of a pending event.
BackoffEnds(e) ==
  /\ event[e].status = "PENDING" /\ e \notin ToSet(due)
  /\ due' = Append(due, e)
  /\ UNCHANGED << event, batch, starts, up, crashes, outages >>

GoesDown ==
  /\ up /\ outages < MaxOutages
  /\ up' = FALSE /\ outages' = outages + 1
  /\ UNCHANGED << event, due, batch, starts, crashes >>

ComesUp ==
  /\ ~up
  /\ up' = TRUE
  /\ UNCHANGED << event, due, batch, starts, crashes, outages >>

-----------------------------------------------------------------------------
(* A batch.                                                                *)

Busy(p) == batch[p] # NoBatch

Locked == UNION { batch[p].claimed : p \in Relays }

\* ORDER BY available_at.
Earlier(e, f) == \E i, j \in DOMAIN due : i < j /\ due[i] = e /\ due[j] = f

\* FOR UPDATE SKIP LOCKED.
Claimable == { e \in Events \ Locked : event[e].status = "PENDING" /\ e \in ToSet(due) }

\* BEGIN and claimPendingWithdrawalApprovedEvents.
Claim(p) ==
  /\ ~Busy(p) /\ Claimable # {}
  /\ batch' = [batch EXCEPT ![p].claimed =
                 { e \in Claimable :
                     Cardinality({ f \in Claimable : Earlier(f, e) }) < Limit }]
  /\ UNCHANGED << event, due, starts, up, crashes, outages >>

\* The events of p's batch whose outcome is not written yet; it is e's turn.
Left(p) == batch[p].claimed \ (batch[p].dispatched \cup batch[p].retried)

Turn(p, e) == e \in Left(p) /\ \A f \in Left(p) : ~Earlier(f, e)

\* workflow.start of "withdrawal/<id>" under REJECT_DUPLICATE and FAIL.
Started(e) == IF starts[e] = 0 THEN [starts EXCEPT ![e] = 1] ELSE starts

\* Started, or already started: markOutboxDispatched.
StartWorkflow(p, e) ==
  /\ Turn(p, e) /\ up
  /\ starts' = Started(e)
  /\ batch' = [batch EXCEPT ![p].dispatched = @ \cup { e }]
  /\ UNCHANGED << event, due, up, crashes, outages >>

\* The start fails, though Temporal may have accepted it.
StartFails(p, e) ==
  /\ Turn(p, e) /\ ~up
  /\ \/ UNCHANGED starts
     \/ starts' = Started(e)

\* markOutboxRetry.
Retry(p, e) ==
  /\ StartFails(p, e)
  /\ event[e].attempts < Width
  /\ batch' = [batch EXCEPT ![p].retried = @ \cup { e }]
  /\ UNCHANGED << event, due, up, crashes, outages >>

\* (POWER(2, attempts))::int is out of range: the UPDATE fails, and the batch
\* is rolled back.
RetryOverflows(p, e) ==
  /\ StartFails(p, e)
  /\ event[e].attempts >= Width
  /\ batch' = [batch EXCEPT ![p] = NoBatch]
  /\ UNCHANGED << event, due, up, crashes, outages >>

\* Mutant: a start that failed is marked as well.
WrittenDispatched(p, e) ==
  IF e \in batch[p].dispatched \cup batch[p].retried
    THEN [ event[e] EXCEPT !.status = "DISPATCHED" ]
    ELSE event[e]

\* Mutant: an event is given up after a few attempts.
WrittenGivenUp(p, e) ==
  CASE e \in batch[p].dispatched -> [ event[e] EXCEPT !.status = "DISPATCHED" ]
    [] e \in batch[p].retried ->
         [ status |-> IF event[e].attempts = Width - 1 THEN "DEAD_LETTER" ELSE "PENDING",
           attempts |-> event[e].attempts + 1 ]
    [] OTHER -> event[e]

\* The row of e as p's transaction writes it.
Written(p, e) ==
  IF e \in batch[p].dispatched THEN [ event[e] EXCEPT !.status = "DISPATCHED" ]
  ELSE IF e \in batch[p].retried THEN [ event[e] EXCEPT !.attempts = @ + 1 ]
  ELSE event[e]

\* COMMIT: marked events leave, and those to retry have a later available_at.
Commit(p) ==
  /\ Busy(p) /\ Left(p) = {}
  /\ event' = [e \in Events |-> Written(p, e)]
  /\ due' = SelectSeq(due, LAMBDA e : e \notin batch[p].claimed)
  /\ batch' = [batch EXCEPT ![p] = NoBatch]
  /\ UNCHANGED << starts, up, crashes, outages >>

\* The worker crashes, or its transaction fails.
Crash(p) ==
  /\ Busy(p) /\ crashes < MaxCrashes
  /\ batch' = [batch EXCEPT ![p] = NoBatch]
  /\ crashes' = crashes + 1
  /\ UNCHANGED << event, due, starts, up, outages >>

-----------------------------------------------------------------------------

BatchStep(p) ==
  \/ Claim(p) \/ Commit(p)
  \/ \E e \in Events : StartWorkflow(p, e) \/ Retry(p, e) \/ RetryOverflows(p, e)

RelayNext ==
  \/ \E e \in Events : Approve(e) \/ BackoffEnds(e)
  \/ \E p \in Relays : BatchStep(p) \/ Crash(p)
  \/ GoesDown \/ ComesUp

RelaySpec == RelayInit /\ [][RelayNext]_relayVars

\* A worker polls for ever and its batches end; the clock goes on.  Nothing is
\* assumed of Temporal.
Fairness ==
  /\ \A p \in Relays : WF_relayVars(BatchStep(p))
  /\ \A e \in Events : WF_relayVars(BackoffEnds(e))

FairSpec == RelaySpec /\ Fairness

-----------------------------------------------------------------------------
(* Properties.                                                             *)

\* The relay implements OutboxHandover: an event is marked after its workflow
\* was started, and a failed start never marks it.
Handover ==
  INSTANCE OutboxHandover WITH status  <- [e \in Events |-> event[e].status],
                               started <- { e \in Events : starts[e] > 0 }

HandedOver == Handover!Spec

\* Once Temporal stays reachable, every approved event is dispatched, however
\* long it was away.
EventuallyDispatched ==
  <>[]up => \A e \in Events : event[e].status = "PENDING" ~> event[e].status = "DISPATCHED"

=============================================================================
