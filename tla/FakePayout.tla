----------------------------- MODULE FakePayout -----------------------------
(***************************************************************************)
(* The LOCAL/TEST payout: the activity that dispatches a withdrawal to the  *)
(* in-memory FakePayoutChain (packages/withdrawals/src/pipeline.ts), and    *)
(* the reconciliation of an unknown outcome from the chain's observation    *)
(* (reconcile.ts), which alone may prove a payment or a non-payment.        *)
(*                                                                          *)
(* The activity is one transaction; around it the worker may crash and      *)
(* Temporal runs it again.  The chain decides the outcome of an attempt:    *)
(* the scenario a test selects.                                             *)
(***************************************************************************)
EXTENDS Withdrawals, PayoutAttempts

CONSTANTS
  NoOwner,     \* there is no lease row
  MaxToken,    \* bound on the fencing tokens handed out
  MaxAttempts  \* bound on the attempts of one withdrawal

ASSUME BoundsAssumption == MaxToken \in Nat /\ MaxAttempts \in Nat

\* As in RealPayout: no decision is made on a withdrawal that is to be reconciled.
ASSUME ReviewAssumption == "RECONCILE_REQUIRED" \notin DecisionStates

INSTANCE HotWalletLease WITH Owners <- Ids

VARIABLES
  lease,     \* the dispatch lease row of the hot wallet
  attempts,  \* attempts[w]: the withdrawal_attempts rows of w
  chain,     \* chain[w]: what the chain shows for each attempt of w
  answered   \* answered[w]: the activity committed, Temporal does not know yet

vars == << rowVars, lease, attempts, chain, answered >>

Phases == { "FAILED", "UNKNOWN", "ACCEPTED", "CONFIRMED", "NONPAYMENT" }

FakeTypeOK ==
  /\ TypeOK
  /\ lease \in Lease
  /\ attempts \in [Ids -> Seq(Attempt)]
  /\ chain \in [Ids -> Seq(Phases)]
  /\ answered \in [Ids -> BOOLEAN]

FakeInit ==
  /\ ReviewInit
  /\ lease = NoLease
  /\ attempts = [w \in Ids |-> << >>]
  /\ chain = [w \in Ids |-> << >>]
  /\ answered = [w \in Ids |-> FALSE]

UnresolvedByOthers(w) ==
  \E v \in Ids \ { w } : \E k \in DOMAIN attempts[v] :
    Unresolved(wd[v], attempts[v], k, nonpayment[v])

-----------------------------------------------------------------------------
(* The activity: runFakePayoutPipeline.                                     *)

\* Temporal runs the activity of w, for the first time or again.
Runs(w) == workflow[w] = "RUNNING" /\ ~answered[w]

\* The transaction commits and the activity returns a result.
Answers(w) == answered' = [answered EXCEPT ![w] = TRUE]

\* Dispatch is paused: what could be dispatched is held, and the activity
\* returns all the same.
PauseDispatch(w) ==
  /\ Runs(w) /\ Answers(w)
  /\ wd' = IF wd[w].state \in { "APPROVED", "QUEUED" }
             THEN [wd EXCEPT ![w].state = "HELD"] ELSE wd
  /\ UNCHANGED << quote, ledger, approvals, nonpayment, outbox, workflow,
                  lease, attempts, chain >>

\* Queued, SIGNING, the lease acquired, an attempt created: what every dispatch
\* does before the chain is asked, or else it throws and is rolled back.
Dispatches(w) ==
  /\ Runs(w) /\ Answers(w)
  /\ wd[w].state \in { "APPROVED", "FAILED_PRE_BROADCAST", "QUEUED" }
  /\ CanAcquire(lease, w, UnresolvedByOthers(w))
  /\ Acquired(lease, w).token <= MaxToken
  /\ AttemptAllowed("SIGNING", attempts[w])
  /\ Len(attempts[w]) < MaxAttempts
  /\ UNCHANGED << quote, approvals, nonpayment, outbox, workflow >>

Fence(w) == Acquired(lease, w).token

\* The attempt and what the chain answers for it.
Attempted(w, result, started, phase) ==
  /\ attempts' = [attempts EXCEPT ![w] =
       Append(@, [ NewAttempt(Fence(w), 0) EXCEPT !.result = result, !.started = started ])]
  /\ chain' = [chain EXCEPT ![w] = Append(@, phase)]

\* The dispatch certainly failed before the broadcast.
FailBeforeBroadcast(w) ==
  /\ Dispatches(w)
  /\ Attempted(w, "FAILED_PRE_BROADCAST", FALSE, "FAILED")
  /\ wd' = [wd EXCEPT ![w].state = "FAILED_PRE_BROADCAST"]
  /\ lease' = ReleasedBy(Acquired(lease, w), w, Fence(w))
  /\ UNCHANGED ledger

\* Mutant: an unknown outcome is taken for a failure.
UnknownAsFailure(w) ==
  /\ Dispatches(w)
  /\ Attempted(w, "FAILED_PRE_BROADCAST", FALSE, "UNKNOWN")
  /\ wd' = [wd EXCEPT ![w].state = "FAILED_PRE_BROADCAST"]
  /\ lease' = ReleasedBy(Acquired(lease, w), w, Fence(w))
  /\ UNCHANGED ledger

\* It may have been broadcast: left to reconciliation, the lease is kept.
BroadcastUnknown(w) ==
  /\ Dispatches(w)
  /\ Attempted(w, "UNKNOWN", TRUE, "UNKNOWN")
  /\ wd' = [wd EXCEPT ![w].state = "RECONCILE_REQUIRED"]
  /\ lease' = Acquired(lease, w)
  /\ UNCHANGED ledger

\* It is accepted and confirmed: settled in the same transaction.
BroadcastConfirmed(w) ==
  /\ Dispatches(w)
  /\ Attempted(w, "BROADCASTED", TRUE, "CONFIRMED")
  /\ wd' = [wd EXCEPT ![w].state = "CONFIRMED", ![w].settled = TRUE]
  /\ ledger' = SettlementPosting(ledger, w)
  /\ lease' = ReleasedBy(Acquired(lease, w), w, Fence(w))

\* The workflow returns the result of its activity and is complete.
Complete(w) ==
  /\ answered[w]
  /\ workflow' = [workflow EXCEPT ![w] = "COMPLETED"]
  /\ answered' = [answered EXCEPT ![w] = FALSE]
  /\ UNCHANGED << quote, wd, ledger, approvals, nonpayment, outbox, lease, attempts, chain >>

\* The worker crashes after the commit: Temporal will run the activity again.
AnswerLost(w) ==
  /\ answered[w]
  /\ answered' = [answered EXCEPT ![w] = FALSE]
  /\ UNCHANGED << rowVars, lease, attempts, chain >>

-----------------------------------------------------------------------------
(* Reconciliation: advanceFakeReconciliation, applyObservationInTxn.        *)

ReconciledResults == { "PENDING", "UNKNOWN", "RECONCILE_REQUIRED", "BROADCASTED" }

\* The latest attempt a reconciliation may look at.
Reconcilable(w, k) ==
  /\ k \in DOMAIN attempts[w] /\ attempts[w][k].result \in ReconciledResults
  /\ \A j \in DOMAIN attempts[w] : j > k => attempts[w][j].result \notin ReconciledResults

\* What the chain may show next: an unknown outcome is settled once, or never.
Advances(phase) ==
  IF phase = "UNKNOWN" THEN { "UNKNOWN", "ACCEPTED", "CONFIRMED", "NONPAYMENT" }
                       ELSE { phase }

\* The chain moves on in memory, and the observation is recorded for a withdrawal
\* that waits, is held or is queued; otherwise the transaction is rolled back.
Observed(w, k, phase) ==
  /\ Reconcilable(w, k)
  /\ phase \in Advances(chain[w][k])
  /\ chain' = [chain EXCEPT ![w][k] = phase]
  /\ UNCHANGED << quote, approvals, outbox, workflow, attempts, answered >>

ReleasedWith(w, k) == ReleasedBy(lease, w, attempts[w][k].fence)

\* INTENDED_PAYOUT_PROVEN: confirmed, settled and the lease released, but only
\* out of RECONCILE_REQUIRED.
ReconcilePaid(w, k) ==
  /\ Observed(w, k, "CONFIRMED")
  /\ wd[w].state = "RECONCILE_REQUIRED"
  /\ wd' = [wd EXCEPT ![w].state = "CONFIRMED", ![w].settled = TRUE]
  /\ ledger' = SettlementPosting(ledger, w)
  /\ lease' = ReleasedWith(w, k)
  /\ UNCHANGED nonpayment

\* DEFINITIVE_NONPAYMENT: the durable row, and out of RECONCILE_REQUIRED held
\* with the flag that lets only a proven rejection follow.
ReconcileUnpaid(w, k) ==
  /\ Observed(w, k, "NONPAYMENT")
  /\ wd[w].state \in { "RECONCILE_REQUIRED", "HELD", "QUEUED" }
  /\ nonpayment' = [nonpayment EXCEPT ![w] = @ \cup { k }]
  /\ IF wd[w].state = "RECONCILE_REQUIRED"
       THEN /\ wd' = [wd EXCEPT ![w].state = "HELD", ![w].held = TRUE]
            /\ lease' = ReleasedWith(w, k)
       ELSE UNCHANGED << wd, lease >>
  /\ UNCHANGED ledger

\* AMBIGUOUS, or a proof for a withdrawal that does not wait for one: recorded,
\* and nothing moves.  A withdrawal in any other state throws, to the same effect.
ReconcileOtherwise(w, k) ==
  \E phase \in Phases :
    /\ Observed(w, k, phase)
    /\ phase = "CONFIRMED" => wd[w].state # "RECONCILE_REQUIRED"
    /\ phase = "NONPAYMENT" => wd[w].state \notin { "RECONCILE_REQUIRED", "HELD", "QUEUED" }
    /\ UNCHANGED << wd, ledger, nonpayment, lease >>

-----------------------------------------------------------------------------

LeaseExpires ==
  /\ Active(lease)
  /\ lease' = Expired(lease)
  /\ UNCHANGED << rowVars, attempts, chain, answered >>

OfficeStep(w) ==
  /\ DecideStep(w) \/ RelayStep(w)
  /\ UNCHANGED << lease, attempts, chain, answered >>

Dispatch(w) ==
  FailBeforeBroadcast(w) \/ BroadcastUnknown(w) \/ BroadcastConfirmed(w)

ReconcileStep(w) ==
  \E k \in DOMAIN attempts[w] :
    ReconcilePaid(w, k) \/ ReconcileUnpaid(w, k) \/ ReconcileOtherwise(w, k)

FakeNext ==
  \/ \E w \in Ids :
       \/ OfficeStep(w) \/ PauseDispatch(w) \/ Dispatch(w) \/ ReconcileStep(w)
       \/ Complete(w) \/ AnswerLost(w)
  \/ LeaseExpires

FakeSpec == FakeInit /\ [][FakeNext]_vars

-----------------------------------------------------------------------------
(* Properties.                                                             *)

\* The reservation is given back only when no attempt of the withdrawal was
\* paid or can still turn out to be: unknown outcomes keep the money reserved.
ReleasedIsNonpayment ==
  \A w \in Ids : wd[w].released =>
    \A k \in DOMAIN chain[w] : chain[w][k] \in { "FAILED", "NONPAYMENT" }

\* A withdrawal is confirmed and settled together, for the one attempt of it
\* the chain paid; no withdrawal has two attempts that were paid or may be.
PaidOnceAndSettled ==
  \A w \in Ids :
    /\ wd[w].state = "CONFIRMED" => \E k \in DOMAIN chain[w] : chain[w][k] = "CONFIRMED"
    /\ wd[w].state = "CONFIRMED" <=> wd[w].settled
    /\ Cardinality({ k \in DOMAIN chain[w] : chain[w][k] # "FAILED" }) <= 1

\* The reconcile flag, the durable non-payment row and the chain agree, and a
\* withdrawal so held is never dispatched again.
HeldByProof ==
  \A w \in Ids :
    /\ wd[w].held => wd[w].state \in { "HELD", "REJECTED" } /\ nonpayment[w] # {}
    /\ \A k \in nonpayment[w] : chain[w][k] = "NONPAYMENT"

\* One payout at a time on the wallet, however leases expire: at most one
\* withdrawal has possibly-broadcast work that is not resolved.
OneUnresolved ==
  Cardinality({ w \in Ids : \E k \in DOMAIN attempts[w] :
                  Unresolved(wd[w], attempts[w], k, nonpayment[w]) }) <= 1

=============================================================================
