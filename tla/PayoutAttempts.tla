--------------------------- MODULE PayoutAttempts ---------------------------
(***************************************************************************)
(* Rows of withdrawal_attempts, as operators: attempts.ts, the predicates   *)
(* of broadcast-gate.ts and the query of hot-wallet-dispatch-lease.ts that  *)
(* finds possibly-broadcast work.  The attempts of one withdrawal are a     *)
(* sequence: attempt_number is the position.  The immutable intent of an    *)
(* attempt is abstracted to the fencing token and the wallet seqno it was   *)
(* created with; its query_id is its position.                              *)
(***************************************************************************)
EXTENDS Integers, Sequences, FiniteSets

Results ==
  { "PENDING", "BROADCASTED", "FAILED_PRE_BROADCAST", "UNKNOWN", "RECONCILE_REQUIRED" }

\* started and submitted: broadcast_started_at and broadcast_submitted_at are
\* set; boc: the signed external message is persisted.
Attempt == [ result    : Results,
             started   : BOOLEAN,
             submitted : BOOLEAN,
             boc       : BOOLEAN,
             fence     : Nat,
             seqno     : Nat ]

NewAttempt(fence, seqno) ==
  [ result |-> "PENDING", started |-> FALSE, submitted |-> FALSE, boc |-> FALSE,
    fence |-> fence, seqno |-> seqno ]

LiveResults == { "PENDING", "UNKNOWN", "RECONCILE_REQUIRED" }

\* The checks of createWithdrawalAttempt behind the fence: no live attempt, and
\* after a broadcast a new one only for a withdrawal that is back in QUEUED.
AttemptAllowed(state, as) ==
  /\ \A k \in DOMAIN as : as[k].result \notin LiveResults
  /\ (as # << >> /\ as[Len(as)].result # "FAILED_PRE_BROADCAST") => state = "QUEUED"

\* assertBlindResendForbidden: nothing was submitted under this attempt, and
\* nothing is known to be ambiguous.
Unsent(a) ==
  /\ ~a.submitted
  /\ a.result \notin { "BROADCASTED", "UNKNOWN", "RECONCILE_REQUIRED" }

\* The partial unique index withdrawal_attempts_one_active_idx: an UPDATE that
\* would make a second attempt live fails.
OneLive(as) == Cardinality({ k \in DOMAIN as : as[k].result \in LiveResults }) <= 1

\* persistPreBroadcastEvidence.
WithBoc(a) == [ a EXCEPT !.boc = TRUE ]

\* markBroadcastSubmitted.
Submitted(a, result) ==
  [ a EXCEPT !.result = result, !.submitted = TRUE, !.started = TRUE ]

\* updateAttemptBroadcastState to FAILED_PRE_BROADCAST: a CHECK constraint of the
\* table refuses it once the broadcast has started, and the transaction fails.
MayFailPre(a) == ~a.started

\* No statement of the code sets withdrawal_attempts.settled_at.
SettledAt(a) == FALSE

UnresolvedResults == { "UNKNOWN", "RECONCILE_REQUIRED", "BROADCASTED" }

UnresolvedStates ==
  { "BROADCASTING", "BROADCASTED", "CONFIRMING", "RECONCILE_REQUIRED" }

\* hasUnresolvedPossiblyBroadcastWork, for attempt k of a withdrawal with this
\* row: it may have been broadcast, and neither a DEFINITIVE_NONPAYMENT row nor
\* a settlement resolves it.
Unresolved(row, as, k, nonpaid) ==
  /\ as[k].result # "FAILED_PRE_BROADCAST"
  /\ \/ as[k].submitted
     \/ as[k].result \in UnresolvedResults
     \/ row.state \in UnresolvedStates
  /\ k \notin nonpaid
  /\ ~(row.state = "CONFIRMED" /\ row.settled /\ SettledAt(as[k]))

=============================================================================
