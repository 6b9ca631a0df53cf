-------------------------- MODULE WithdrawalStates --------------------------
(***************************************************************************)
(* The state machine of one withdrawal, as transition data only:           *)
(* packages/withdrawals/src/state-machine.ts.  Every module that moves a   *)
(* withdrawal takes its transitions from here, so a transition the code    *)
(* refuses can never be a step of a model.                                 *)
(***************************************************************************)

\* WithdrawalState (state-machine.ts): the values of withdrawals.state.
States ==
  { "REQUESTED", "RISK_CHECK", "MANUAL_REVIEW", "APPROVED", "QUEUED", "SIGNING",
    "BROADCASTING", "BROADCASTED", "CONFIRMING", "CONFIRMED", "HELD",
    "FAILED_PRE_BROADCAST", "RECONCILE_REQUIRED", "REJECTED" }

\* isTerminalState.
TerminalStates == { "CONFIRMED", "REJECTED" }

\* ALLOWED: the successors the code lists for each state.
Successors(s) ==
  CASE s = "REQUESTED"            -> { "RISK_CHECK" }
    [] s = "RISK_CHECK"           -> { "MANUAL_REVIEW", "HELD", "REJECTED" }
    [] s = "MANUAL_REVIEW"        -> { "APPROVED", "HELD", "REJECTED" }
    [] s = "APPROVED"             -> { "QUEUED", "HELD" }
    [] s = "HELD"                 -> { "MANUAL_REVIEW", "APPROVED", "REJECTED",
                                       "RECONCILE_REQUIRED" }
    [] s = "QUEUED"               -> { "SIGNING", "HELD" }
    [] s = "SIGNING"              -> { "BROADCASTING", "FAILED_PRE_BROADCAST" }
    [] s = "FAILED_PRE_BROADCAST" -> { "QUEUED", "HELD", "REJECTED" }
    [] s = "BROADCASTING"         -> { "BROADCASTED", "RECONCILE_REQUIRED" }
    [] s = "BROADCASTED"          -> { "CONFIRMING", "RECONCILE_REQUIRED" }
    [] s = "CONFIRMING"           -> { "CONFIRMED", "RECONCILE_REQUIRED" }
    [] s = "RECONCILE_REQUIRED"   -> { "CONFIRMED", "QUEUED", "HELD" }
    [] OTHER                      -> { }

\* assertTransitionAllowed: besides the table, a withdrawal held by a
\* reconciliation may not be approved, and may be rejected only with the
\* definitive-nonpayment acknowledgment.
TransitionAllowed(from, to, heldFromReconcile, definitiveNonpayment) ==
  /\ to \in Successors(from)
  /\ (from = "HELD" /\ heldFromReconcile) =>
        /\ to # "APPROVED"
        /\ to = "REJECTED" => definitiveNonpayment

=============================================================================
