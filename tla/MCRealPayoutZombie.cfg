\* One withdrawal, and two runs of its activity that may overlap.
SPECIFICATION PayoutSpec
CONSTANTS
  u1 = u1
  Ids = {w1}
  Users = {u1}
  Owner <- MCOwner
  Gross <- MCGross
  Fee <- MCFee
  Deposit <- MCDeposit
  Keys = {k1}
  NoKey = NoKey
  DecisionStates = {"MANUAL_REVIEW", "APPROVED", "QUEUED", "FAILED_PRE_BROADCAST", "HELD"}
  Tags = {t1, t2}
  Runs = {r1, r2}
  NoRun = NoRun
  NoOwner = NoOwner
  Zombies = TRUE
  MaxToken = 2
  MaxAttempts = 2
  Executed = 0
SYMMETRY Alike
INVARIANTS
  PaidAtMostOnce
  ConfirmedIsPaid
  ReleasedIsNeverPaid
PROPERTIES
  PayoutPromiseKept
\* A workflow completes, and nothing more happens to its withdrawal.
CHECK_DEADLOCK FALSE
