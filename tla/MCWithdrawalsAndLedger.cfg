\* Three withdrawals of one user without a payout pipeline; nine commands of two
\* ledger sessions.
SPECIFICATION MCSpec
CONSTANTS
  w1 = w1
  w2 = w2
  w3 = w3
  u1 = u1
  Ids = {w1, w2, w3}
  Users = {u1}
  Owner <- MCOwner
  Gross <- MCGross
  Fee <- MCFee
  Deposit <- MCDeposit
  Keys = {k1, k2}
  NoKey = NoKey
  DecisionStates = {"MANUAL_REVIEW", "HELD", "APPROVED", "REJECTED"}
  Tags = {t1, t2, t3}
  Sessions = {s1, s2}
  Accounts = {1, 2, 3}
  Protected = {2, 3}
  Commands <- MCCommands
  Normal <- MCNormal
  Key <- MCKey
  Ref <- MCRef
  Debit <- MCDebit
  Reverses <- MCReverses
  NoCommand = none
  MaxTime = 1
  fund = fund
  spendA = spendA
  spendB = spendB
  changedA = changedA
  retryA = retryA
  undoA = undoA
  undoTwice = undoTwice
  falseUndo = falseUndo
  skewed = skewed
  none = none
SYMMETRY Interchangeable
INVARIANTS
  MoneyAccounted
  ReservationMatchesState
  ApprovalReachesWorkflow
  ProjectionIsHistory
  PostedOnce
  NeverOverdrawn
  NoDeadlock
PROPERTIES
  PromiseKept
\* Every quote may be cancelled or expired and every decision taken.
CHECK_DEADLOCK FALSE
