\* Two withdrawals on one wallet; one message among other traffic, of which
\* TonCenter shows one transaction an account.
SPECIFICATION MCSpec
CONSTANTS
  u1 = u1
  Ids = {w1, w2}
  Users = {u1}
  Owner <- MCOwner
  Gross <- MCGross
  Fee <- MCFee
  Deposit <- MCDeposit
  Keys = {k1, k2}
  NoKey = NoKey
  DecisionStates = {"MANUAL_REVIEW", "APPROVED", "FAILED_PRE_BROADCAST", "HELD"}
  Tags = {t1, t2}
  NoOwner = NoOwner
  MaxToken = 3
  MaxAttempts = 2
  Messages = {m1}
  Foreign = Foreign
  RecentLimit = 1
  MaxEvents = 4
SYMMETRY Alike
INVARIANTS
  ReleasedIsNonpayment
  PaidOnceAndSettled
  ProofIsDelivered
  EmptyMeansUnseen
\* Workflows complete, nothing more happens to their withdrawals, and transactions
\* come to an end.
CHECK_DEADLOCK FALSE
