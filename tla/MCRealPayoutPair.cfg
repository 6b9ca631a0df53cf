\* Two withdrawals; a run that Temporal gives up never goes on.
SPECIFICATION PayoutSpec
CONSTANTS
  u1 = u1
  Ids = {w1, w2}
  Users = {u1}
  Owner <- MCOwner
  Gross <- MCGross
  Fee <- MCFee
  Deposit <- MCDeposit
  Keys = {k1, k2}
  NoKey = NoKey
  DecisionStates = {"MANUAL_REVIEW"}
  Tags = {t1}
  Runs = {r1, r2}
  NoRun = NoRun
  NoOwner = NoOwner
  Zombies = FALSE
  MaxToken = 3
  MaxAttempts = 2
  Executed = 0
SYMMETRY Alike
INVARIANTS
  NoBlindResend
PROPERTIES
  LeaseRulesKept
\* A workflow completes, and nothing more happens to its withdrawal.
CHECK_DEADLOCK FALSE
