\* One withdrawal is paid and settled.
SPECIFICATION PayoutSpec
CONSTANTS
  u1 = u1
  Ids = {w1}
  Users = {u1}
  Owner <- MCOwner
  Gross <- MCGross
  Fee <- MCFee
  Deposit <- MCDeposit
  Keys = {k1}
  NoKey = NoKey
  DecisionStates = {"MANUAL_REVIEW"}
  Tags = {t1}
  Runs = {r1}
  NoRun = NoRun
  NoOwner = NoOwner
  Zombies = FALSE
  MaxToken = 1
  MaxAttempts = 1
  Executed = 1
SYMMETRY Alike
INVARIANTS
  SettledIsResolved
\* A workflow completes, and nothing more happens to its withdrawal.
CHECK_DEADLOCK FALSE
