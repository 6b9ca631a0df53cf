\* One withdrawal, one run at a time, and failures that come to an end.
SPECIFICATION FairPayoutSpec
CONSTANTS
  u1 = u1
  Ids = {w1}
  Users = {u1}
  Owner <- MCOwner
  Gross <- MCGross
  Fee <- MCFee
  Deposit <- MCDeposit
  Keys = {k1}
  NoKey = NoKey
  DecisionStates = {"MANUAL_REVIEW"}
  Tags = {t1}
  Runs = {r1}
  NoRun = NoRun
  NoOwner = NoOwner
  Zombies = FALSE
  MaxToken = 3
  MaxAttempts = 2
  Executed = 1
PROPERTIES
  WorkflowCompletes
\* A workflow completes, and nothing more happens to its withdrawal.
CHECK_DEADLOCK FALSE
