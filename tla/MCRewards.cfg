SPECIFICATION RewardSpec
CONSTANTS
  Sessions = { p1, p2 }
  Users = { ann, bob }
  Sources = { s1, s2 }
  Versions = { v1, v2 }
  BaseBudgets = { b1, b2 }
  Memberships = { m1, m2, m3 }
  BonusBudgets = { plan, all }
  Limits = { spend, bonusSpend }
  Keys = { k1, k2 }
  Binding <- MCBinding
  Family <- MCFamily
  Terms <- MCTerms
  Scope <- MCScope
  Country <- MCCountry
  Provider = simulated
  eu = eu
  Holder <- MCHolder
  Bps <- MCBps
  BonusFor <- MCBonusFor
  UserCap <- MCUserCap
  LimitOn <- MCLimitOn
  Days <- MCDays
  Capacity <- MCCapacity
  BpsScale = 4
  Mille = 1
  Forever = 9
  None = None
  DayLength = 2
  QuoteTtl = 1
  Hold = 1
  MaxNow = 2
  MaxChanges = 2
  s1 = s1
  s2 = s2
  ann = ann
  bob = bob
  m2 = m2
  m3 = m3
  m1 = m1
  b1 = b1
  plan = plan
  all = all
  spend = spend
  bonusSpend = bonusSpend
  v1 = v1
  v2 = v2

SYMMETRY Alike
CHECK_DEADLOCK FALSE
INVARIANTS
  BudgetsAccounted
  UserCapsHold
  StartedStaysFunded
  OwedAsIssued
