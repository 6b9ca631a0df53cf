SPECIFICATION Spec
CONSTANTS
  Sessions = { s1, s2 }
  Quotes = { q1, q2, q3 }
  Keys = { k1, k2 }
  Owner <- MCOwner
  Gross <- MCGross
  Cap <- MCCap
  HotWallet = wallet
  NoQuote = NoQuote
  NoKey = NoKey
  HoursPerDay = 2
  MaxHour = 2
  q1 = q1
  q2 = q2
  q3 = q3
  ann = ann
  bob = bob
SYMMETRY Alike
INVARIANTS
  CapsRespected
  OneWithdrawalEach
  NoCircularWait
