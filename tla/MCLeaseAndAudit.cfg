\* Three withdrawals and four lease tokens; two old transactions and a new one, on
\* two pages of two.
SPECIFICATION MCSpec
CONSTANTS
  Owners = {a, b, c}
  NoOwner = NoOwner
  MaxToken = 4
  Keys = {k1, k2}
  NoTransfer = NoTransfer
  Withdrawals = {w1}
  WindowStart = 1
  WindowEnd = 1
  PageSize = 2
  MaxPages = 2
  MaxTime = 1
  OldLength = 2
  MaxLength = 3
SYMMETRY Alike
INVARIANTS
  OneSubmitted
  CoverageIsComplete
  ZeroUnexpectedIsTrue
\* Tokens, transactions and the collection come to an end.
CHECK_DEADLOCK FALSE
