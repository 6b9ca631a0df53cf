\* Three requests and four sessions of a user; a user with three challenges for
\* two addresses; two users, two codes and three grants.
SPECIFICATION AccountsSpec
CONSTANTS
  u1 = u1
  u2 = u2
  g1 = g1
  g2 = g2
  g3 = g3
  k1 = k1
  k2 = k2
  Users = {u1}
  Sids = {s1, s2, s3, s4}
  Workers = {w1, w2, w3}
  WalletUsers = {u1}
  Addresses = {a, b}
  NoAddress = NoAddress
  Nonces = {n1, n2, n3}
  Ttl = 2
  Cooldown = 2
  MaxChanges = 2
  MaxClock = 3
  Members = {u1, u2}
  Codes = {c1, c2}
  Grants = {g1, g2, g3}
  Target <- MCTarget
  KeyOf <- MCKeyOf
  MaxNumber = 4
SYMMETRY Alike
INVARIANTS
  OneLivePerLogin
  CountedLoginsEnd
  CooledDown
  NumbersNeverShared
  GrantedOnce
\* Sessions, challenges, codes and time run out.
CHECK_DEADLOCK FALSE
