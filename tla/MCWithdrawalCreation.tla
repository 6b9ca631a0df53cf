------------------------ MODULE MCWithdrawalCreation ------------------------
(***************************************************************************)
(* One user with two quotes under the first limit rule and another with one *)
(* under the second; three hours, the last of them on the next UTC day.     *)
(***************************************************************************)
EXTENDS WithdrawalCreation, TLC

CONSTANTS q1, q2, q3, ann, bob

MCOwner == [q \in Quotes |-> IF q = q3 THEN bob ELSE ann]

MCGross == [q \in Quotes |-> IF q = q1 THEN 2 ELSE 1]

Rule(userHour, userDay, walletHour, walletDay) ==
  [ USER_HOURLY |-> userHour, USER_UTC_DAY |-> userDay,
    HOT_WALLET_HOURLY |-> walletHour, HOT_WALLET_UTC_DAY |-> walletDay ]

MCCap == [q \in Quotes |-> IF q = q3 THEN Rule(1, 1, 2, 3) ELSE Rule(2, 3, 3, 3)]

Alike == Permutations(Sessions) \cup Permutations(Keys)

=============================================================================
