----------------------- MODULE MCWithdrawalsAndLedger -----------------------
(***************************************************************************)
(* For TLC: the withdrawal rows, whose postings are single steps, and the   *)
(* ledger, which makes a posting of many.  The two share no variable, so a  *)
(* behaviour here exercises one, chosen at the start, and leaves the other  *)
(* at rest.                                                                 *)
(*                                                                          *)
(* One user asks for three payouts he cannot afford together (2 + 1 + 2     *)
(* against a deposit of 3) with two idempotency keys, so both refusals      *)
(* occur, and the first two reservations can be open at once.               *)
(*                                                                          *)
(* Two sessions post on three accounts: a grant that funds the bucket; two  *)
(* spends that do not both fit, one of them again under its key with        *)
(* another amount and again under another key; two reversals of it and a    *)
(* false one; and a command that does not balance.                          *)
(***************************************************************************)
EXTENDS Withdrawals, LedgerPosting, TLC

CONSTANTS
  w1, w2, w3, u1,
  fund, spendA, spendB, changedA, retryA, undoA, undoTwice, falseUndo, skewed, none

VARIABLE part

MCOwner == [w \in Ids |-> u1]
MCGross == (w1 :> 2) @@ (w2 :> 1) @@ (w3 :> 2)
MCFee == (w1 :> 1) @@ (w2 :> 0) @@ (w3 :> 0)
MCDeposit == (u1 :> 3)

Expense == 1
Available == 2
Reserved == 3

Move(debited, credited, n) ==
  [a \in 1 .. 3 |-> IF a = debited THEN n ELSE IF a = credited THEN - n ELSE 0]

MCCommands ==
  { fund, spendA, spendB, changedA, retryA, undoA, undoTwice, falseUndo, skewed }

MCNormal == << 1, -1, -1 >>

MCDebit == [c \in MCCommands |->
  CASE c = fund -> Move(Expense, Available, 2)
    [] c \in { spendA, spendB, retryA } -> Move(Available, Reserved, 2)
    [] c = changedA -> Move(Available, Reserved, 1)
    [] c \in { undoA, undoTwice } -> Move(Reserved, Available, 2)
    [] c = falseUndo -> Move(Reserved, Available, 1)
    [] c = skewed -> [Move(Expense, Available, 1) EXCEPT ![Expense] = 2]]

MCKey == [c \in MCCommands |-> IF c = changedA THEN spendA ELSE c]

MCRef == [c \in MCCommands |-> IF c \in { changedA, retryA } THEN spendA ELSE c]

MCReverses == [c \in MCCommands |-> IF c \in { undoA, undoTwice, falseUndo } THEN spendA ELSE none]

MCInit == part \in { "rows", "ledger" } /\ Init /\ LedgerInit

MCNext ==
  \/ part = "rows" /\ Next /\ UNCHANGED << part, ledgerVars >>
  \/ part = "ledger" /\ LedgerNext /\ UNCHANGED << part, rowVars >>

MCSpec == MCInit /\ [][MCNext]_<< part, rowVars, ledgerVars >>

Interchangeable == Permutations(Keys) \cup Permutations(Tags) \cup Permutations(Sessions)

=============================================================================
