--------------------------- MODULE PayoutPromise ---------------------------
(***************************************************************************)
(* What the withdrawal engine promises about money, without saying how: the *)
(* gross amount of a withdrawal is reserved once; after that either it is   *)
(* given back, or the net amount is paid on the chain and then, once, the   *)
(* reservation is spent.  The books move with these steps and with no other.*)
(* Withdrawals and RealPayout are shown to implement this specification.    *)
(***************************************************************************)
EXTENDS Integers

CONSTANTS Ids, Users, Owner, Gross, Fee

VARIABLES
  fate,  \* fate[w]: what has become of withdrawal w's money
  books  \* the balances of the ledger accounts

Fates == { "none", "reserved", "returned", "paid", "settled" }

Init == fate \in [Ids -> { "none", "reserved" }]

Becomes(w, from, to) == fate[w] = from /\ fate' = [fate EXCEPT ![w] = to]

Affordable(w) == books.available[Owner[w]] >= Gross[w]

Reserve(w) ==
  /\ Becomes(w, "none", "reserved")
  /\ Affordable(w)
  /\ books' = [books EXCEPT !.available[Owner[w]] = @ - Gross[w],
                            !.reserved[Owner[w]] = @ + Gross[w]]

\* A blocked account: the reservation is given back as it is made.
Refuse(w) ==
  /\ Becomes(w, "none", "returned")
  /\ Affordable(w)
  /\ UNCHANGED books

Return(w) ==
  /\ Becomes(w, "reserved", "returned")
  /\ books' = [books EXCEPT !.reserved[Owner[w]] = @ - Gross[w],
                            !.available[Owner[w]] = @ + Gross[w]]

Pay(w) ==
  /\ Becomes(w, "reserved", "paid")
  /\ UNCHANGED books

\* The user's gross is spent: the net left the hot wallet, the fee is revenue.
Settle(w) ==
  /\ Becomes(w, "paid", "settled")
  /\ books' = [books EXCEPT !.reserved[Owner[w]] = @ - Gross[w],
                            !.hot = @ - (Gross[w] - Fee[w]),
                            !.fees = @ + Fee[w]]

Next == \E w \in Ids : Reserve(w) \/ Refuse(w) \/ Return(w) \/ Pay(w) \/ Settle(w)

Spec == Init /\ [][Next]_<< fate, books >>

=============================================================================
