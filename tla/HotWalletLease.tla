--------------------------- MODULE HotWalletLease ---------------------------
(***************************************************************************)
(* The dispatch lease of one hot wallet, as operators on its database row: *)
(* packages/withdrawals/src/hot-wallet-dispatch-lease.ts.  The lease is     *)
(* owned by a withdrawal, not by the process working on it; its fencing     *)
(* token grows only when the owner changes or after a release.  Time is     *)
(* abstracted to the flag expired.                                          *)
(***************************************************************************)
EXTENDS Integers

CONSTANTS
  Owners,  \* owner identities, one per withdrawal
  NoOwner  \* there is no lease row yet

ASSUME OwnersAssumption == NoOwner \notin Owners

\* A row of hot_wallet_dispatch_leases; the token is 0 while there is no row.
Lease == [ owner    : Owners \cup { NoOwner },
           token    : Nat,
           expired  : BOOLEAN,
           released : BOOLEAN ]

NoLease == [ owner |-> NoOwner, token |-> 0, expired |-> FALSE, released |-> FALSE ]

Active(l) == l.owner # NoOwner /\ ~l.released /\ ~l.expired

\* Same-owner renewal, also of an expired lease: the token is STABLE.
Renewable(l, o) == l.owner = o /\ ~l.released

Renewed(l) == [ l EXCEPT !.expired = FALSE ]

\* Mutant: takeover without the check for possibly-broadcast work.
TakeableBlindly(l, o, unresolvedByOthers) == ~Active(l) /\ ~Renewable(l, o)

\* A missing, released or expired lease may change hands, unless another owner
\* has possibly-broadcast work on the wallet that is not resolved.
Takeable(l, o, unresolvedByOthers) ==
  /\ ~Active(l) /\ ~Renewable(l, o)
  /\ ~unresolvedByOthers

Taken(l, o) ==
  [ owner |-> o, token |-> l.token + 1, expired |-> FALSE, released |-> FALSE ]

\* acquireHotWalletDispatchLease answers ACQUIRED; otherwise it answers BUSY or
\* BLOCKED_UNRESOLVED and leaves the row alone.
CanAcquire(l, o, unresolvedByOthers) ==
  Renewable(l, o) \/ Takeable(l, o, unresolvedByOthers)

Acquired(l, o) == IF Renewable(l, o) THEN Renewed(l) ELSE Taken(l, o)

\* assertHotWalletDispatchFence.
FenceHolds(l, o, token) == Active(l) /\ l.owner = o /\ l.token = token

\* releaseHotWalletDispatchLease matches owner and token and is silent when no
\* row matches; an expired lease can still be released.
ReleasedBy(l, o, token) ==
  IF l.owner = o /\ l.token = token THEN [ l EXCEPT !.released = TRUE ] ELSE l

\* The clock passes expires_at.
Expired(l) == [ l EXCEPT !.expired = TRUE ]

=============================================================================
