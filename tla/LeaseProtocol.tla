--------------------------- MODULE LeaseProtocol ---------------------------
(***************************************************************************)
(* How withdrawals share one hot wallet: the dispatch lease, the fencing    *)
(* token an attempt is created with, and the check for possibly-broadcast   *)
(* work (hot-wallet-dispatch-lease.ts, and the places of attempts.ts and    *)
(* real-payout-pipeline.ts that use it).  This is the part of RealPayout    *)
(* that keeps the wallet to one payout at a time, without the rest of the   *)
(* pipeline; RealPayout is shown to implement it.                           *)
(***************************************************************************)
EXTENDS HotWalletLease

CONSTANT MaxToken \* bound on the fencing tokens handed out

ASSUME MaxTokenAssumption == MaxToken \in Nat

VARIABLES
  lease,      \* the row of hot_wallet_dispatch_leases
  fences,     \* << owner, token >>: the fences the attempts were created with
  unresolved, \* owners with possibly-broadcast work that is not resolved
  submitted   \* those of them that crossed broadcast_submitted_at

vars == << lease, fences, unresolved, submitted >>

TypeOK ==
  /\ lease \in Lease
  /\ fences \subseteq Owners \X Nat
  /\ unresolved \subseteq Owners
  /\ submitted \subseteq Owners

Init ==
  /\ lease = NoLease
  /\ fences = {}
  /\ unresolved = {}
  /\ submitted = {}

-----------------------------------------------------------------------------

BlockedFor(o) == unresolved \ { o } # {}

\* acquireHotWalletDispatchLease answers ACQUIRED.
Acquire(o) ==
  /\ CanAcquire(lease, o, BlockedFor(o))
  /\ Acquired(lease, o).token <= MaxToken
  /\ lease' = Acquired(lease, o)
  /\ UNCHANGED << fences, unresolved, submitted >>

\* createWithdrawalAttempt under the fence: the attempt keeps the token.
CreateAttempt(o) ==
  /\ FenceHolds(lease, o, lease.token)
  /\ fences' = fences \cup { << o, lease.token >> }
  /\ UNCHANGED << lease, unresolved, submitted >>

\* The signed message is persisted and the withdrawal leaves SIGNING.  A resume
\* does this without asking for the fence, so nobody's lease is required here.
PersistMessage(o) ==
  /\ \E f \in fences : f[1] = o
  /\ unresolved' = unresolved \cup { o }
  /\ UNCHANGED << lease, fences, submitted >>

\* markBroadcastSubmitted after assertHotWalletDispatchFence.
Submit(o, t) ==
  /\ << o, t >> \in fences
  /\ FenceHolds(lease, o, t)
  /\ unresolved' = unresolved \cup { o }
  /\ submitted' = submitted \cup { o }
  /\ UNCHANGED << lease, fences >>

\* The resume acquires again and submits in the same transaction, if that gave
\* it the token of its attempt.
SubmitOnResume(o, t) ==
  /\ << o, t >> \in fences
  /\ CanAcquire(lease, o, BlockedFor(o))
  /\ Acquired(lease, o).token = t
  /\ lease' = Acquired(lease, o)
  /\ unresolved' = unresolved \cup { o }
  /\ submitted' = submitted \cup { o }
  /\ UNCHANGED fences

\* The attempt failed before the broadcast, or a DEFINITIVE_NONPAYMENT row or a
\* settlement resolves it.
Resolve(o) ==
  /\ o \in unresolved
  /\ unresolved' = unresolved \ { o }
  /\ submitted' = submitted \ { o }
  /\ UNCHANGED << lease, fences >>

\* releaseHotWalletDispatchLease.
Release(o, t) ==
  /\ lease' = ReleasedBy(lease, o, t)
  /\ UNCHANGED << fences, unresolved, submitted >>

LeaseExpires ==
  /\ Active(lease)
  /\ lease' = Expired(lease)
  /\ UNCHANGED << fences, unresolved, submitted >>

Tokens == 1 .. MaxToken

Next ==
  \/ \E o \in Owners :
       \/ Acquire(o) \/ CreateAttempt(o) \/ PersistMessage(o) \/ Resolve(o)
       \/ \E t \in Tokens : Submit(o, t) \/ SubmitOnResume(o, t) \/ Release(o, t)
  \/ LeaseExpires

Spec == Init /\ [][Next]_vars

-----------------------------------------------------------------------------
(* Properties.                                                             *)

\* One payout at a time: two owners never both have submitted work that is not
\* resolved, though a lease may expire or be released while work is unresolved.
OneSubmitted == \A o, p \in submitted : o = p

\* A token names one owner for ever: fences of different owners never agree.
FenceNamesOwner ==
  \A f, g \in fences : f[2] = g[2] => f[1] = g[1]

\* Only the holder of the latest fence submits: whoever is added to submitted
\* owns an active lease whose token one of his own attempts carries.
OnlyTheFencedSubmit ==
  [][\A o \in submitted' \ submitted :
       /\ Active(lease') /\ lease'.owner = o
       /\ << o, lease'.token >> \in fences]_vars

\* Tokens only grow, and grow whenever the lease changes hands or is taken
\* again after a release.
TokenGrows ==
  [][/\ lease'.token >= lease.token
     /\ (lease'.owner # lease.owner \/ (lease.released /\ ~lease'.released)) =>
          lease'.token > lease.token]_vars

-----------------------------------------------------------------------------
(* The inductive invariant.                                                *)

\* Submitted work is unresolved and belongs to the owner of the lease: nobody
\* else could take the lease since.
SubmittedOwnsLease ==
  \A o \in submitted : o \in unresolved /\ lease.owner = o

\* No fence is newer than the lease, and one with its token is its owner's.
FencesFollowLease ==
  \A f \in fences :
    /\ f[2] <= lease.token
    /\ f[2] = lease.token => f[1] = lease.owner

IInv == TypeOK /\ SubmittedOwnsLease /\ FencesFollowLease /\ FenceNamesOwner

=============================================================================
