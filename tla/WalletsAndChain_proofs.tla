----------------------- MODULE WalletsAndChain_proofs -----------------------
(***************************************************************************)
(* Theorems about the wallets and the chain: the lease of the hot wallet,  *)
(* what two providers prove of a payout, the audit of a campaign, and the  *)
(* wallets of the users.                                                   *)
(***************************************************************************)
EXTENDS OutboxRelay, LeaseProtocol, PayoutProof, ChainHistory, WalletOwnership, FiniteLemmas

-----------------------------------------------------------------------------
(***************************************************************************)
(* Theorems about OutboxRelay, for any number of events, workers, crashes   *)
(* and outages, any batch and any range of the attempts: what the relay     *)
(* marks was started before.                                                *)
(***************************************************************************)

Batch == [ claimed : SUBSET Events, dispatched : SUBSET Events, retried : SUBSET Events ]

\* What is claimed stays pending and belongs to one transaction until that ends,
\* and what a transaction is about to mark has its workflow.
RelayInv ==
  /\ event \in [Events -> [ status : Statuses, attempts : Nat ]]
  /\ batch \in [Relays -> Batch]
  /\ starts \in [Events -> Nat]
  /\ \A p \in Relays :
       /\ batch[p].dispatched \subseteq batch[p].claimed
       /\ \A e \in batch[p].claimed : event[e].status = "PENDING"
       /\ \A e \in batch[p].dispatched : starts[e] > 0
  /\ \A p, q \in Relays : p # q => batch[p].claimed \cap batch[q].claimed = {}

LEMMA RelayStarts == RelayInit => RelayInv /\ Handover!Init
  BY DEF RelayInit, RelayInv, Batch, NoBatch, Statuses, Handover!Init

\* A workflow that is started is started for good.
LEMMA StartedStays ==
  ASSUME starts \in [Events -> Nat], NEW e \in Events
  PROVE  /\ Started(e) \in [Events -> Nat]
         /\ Started(e)[e] > 0
         /\ \A f \in Events : starts[f] > 0 => Started(e)[f] > 0
         /\ { f \in Events : Started(e)[f] > 0 } = { f \in Events : starts[f] > 0 } \cup { e }
  BY DEF Started

LEMMA ClaimStep == ASSUME RelayInv, NEW p \in Relays, Claim(p) PROVE RelayInv'
<1>1. batch[p] = NoBatch
  BY DEF Claim, Busy
<1>2. PICK S \in SUBSET Claimable : batch' = [batch EXCEPT ![p].claimed = S]
  BY DEF Claim
<1>3. S \subseteq Events /\ \A e \in S : event[e].status = "PENDING" /\ e \notin Locked
  BY <1>2 DEF Claimable
<1>4. /\ batch'[p] = [ claimed |-> S, dispatched |-> {}, retried |-> {} ]
      /\ \A q \in Relays : q # p => batch'[q] = batch[q]
      /\ batch' \in [Relays -> Batch]
  <2> DEFINE b == [batch[p] EXCEPT !.claimed = S]
  <2>1. b = [ claimed |-> S, dispatched |-> {}, retried |-> {} ]
    BY <1>1 DEF NoBatch
  <2>2. b \in Batch
    BY <1>3, <2>1 DEF Batch
  <2>3. batch' = [batch EXCEPT ![p] = b]
    BY <1>2
  <2> HIDE DEF b
  <2> QED
    BY <2>1, <2>2, <2>3 DEF RelayInv
<1>5. \A q \in Relays : q # p => S \cap batch[q].claimed = {}
  BY <1>3 DEF Locked
<1> QED
  BY <1>3, <1>4, <1>5 DEF RelayInv, Claim

LEMMA CommitStep ==
  ASSUME RelayInv, NEW p \in Relays, Commit(p)
  PROVE  RelayInv' /\ \E es \in SUBSET Events : Handover!Mark(es)
<1> DEFINE es == batch[p].dispatched
<1>1. /\ batch[p] \in Batch /\ es \subseteq Events /\ es \subseteq batch[p].claimed
      /\ \A e \in batch[p].claimed : event[e].status = "PENDING"
      /\ \A e \in es : starts[e] > 0
  BY DEF RelayInv, Batch
<1>2. ASSUME NEW e \in Events
      PROVE  /\ event'[e] = Written(p, e)
             /\ Written(p, e) \in [ status : Statuses, attempts : Nat ]
             /\ Written(p, e).status = IF e \in es THEN "DISPATCHED" ELSE event[e].status
  BY DEF Commit, Written, RelayInv, Statuses
<1>3. /\ event' \in [Events -> [ status : Statuses, attempts : Nat ]]
      /\ \A e \in Events : event'[e].status = IF e \in es THEN "DISPATCHED" ELSE event[e].status
  BY <1>2 DEF Commit
<1>4. /\ batch'[p] = NoBatch
      /\ \A q \in Relays : q # p => batch'[q] = batch[q]
      /\ batch' \in [Relays -> Batch] /\ starts' = starts
  BY DEF RelayInv, Commit, NoBatch, Batch
<1>5. \A q \in Relays : q # p => batch[q].claimed \cap es = {}
  BY <1>1 DEF RelayInv
<1>6. \A q \in Relays : batch[q].claimed \subseteq Events
  BY DEF RelayInv, Batch
<1> HIDE DEF es
<1>7. RelayInv'
  <2>1. NoBatch.claimed = {} /\ NoBatch.dispatched = {}
    BY DEF NoBatch
  <2>2. ASSUME NEW q \in Relays
        PROVE  /\ batch'[q].dispatched \subseteq batch'[q].claimed
               /\ \A e \in batch'[q].claimed : event'[e].status = "PENDING"
               /\ \A e \in batch'[q].dispatched : starts'[e] > 0
    BY <1>3, <1>4, <1>5, <1>6, <2>1 DEF RelayInv
  <2>3. \A q, r \in Relays : q # r => batch'[q].claimed \cap batch'[r].claimed = {}
    BY <1>4, <2>1 DEF RelayInv
  <2> QED
    BY <1>3, <1>4, <2>2, <2>3 DEF RelayInv
<1>8. \E marked \in SUBSET Events : Handover!Mark(marked)
  BY <1>1, <1>3, <1>4 DEF Handover!Mark
<1> QED
  BY <1>7, <1>8

\* A start, accepted or refused, and what p's transaction will write of it.
LEMMA StartStep ==
  ASSUME RelayInv, NEW p \in Relays, NEW e \in Events, Turn(p, e),
         starts' = starts \/ starts' = Started(e), event' = event,
         \/ starts' = Started(e) /\ batch' = [batch EXCEPT ![p].dispatched = @ \cup { e }]
         \/ batch' = [batch EXCEPT ![p].retried = @ \cup { e }]
         \/ batch' = [batch EXCEPT ![p] = NoBatch]
  PROVE  RelayInv' /\ [Handover!Next]_(Handover!vars)
<1>1. /\ batch[p] \in Batch /\ e \in batch[p].claimed /\ event[e].status = "PENDING"
      /\ batch[p].dispatched \subseteq batch[p].claimed
  BY DEF RelayInv, Turn, Left
<1>2. /\ starts' \in [Events -> Nat] /\ \A f \in Events : starts[f] > 0 => starts'[f] > 0
      /\ starts' = Started(e) => starts'[e] > 0
      /\ \/ starts' = starts
         \/ { f \in Events : starts'[f] > 0 } = { f \in Events : starts[f] > 0 } \cup { e }
  BY StartedStays DEF RelayInv
<1>3. /\ batch' \in [Relays -> Batch]
      /\ \A q \in Relays : q # p => batch'[q] = batch[q]
      /\ batch'[p].claimed \subseteq batch[p].claimed
      /\ batch'[p].dispatched \subseteq batch'[p].claimed
      /\ \A f \in batch'[p].dispatched : f \in batch[p].dispatched \/ starts'[f] > 0
  <2>1. PICK b \in Batch : /\ batch' = [batch EXCEPT ![p] = b]
                          /\ b.claimed \subseteq batch[p].claimed
                          /\ b.dispatched \subseteq b.claimed
                          /\ \A f \in b.dispatched : f \in batch[p].dispatched \/ starts'[f] > 0
    <3>1. CASE starts' = Started(e) /\ batch' = [batch EXCEPT ![p].dispatched = @ \cup { e }]
      <4> DEFINE b == [batch[p] EXCEPT !.dispatched = @ \cup { e }]
      <4>1. b \in Batch /\ b.claimed = batch[p].claimed /\ b.dispatched = batch[p].dispatched \cup { e }
        BY <1>1 DEF Batch
      <4>2. batch' = [batch EXCEPT ![p] = b]
        BY <3>1
      <4> HIDE DEF b
      <4> QED
        BY <1>1, <1>2, <3>1, <4>1, <4>2, ZenonT(30)
    <3>2. CASE batch' = [batch EXCEPT ![p].retried = @ \cup { e }]
      <4> DEFINE b == [batch[p] EXCEPT !.retried = @ \cup { e }]
      <4>1. b \in Batch /\ b.claimed = batch[p].claimed /\ b.dispatched = batch[p].dispatched
        BY <1>1 DEF Batch
      <4>2. batch' = [batch EXCEPT ![p] = b]
        BY <3>2
      <4> HIDE DEF b
      <4> QED
        BY <1>1, <4>1, <4>2
    <3>3. CASE batch' = [batch EXCEPT ![p] = NoBatch]
      <4>1. NoBatch \in Batch /\ NoBatch.claimed = {} /\ NoBatch.dispatched = {}
        BY DEF Batch, NoBatch
      <4> QED
        BY <3>3, <4>1
    <3> QED
      BY <3>1, <3>2, <3>3
  <2> QED
    BY <2>1 DEF RelayInv
<1>4. \A q \in Relays : batch[q] \in Batch /\ batch[q].claimed \subseteq Events
  BY DEF RelayInv, Batch
<1>5. RelayInv'
  BY <1>1, <1>2, <1>3, <1>4 DEF RelayInv
<1>6. CASE starts' = starts
  BY <1>5, <1>6 DEF Handover!vars
<1>7. CASE e \notin { f \in Events : starts[f] > 0 }
           /\ { f \in Events : starts'[f] > 0 } = { f \in Events : starts[f] > 0 } \cup { e }
  BY <1>1, <1>5, <1>7 DEF Handover!Next, Handover!Start
<1>8. CASE e \in { f \in Events : starts[f] > 0 }
  BY <1>2, <1>5, <1>8 DEF Handover!vars
<1> QED
  BY <1>2, <1>5, <1>6, <1>7, <1>8

LEMMA RelayStep ==
  RelayInv /\ [RelayNext]_relayVars => RelayInv' /\ [Handover!Next]_(Handover!vars)
<1> SUFFICES ASSUME RelayInv, [RelayNext]_relayVars
             PROVE  RelayInv' /\ [Handover!Next]_(Handover!vars)
  OBVIOUS
<1>1. ASSUME NEW e \in Events, Approve(e)
      PROVE  RelayInv' /\ [Handover!Next]_(Handover!vars)
  <2>1. /\ event' \in [Events -> [ status : Statuses, attempts : Nat ]]
        /\ event[e].status = "NONE" /\ event'[e].status = "PENDING"
        /\ \A f \in Events : f # e => event'[f] = event[f]
    <3> DEFINE row == [event[e] EXCEPT !.status = "PENDING"]
    <3>1. row \in [ status : Statuses, attempts : Nat ] /\ row.status = "PENDING"
      BY DEF RelayInv, Statuses
    <3>2. event' = [event EXCEPT ![e] = row] /\ event[e].status = "NONE"
      BY <1>1 DEF Approve
    <3> HIDE DEF row
    <3> QED
      BY <3>1, <3>2 DEF RelayInv
  <2>2. batch' = batch /\ starts' = starts /\ \A q \in Relays : batch[q].claimed \subseteq Events
    BY <1>1 DEF RelayInv, Approve, Batch
  <2>3. RelayInv'
    BY <2>1, <2>2 DEF RelayInv
  <2>4. Handover!Append(e)
    BY <2>1, <2>2 DEF Handover!Append
  <2> QED
    BY <1>1, <2>3, <2>4 DEF Handover!Next
<1>2. ASSUME UNCHANGED << event, batch, starts >>
      PROVE  RelayInv' /\ [Handover!Next]_(Handover!vars)
  BY <1>2 DEF RelayInv, Handover!vars
<1>3. ASSUME NEW p \in Relays, Claim(p) \/ Crash(p)
      PROVE  RelayInv' /\ [Handover!Next]_(Handover!vars)
  <2>1. UNCHANGED << event, starts >>
    BY <1>3 DEF Claim, Crash
  <2>2. ASSUME Crash(p) PROVE RelayInv'
    BY <2>2 DEF RelayInv, Crash, NoBatch, Batch
  <2> QED
    BY <1>3, <2>1, <2>2, ClaimStep DEF Handover!vars
<1>4. ASSUME NEW p \in Relays, Commit(p)
      PROVE  RelayInv' /\ [Handover!Next]_(Handover!vars)
  BY <1>4, CommitStep DEF Handover!Next
<1>5. ASSUME NEW p \in Relays, NEW e \in Events,
             StartWorkflow(p, e) \/ Retry(p, e) \/ RetryOverflows(p, e)
      PROVE  RelayInv' /\ [Handover!Next]_(Handover!vars)
  <2>1. /\ Turn(p, e) /\ event' = event
        /\ starts' = starts \/ starts' = Started(e)
        /\ \/ starts' = Started(e) /\ batch' = [batch EXCEPT ![p].dispatched = @ \cup { e }]
           \/ batch' = [batch EXCEPT ![p].retried = @ \cup { e }]
           \/ batch' = [batch EXCEPT ![p] = NoBatch]
    BY <1>5 DEF StartWorkflow, Retry, RetryOverflows, StartFails
  <2> QED
    BY <2>1, StartStep
<1>6. CASE RelayNext
  BY <1>1, <1>2, <1>3, <1>4, <1>5, <1>6
     DEF RelayNext, BatchStep, BackoffEnds, GoesDown, ComesUp
<1>7. CASE UNCHANGED relayVars
  BY <1>2, <1>7 DEF relayVars
<1> QED
  BY <1>6, <1>7

\* The relay implements OutboxHandover: an event is marked after its workflow was
\* started, and no crash, no outage and no start that failed marks it
\* (processWithdrawalApprovedOutboxBatch).
THEOREM EventsAreHandedOver == RelaySpec => HandedOver
<1>1. RelayInit => RelayInv /\ Handover!Init
  BY RelayStarts
<1>2. RelayInv /\ [RelayNext]_relayVars => RelayInv' /\ [Handover!Next]_(Handover!vars)
  BY RelayStep
<1> QED
  BY <1>1, <1>2, PTL DEF RelaySpec, HandedOver, Handover!Spec

-----------------------------------------------------------------------------
(***************************************************************************)
(* Theorems about LeaseProtocol, for any set of owners and any bound on the *)
(* tokens: the inductive invariant, the invariants that follow from it, and *)
(* the two action properties.                                               *)
(***************************************************************************)

(* The lease row.                                                          *)

\* A lease that is acquired is a lease, owned by the one who asked.
LEMMA AcquiredLease ==
  ASSUME NEW l \in Lease, NEW o \in Owners
  PROVE  /\ Acquired(l, o) \in Lease
         /\ Acquired(l, o).owner = o
         /\ Active(Acquired(l, o))
<1>1. CASE Renewable(l, o)
  <2>1. Acquired(l, o) = [l EXCEPT !.expired = FALSE]
    BY <1>1 DEF Acquired, Renewed
  <2>2. l.owner = o /\ ~l.released /\ o # NoOwner
    BY <1>1, OwnersAssumption DEF Renewable
  <2> QED
    BY <2>1, <2>2 DEF Lease, Active
<1>2. CASE ~Renewable(l, o)
  <2>1. Acquired(l, o) = Taken(l, o)
    BY <1>2 DEF Acquired
  <2> QED
    BY <2>1, OwnersAssumption DEF Taken, Lease, Active
<1> QED
  BY <1>1, <1>2

\* The token is kept by the owner who renews, and grows for everybody else; it
\* is kept only while the lease is not released.
LEMMA AcquiredToken ==
  ASSUME NEW l \in Lease, NEW o \in Owners
  PROVE  \/ /\ l.owner = o /\ ~l.released
            /\ Acquired(l, o).token = l.token
         \/ /\ ~(l.owner = o /\ ~l.released)
            /\ Acquired(l, o).token = l.token + 1
  BY DEF Acquired, Renewable, Renewed, Taken, Lease

\* Releasing changes neither owner nor token.
LEMMA ReleasedLease ==
  ASSUME NEW l \in Lease, NEW o \in Owners, NEW t
  PROVE  /\ ReleasedBy(l, o, t) \in Lease
         /\ ReleasedBy(l, o, t).owner = l.owner
         /\ ReleasedBy(l, o, t).token = l.token
         /\ l.released => ReleasedBy(l, o, t).released
  BY DEF ReleasedBy, Lease

\* Nor does the clock.
LEMMA ExpiredLease ==
  ASSUME NEW l \in Lease
  PROVE  /\ Expired(l) \in Lease
         /\ Expired(l).owner = l.owner
         /\ Expired(l).token = l.token
         /\ Expired(l).released = l.released
  BY DEF Expired, Lease

\* Whoever may acquire either owns the lease already or finds no open work of
\* others, and then, by SubmittedOwnsLease, none that was submitted.
LEMMA NobodyElseSubmitted ==
  ASSUME TypeOK, SubmittedOwnsLease,
         NEW o \in Owners, CanAcquire(lease, o, BlockedFor(o))
  PROVE  \A p \in submitted : p = o
  BY DEF TypeOK, SubmittedOwnsLease, CanAcquire, Renewable, Takeable, BlockedFor

-----------------------------------------------------------------------------
(* The inductive invariant.                                                *)

LEMMA LeaseStarts == Init => IInv
  BY DEF Init, IInv, TypeOK, NoLease, Lease, SubmittedOwnsLease, FencesFollowLease,
         FenceNamesOwner

\* A step that acquires the lease for o, and perhaps submits for him under a
\* fence he has, keeps everything but the types of the sets.
LEMMA AcquireKeeps ==
  ASSUME IInv, NEW o \in Owners,
         CanAcquire(lease, o, BlockedFor(o)), lease' = Acquired(lease, o),
         fences' = fences,
         \/ unresolved' = unresolved /\ submitted' = submitted
         \/ unresolved' = unresolved \cup { o } /\ submitted' = submitted \cup { o }
  PROVE  IInv'
<1> USE DEF IInv
<1>1. lease \in Lease /\ lease' \in Lease /\ lease'.owner = o
  BY AcquiredLease DEF TypeOK
<1>2. TypeOK'
  BY <1>1 DEF TypeOK
<1>3. SubmittedOwnsLease'
  BY <1>1, NobodyElseSubmitted DEF SubmittedOwnsLease
<1>4. FencesFollowLease'
  <2> SUFFICES ASSUME NEW f \in fences
               PROVE  f[2] <= lease'.token /\ (f[2] = lease'.token => f[1] = o)
    BY <1>1 DEF FencesFollowLease
  <2>1. f[2] \in Nat /\ lease.token \in Nat /\ f[2] <= lease.token
    BY <1>1 DEF TypeOK, Lease, FencesFollowLease
  <2>2. CASE lease.owner = o /\ lease'.token = lease.token
    BY <2>1, <2>2 DEF FencesFollowLease
  <2>3. CASE lease'.token = lease.token + 1
    BY <2>1, <2>3
  <2> QED
    BY <1>1, <2>2, <2>3, AcquiredToken
<1>5. FenceNamesOwner'
  BY DEF FenceNamesOwner
<1> QED
  BY <1>2, <1>3, <1>4, <1>5

\* A step that leaves owner and token of the lease alone, adds no fence, and
\* adds nothing to submitted keeps the invariant if submitted work stays
\* unresolved.
LEMMA QuietStepKeeps ==
  ASSUME IInv, lease' \in Lease, lease'.owner = lease.owner, lease'.token = lease.token,
         fences' = fences, unresolved' \subseteq Owners,
         submitted' \subseteq submitted, submitted' \subseteq unresolved'
  PROVE  IInv'
  BY DEF IInv, TypeOK, SubmittedOwnsLease, FencesFollowLease, FenceNamesOwner

LEMMA LeaseStepKeeps == IInv /\ [Next]_vars => IInv'
<1> SUFFICES ASSUME IInv, [Next]_vars PROVE IInv'
  OBVIOUS
<1>1. lease \in Lease /\ submitted \subseteq unresolved /\ unresolved \subseteq Owners
  BY DEF IInv, TypeOK, SubmittedOwnsLease
<1>2. ASSUME NEW o \in Owners, Acquire(o) PROVE IInv'
  BY <1>2, AcquireKeeps DEF Acquire
<1>3. ASSUME NEW o \in Owners, CreateAttempt(o) PROVE IInv'
  <2>1. lease.owner = o /\ lease' = lease /\ unresolved' = unresolved
          /\ submitted' = submitted /\ fences' = fences \cup { << o, lease.token >> }
    BY <1>3 DEF CreateAttempt, FenceHolds
  <2>2. TypeOK'
    BY <1>1, <2>1 DEF IInv, TypeOK, Lease
  <2>3. SubmittedOwnsLease'
    BY <2>1 DEF IInv, SubmittedOwnsLease
  <2>4. FencesFollowLease'
    BY <1>1, <2>1 DEF IInv, FencesFollowLease, Lease
  <2>5. FenceNamesOwner'
    BY <2>1 DEF IInv, FencesFollowLease, FenceNamesOwner
  <2> QED
    BY <2>2, <2>3, <2>4, <2>5 DEF IInv
<1>4. ASSUME NEW o \in Owners, PersistMessage(o) PROVE IInv'
  BY <1>1, <1>4, QuietStepKeeps DEF PersistMessage
<1>5. ASSUME NEW o \in Owners, Resolve(o) PROVE IInv'
  BY <1>1, <1>5, QuietStepKeeps DEF Resolve
<1>6. ASSUME NEW o \in Owners, NEW t \in Tokens, Submit(o, t) PROVE IInv'
  <2>1. lease.owner = o /\ lease' = lease /\ fences' = fences
          /\ unresolved' = unresolved \cup { o } /\ submitted' = submitted \cup { o }
    BY <1>6 DEF Submit, FenceHolds
  <2> QED
    BY <1>1, <2>1 DEF IInv, TypeOK, SubmittedOwnsLease, FencesFollowLease, FenceNamesOwner
<1>7. ASSUME NEW o \in Owners, NEW t \in Tokens, SubmitOnResume(o, t) PROVE IInv'
  BY <1>7, AcquireKeeps DEF SubmitOnResume
<1>8. ASSUME NEW o \in Owners, NEW t \in Tokens, Release(o, t) PROVE IInv'
  BY <1>1, <1>8, ReleasedLease, QuietStepKeeps DEF Release
<1>9. CASE LeaseExpires
  BY <1>1, <1>9, ExpiredLease, QuietStepKeeps DEF LeaseExpires
<1>10. CASE UNCHANGED vars
  BY <1>1, <1>10, QuietStepKeeps DEF vars
<1> QED
  BY <1>2, <1>3, <1>4, <1>5, <1>6, <1>7, <1>8, <1>9, <1>10 DEF Next

\* Whatever leases expire, are released or change hands: the lease, the fences
\* and the submitted work stay as IInv says (hot-wallet-dispatch-lease.ts).
THEOREM LeaseInvariant == Spec => []IInv
  BY LeaseStarts, LeaseStepKeeps, PTL DEF Spec

\* The rows keep their types.
THEOREM TypesHold == Spec => []TypeOK
<1>1. IInv => TypeOK
  BY DEF IInv
<1> QED
  BY <1>1, LeaseInvariant, PTL

\* The lease keeps the wallet to one payout at a time: at most one withdrawal
\* has submitted work that is not resolved.
THEOREM OnePayoutAtATime == Spec => []OneSubmitted
<1>1. IInv => OneSubmitted
  BY DEF IInv, SubmittedOwnsLease, OneSubmitted
<1> QED
  BY <1>1, LeaseInvariant, PTL

\* A fencing token names one withdrawal for ever.
THEOREM FencesAreUnique == Spec => []FenceNamesOwner
<1>1. IInv => FenceNamesOwner
  BY DEF IInv
<1> QED
  BY <1>1, LeaseInvariant, PTL

-----------------------------------------------------------------------------
(* The action properties.                                                  *)

LEMMA SubmitStep ==
  ASSUME IInv, [Next]_vars, NEW o \in submitted', o \notin submitted
  PROVE  /\ Active(lease') /\ lease'.owner = o
         /\ << o, lease'.token >> \in fences
<1>1. lease \in Lease
  BY DEF IInv, TypeOK
<1>2. ASSUME NEW p \in Owners, NEW t \in Tokens, Submit(p, t)
      PROVE  Active(lease') /\ lease'.owner = o /\ << o, lease'.token >> \in fences
  <2>1. p = o /\ lease' = lease
    BY <1>2 DEF Submit
  <2> QED
    BY <1>2, <2>1 DEF Submit, FenceHolds
<1>3. ASSUME NEW p \in Owners, NEW t \in Tokens, SubmitOnResume(p, t)
      PROVE  Active(lease') /\ lease'.owner = o /\ << o, lease'.token >> \in fences
  <2>1. p = o /\ lease' = Acquired(lease, p) /\ lease'.token = t /\ << p, t >> \in fences
    BY <1>3 DEF SubmitOnResume
  <2> QED
    BY <1>1, <2>1, AcquiredLease
<1> QED
  BY <1>2, <1>3
     DEF Next, vars, Acquire, CreateAttempt, PersistMessage, Resolve, Release, LeaseExpires

\* Only the withdrawal that owns the active lease, under the token its attempt
\* was created with, crosses broadcast_submitted_at.
THEOREM SubmitUnderFence == Spec => OnlyTheFencedSubmit
<1>1. IInv /\ [Next]_vars =>
        [\A o \in submitted' \ submitted :
           /\ Active(lease') /\ lease'.owner = o
           /\ << o, lease'.token >> \in fences]_vars
  BY SubmitStep
<1> QED
  BY <1>1, LeaseInvariant, PTL DEF Spec, OnlyTheFencedSubmit

\* The fencing token never goes back, and grows when the lease changes hands.
THEOREM TokensGrow == Spec => TokenGrows
<1> DEFINE Grows ==
      /\ lease'.token >= lease.token
      /\ (lease'.owner # lease.owner \/ (lease.released /\ ~lease'.released)) =>
           lease'.token > lease.token
<1>1. ASSUME IInv, [Next]_vars PROVE Grows
  <2>1. lease \in Lease /\ lease.token \in Nat
    BY <1>1 DEF IInv, TypeOK, Lease
  <2>2. ASSUME NEW o \in Owners, lease' = Acquired(lease, o) PROVE Grows
    <3>1. CASE lease.owner = o /\ ~lease.released /\ lease'.token = lease.token
      BY <2>1, <2>2, <3>1, AcquiredLease
    <3>2. CASE lease'.token = lease.token + 1
      BY <2>1, <3>2
    <3> QED
      BY <2>1, <2>2, <3>1, <3>2, AcquiredToken
  <2>3. ASSUME NEW o \in Owners, NEW t \in Tokens, Release(o, t) PROVE Grows
    BY <2>1, <2>3, ReleasedLease DEF Release
  <2>4. CASE LeaseExpires
    BY <2>1, <2>4, ExpiredLease DEF LeaseExpires
  <2>5. CASE lease' = lease
    BY <2>1, <2>5
  <2> QED
    BY <1>1, <2>2, <2>3, <2>4, <2>5
       DEF Next, vars, Acquire, CreateAttempt, PersistMessage, Resolve, Submit, SubmitOnResume
<1>2. IInv /\ [Next]_vars => [Grows]_vars
  BY <1>1
<1> QED
  BY <1>2, LeaseInvariant, PTL DEF Spec, TokenGrows

-----------------------------------------------------------------------------
(***************************************************************************)
(* What two providers have proven was credited, for any messages, any      *)
(* length of the chain and of the providers' answers.                      *)
(***************************************************************************)

Event == [account: Accounts, message: Messages \cup {Foreign},
          ok: BOOLEAN, bounced: BOOLEAN, late: BOOLEAN]

\* No provider has more of the chain than there is, and of what it has nothing
\* goes away: this is what makes an answer of an earlier moment hold later.
FollowsTheChain ==
  /\ events \in Seq(Event)
  /\ followed \in [Sources -> Nat]
  /\ \A s \in Sources: followed[s] <= Len(events)

Inductive == FollowsTheChain /\ ProofIsDelivered

----------------------------------------------------------------------------
\* What the chain has shown as credited stays credited.
LEMMA CreditStays ==
  ASSUME events \in Seq(Event), NEW e \in Event, events' = Append(events, e),
         NEW m, Credited(m)
  PROVE  Credited(m)'
<1>1. PICK i \in DOMAIN events: /\ events[i].account = "recipient"
                                /\ events[i].message = m
                                /\ events[i].ok = TRUE /\ ~events[i].bounced
  BY DEF Credited, Has
<1>2. i \in DOMAIN events' /\ events'[i] = events[i]
  BY <1>1
<1> QED
  BY <1>1, <1>2 DEF Credited, Has

\* A provider that shows m's credit has it from the chain.
LEMMA AnswersComeFromTheChain ==
  ASSUME FollowsTheChain, NEW s \in Sources, NEW m,
         \/ Shows(Of(s, "recipient"), m)
         \/ Shows({i \in Recent(s, "recipient"): Correlated(i)}, m)
  PROVE  Credited(m)
<1>1. PICK i \in Of(s, "recipient"): /\ events[i].message = m
                                     /\ events[i].ok /\ ~events[i].bounced
  BY DEF Shows, Recent
<1>2. i \in 1..followed[s] /\ events[i].account = "recipient"
  BY <1>1 DEF Of
<1>3. i \in DOMAIN events
  BY <1>2 DEF FollowsTheChain
<1>4. events[i].ok = TRUE
  BY <1>1, <1>3 DEF FollowsTheChain, Event
<1> QED
  BY <1>1, <1>2, <1>3, <1>4 DEF Credited, Has

\* The confirmation ends with the message whose credit was just shown, and no
\* other is added.
LEMMA CompletesTheCredited ==
  ASSUME ProofIsDelivered, Completes, events' = events, Credited(look.message)
  PROVE  ProofIsDelivered'
<1>1. \A m: Credited(m)' <=> Credited(m)
  BY DEF Credited, Has
<1>2. confirmed' \subseteq confirmed \cup {look.message}
  BY DEF Completes
<1> QED
  BY <1>1, <1>2 DEF ProofIsDelivered

LEMMA QuietSteps ==
  ASSUME ProofIsDelivered, UNCHANGED <<events, confirmed>>
  PROVE  ProofIsDelivered'
  BY DEF ProofIsDelivered, Credited, Has

----------------------------------------------------------------------------
\* The chain adds one transaction of the three accounts.
LEMMA TransactionIsAdded ==
  ASSUME Transact
  PROVE  \E e \in Event: events' = Append(events, e)
<1>1. PICK m \in Messages \cup {Foreign}, account \in Accounts, ok, bounced, late \in BOOLEAN:
        events' = Append(events, [account |-> account, message |-> m,
                                  ok |-> ok, bounced |-> bounced, late |-> late])
  BY DEF Transact
<1> QED
  BY <1>1 DEF Event

LEMMA InitHolds == ProofInit => Inductive
  BY DEF ProofInit, Inductive, FollowsTheChain, ProofIsDelivered, Sources

LEMMA StepKeeps == Inductive /\ [ProofNext]_proofVars => Inductive'
<1> SUFFICES ASSUME Inductive, [ProofNext]_proofVars PROVE Inductive'
  OBVIOUS
<1> USE DEF Inductive
<1>1. CASE Transact
  <2>1. PICK e \in Event: events' = Append(events, e)
    BY <1>1, TransactionIsAdded
  <2>2. UNCHANGED <<followed, confirmed>>
    BY <1>1 DEF Transact
  <2>3. FollowsTheChain'
    BY <2>1, <2>2 DEF FollowsTheChain
  <2>4. ProofIsDelivered'
    <3> SUFFICES ASSUME NEW n \in confirmed PROVE Credited(n)'
      BY <2>2 DEF ProofIsDelivered
    <3> QED
      BY <2>1, CreditStays DEF ProofIsDelivered, FollowsTheChain
  <2> QED
    BY <2>3, <2>4
<1>2. ASSUME NEW s \in Sources, Follow(s) PROVE Inductive'
  <2>1. FollowsTheChain'
    BY <1>2 DEF Follow, FollowsTheChain
  <2> QED
    BY <1>2, <2>1, QuietSteps DEF Follow
<1>3. CASE AskTonCenter
  <2>1. FollowsTheChain'
    BY <1>3 DEF AskTonCenter, FollowsTheChain
  <2>2. events' = events
    BY <1>3 DEF AskTonCenter
  <2>3. CASE look.stage = "recipient" /\ Completes /\ Reads("toncenter", look.stage, look.message)
    <3>1. Credited(look.message)
      BY <2>3, AnswersComeFromTheChain DEF Reads, Sources
    <3> QED
      BY <2>1, <2>2, <2>3, <3>1, CompletesTheCredited
  <2>4. CASE UNCHANGED confirmed
    BY <2>1, <2>2, <2>4, QuietSteps
  <2> QED
    BY <1>3, <2>3, <2>4 DEF AskTonCenter, ComesBackEmpty
<1>4. CASE AskTonApi
  <2>1. FollowsTheChain'
    BY <1>4 DEF AskTonApi, FollowsTheChain
  <2>2. events' = events
    BY <1>4 DEF AskTonApi
  <2>3. CASE ReadsTrace(look.message) /\ Completes
    <3>1. Credited(look.message)
      BY <2>3, AnswersComeFromTheChain DEF ReadsTrace, Sources
    <3> QED
      BY <2>1, <2>2, <2>3, <3>1, CompletesTheCredited
  <2>4. CASE UNCHANGED confirmed
    BY <2>1, <2>2, <2>4, QuietSteps
  <2> QED
    BY <1>4, <2>3, <2>4 DEF AskTonApi, ComesBackEmpty
<1>5. CASE UNCHANGED <<events, followed, confirmed>>
  BY <1>5, QuietSteps DEF FollowsTheChain
<1> QED
  BY <1>1, <1>2, <1>3, <1>4, <1>5
  DEF ProofNext, AskFails, Confirm, proofVars

\* A payout that both providers have proven was credited to its recipient.
THEOREM ProvenIsDelivered == ProofSpec => []ProofIsDelivered
<1>1. Inductive => ProofIsDelivered
  BY DEF Inductive
<1> QED
  BY <1>1, InitHolds, StepKeeps, PTL DEF ProofSpec

----------------------------------------------------------------------------
(* What a confirmation that proved nothing says.                            *)

Look == [message: Messages \cup {Foreign}, source: Sources,
         stage: Accounts \cup {"idle", "trace"}, second: BOOLEAN,
         since: [Sources -> Nat]]

\* A transfer of ours that reached its Jetton wallet, and one that was credited,
\* have what caused them before them, and only at the sender's Jetton wallet does
\* one come back or is one late.
Before(i, account) ==
  \E j \in 1..i: /\ events[j].account = account /\ events[j].message = events[i].message
                 /\ events[j].ok /\ ~events[j].bounced

Causal ==
  \A i \in DOMAIN events:
    events[i].message # Foreign /\ events[i].ok /\ ~events[i].bounced =>
      /\ events[i].account \in {"sender", "recipient"} => Before(i, "hot")
      /\ events[i].account = "recipient" => Before(i, "sender")

OnlyAtSenders == \A i \in DOMAIN events:
  events[i].bounced \/ events[i].late => events[i].account = "sender"

\* What is asked is asked of a message of ours, and later than the provider was
\* looked at; TonCenter is asked account by account, TonAPI in two requests.
Asking ==
  /\ look \in Look
  /\ look.stage # "idle" =>
       /\ look.message \in Messages
       /\ \A s \in Sources: look.since[s] <= followed[s]
       /\ look.source = "toncenter" => look.stage \in Accounts
       /\ look.source = "tonapi" => look.stage \in {"hot", "trace"}

Emptied ==
  /\ empty \in Look
  /\ \A s \in Sources: empty.since[s] <= Len(events)
  /\ EmptyMeansUnseen

EmptyInv == FollowsTheChain /\ Causal /\ OnlyAtSenders /\ Asking /\ Emptied

\* A credited message has been at all three accounts.
LEMMA CreditHasCauses ==
  ASSUME FollowsTheChain, Causal, OnlyAtSenders, NEW n \in Nat, n <= Len(events),
         NEW m \in Messages, CreditedBy(n, m), NEW account \in Accounts
  PROVE  \E i \in 1..n: /\ events[i].account = account /\ events[i].message = m
                        /\ events[i].ok /\ ~events[i].bounced
<1>1. PICK i \in 1..n: events[i].account = "recipient" /\ events[i].message = m /\ events[i].ok
  BY DEF CreditedBy
<1>2. i \in DOMAIN events /\ i \in Nat /\ m # Foreign
  BY ProofAssumption DEF FollowsTheChain
<1>3. ~events[i].bounced
  BY <1>1, <1>2 DEF OnlyAtSenders
<1>4. Before(i, "hot") /\ Before(i, "sender")
  BY <1>1, <1>2, <1>3 DEF Causal
<1>5. 1..i \subseteq 1..n
  BY <1>1
<1>6. CASE account = "recipient"
  BY <1>1, <1>3, <1>6
<1>7. CASE account \in {"hot", "sender"}
  BY <1>1, <1>4, <1>5, <1>7 DEF Before
<1> QED
  BY <1>6, <1>7 DEF Accounts

\* Whoever has the chain so far has the transactions of the message.
LEMMA ProviderHasCauses ==
  ASSUME EmptyInv, look.stage # "idle", NEW s \in Sources,
         CreditedBy(look.since[s], look.message), NEW account \in Accounts
  PROVE  \E i \in Of(s, account): /\ events[i].message = look.message
                                  /\ events[i].ok /\ ~events[i].bounced
<1>1. /\ look.message \in Messages /\ look.since[s] \in Nat /\ look.since[s] <= followed[s]
      /\ followed[s] \in Nat /\ followed[s] <= Len(events) /\ Len(events) \in Nat
  BY DEF EmptyInv, Asking, Look, FollowsTheChain
<1>2. look.since[s] <= Len(events) /\ 1..look.since[s] \subseteq 1..followed[s]
  BY <1>1
<1>3. PICK i \in 1..look.since[s]: /\ events[i].account = account
                                  /\ events[i].message = look.message
                                  /\ events[i].ok /\ ~events[i].bounced
  BY <1>1, <1>2, CreditHasCauses DEF EmptyInv
<1> QED
  BY <1>2, <1>3 DEF Of

\* What is not among the newest has at least RecentLimit behind it.
LEMMA NotRecent ==
  ASSUME FollowsTheChain, NEW s \in Sources, NEW account, NEW i \in Of(s, account),
         i \notin Recent(s, account)
  PROVE  Cardinality({j \in DOMAIN events: j > i /\ events[j].account = events[i].account})
           >= RecentLimit
<1> DEFINE newer == {j \in Of(s, account): j > i}
           later == {j \in DOMAIN events: j > i /\ events[j].account = events[i].account}
<1>1. /\ DOMAIN events = 1..Len(events) /\ Len(events) \in Nat /\ followed[s] \in Nat
      /\ followed[s] <= Len(events)
  BY DEF FollowsTheChain
<1>2. newer \subseteq later /\ later \subseteq 1..Len(events)
  BY <1>1 DEF Of
<1>3. IsFiniteSet(1..Len(events))
  BY <1>1, FS_Interval
<1>4. IsFiniteSet(later) /\ Cardinality(newer) <= Cardinality(later)
  <2>1. IsFiniteSet(later)
    BY <1>2, <1>3, FS_Subset
  <2> QED
    BY <1>2, <2>1, FS_Subset
<1>5. Cardinality(newer) \in Nat /\ Cardinality(later) \in Nat
  BY <1>2, <1>4, FS_Subset, FS_CardinalityType
<1>6. ~(Cardinality(newer) < RecentLimit)
  BY DEF Recent
<1> HIDE DEF newer, later
<1>7. Cardinality(later) >= RecentLimit
  BY <1>4, <1>5, <1>6, ProofAssumption
<1> QED
  BY <1>7 DEF later

\* What has been said of an earlier moment stays true of the longer chain.
LEMMA SayingStays ==
  ASSUME Emptied, FollowsTheChain, NEW e \in Event, events' = Append(events, e), empty' = empty
  PROVE  Emptied'
<1> DEFINE n == empty.since[empty.source]
           later(i) == {j \in DOMAIN events: j > i /\ events[j].account = events[i].account}
<1>1. /\ empty \in Look /\ n \in Nat /\ n <= Len(events) /\ empty.source \in Sources
      /\ Len(events) \in Nat /\ DOMAIN events = 1..Len(events)
      /\ events' \in Seq(Event) /\ Len(events') = Len(events) + 1
      /\ DOMAIN events' = 1..(Len(events) + 1)
      /\ \A i \in DOMAIN events: i \in DOMAIN events' /\ events'[i] = events[i]
  BY DEF Emptied, Look, FollowsTheChain
<1>2. \A s \in Sources: empty'.since[s] <= Len(events')
  BY <1>1 DEF Emptied, Look
<1>3. CreditedBy(n, empty.message)' <=> CreditedBy(n, empty.message)
  <2>1. 1..n \subseteq DOMAIN events
    BY <1>1
  <2> HIDE DEF n
  <2>2. n' = n
    BY DEF n
  <2> QED
    BY <1>1, <2>1, <2>2 DEF CreditedBy
<1>4. ASSUME NEW i \in DOMAIN events, Cardinality(later(i)) >= RecentLimit
      PROVE  Cardinality(later(i)') >= RecentLimit
  <2>1. later(i) \subseteq later(i)' /\ later(i)' \subseteq 1..(Len(events) + 1)
    BY <1>1
  <2>2. IsFiniteSet(1..(Len(events) + 1))
    BY <1>1, FS_Interval
  <2> DEFINE before == later(i)
             after == later(i)'
  <2> HIDE DEF before, after
  <2>3. IsFiniteSet(after)
    BY <2>1, <2>2, FS_Subset DEF after
  <2>4. IsFiniteSet(before) /\ Cardinality(before) <= Cardinality(after)
    BY <2>1, <2>3, FS_Subset DEF before, after
  <2>5. Cardinality(before) \in Nat /\ Cardinality(after) \in Nat
    BY <2>3, <2>4, FS_CardinalityType
  <2>6. Cardinality(before) >= RecentLimit
    BY <1>4 DEF before
  <2>7. Cardinality(after) >= RecentLimit
    BY <2>4, <2>5, <2>6, ProofAssumption
  <2> QED
    BY <2>7 DEF after
<1>5. EmptyMeansUnseen'
  <2> SUFFICES ASSUME empty.stage # "idle", CreditedBy(n, empty.message)
               PROVE  /\ empty.source = "toncenter"
                      /\ \E i \in DOMAIN events':
                           /\ events'[i].message = empty.message
                           /\ \/ Cardinality(later(i)') >= RecentLimit
                              \/ empty.stage = "sender" /\ events'[i].late
    BY <1>3 DEF EmptyMeansUnseen
  <2>1. /\ empty.source = "toncenter"
        /\ \E i \in DOMAIN events: /\ events[i].message = empty.message
                                    /\ \/ Cardinality(later(i)) >= RecentLimit
                                       \/ empty.stage = "sender" /\ events[i].late
    BY DEF Emptied, EmptyMeansUnseen
  <2>2. PICK i \in DOMAIN events: /\ events[i].message = empty.message
                                 /\ \/ Cardinality(later(i)) >= RecentLimit
                                    \/ empty.stage = "sender" /\ events[i].late
    BY <2>1
  <2>3. Cardinality(later(i)) >= RecentLimit => Cardinality(later(i)') >= RecentLimit
    BY <1>4
  <2> HIDE DEF later
  <2> QED
    BY <1>1, <2>1, <2>2, <2>3
<1> QED
  BY <1>1, <1>2, <1>5 DEF Emptied

\* The chain adds nothing before its cause.
LEMMA TransactKeeps == ASSUME EmptyInv, Transact PROVE EmptyInv'
<1>1. PICK m \in Messages \cup {Foreign}, account \in Accounts, ok, bounced, late \in BOOLEAN:
        /\ \/ m = Foreign /\ ok /\ ~bounced
           \/ m # Foreign /\ Enabled(account, m) /\ ~bounced
           \/ m # Foreign /\ Returns(m) /\ account = "sender" /\ ok /\ bounced
        /\ late => m # Foreign /\ account = "sender" /\ ~bounced
        /\ events' = Append(events, [account |-> account, message |-> m,
                                     ok |-> ok, bounced |-> bounced, late |-> late])
  BY DEF Transact
<1> DEFINE e == [account |-> account, message |-> m, ok |-> ok, bounced |-> bounced,
                 late |-> late]
<1>2. /\ e \in Event /\ e.account = account /\ e.message = m
      /\ e.ok = ok /\ e.bounced = bounced /\ e.late = late
      /\ events' = Append(events, e)
  BY <1>1 DEF Event
<1> HIDE DEF e
<1>3. UNCHANGED <<followed, look, confirmed, empty>>
  BY DEF Transact
<1>. PICK n \in Nat: n = Len(events)
  BY DEF EmptyInv, FollowsTheChain
<1>4. /\ n \in Nat /\ DOMAIN events = 1..n /\ events' \in Seq(Event) /\ Len(events') = n + 1
      /\ DOMAIN events' = 1..(n + 1) /\ events'[n + 1] = e
      /\ \A i \in 1..n: events'[i] = events[i]
      /\ events \in Seq(Event)
  BY <1>2 DEF EmptyInv, FollowsTheChain
<1>5. \A i \in 1..(n + 1): i \in 1..n \/ i = n + 1
  BY <1>4
<1>6. FollowsTheChain'
  BY <1>3, <1>4 DEF EmptyInv, FollowsTheChain
<1>7. Emptied'
  BY <1>2, <1>3, SayingStays DEF EmptyInv
<1>8. Asking'
  BY <1>3 DEF EmptyInv, Asking
<1>9. OnlyAtSenders'
  BY <1>1, <1>2, <1>4, <1>5 DEF EmptyInv, OnlyAtSenders
<1>10. ASSUME NEW i \in 1..n, NEW place, Before(i, place) PROVE Before(i, place)'
  <2>1. PICK j \in 1..i: /\ events[j].account = place /\ events[j].message = events[i].message
                         /\ events[j].ok /\ ~events[j].bounced
    BY <1>10 DEF Before
  <2>2. j \in 1..n
    BY <1>4, <2>1
  <2>3. events'[j] = events[j] /\ events'[i] = events[i]
    BY <1>4, <2>2
  <2> QED
    BY <2>1, <2>3 DEF Before
<1>11. ASSUME NEW place, Has(place, m, TRUE) PROVE Before(n + 1, place)'
  <2>1. PICK j \in 1..n: /\ events[j].account = place /\ events[j].message = m
                         /\ events[j].ok = TRUE /\ ~events[j].bounced
    BY <1>4, <1>11 DEF Has
  <2>2. j \in 1..(n + 1) /\ events'[j] = events[j]
    BY <1>4, <2>1
  <2> QED
    BY <1>2, <1>4, <2>1, <2>2 DEF Before
<1>12. ASSUME m # Foreign, Enabled(account, m), account = "recipient" PROVE Before(n + 1, "hot")'
  <2>1. PICK j \in 1..n: /\ events[j].account = "sender" /\ events[j].message = m
                         /\ events[j].ok = TRUE /\ ~events[j].bounced
    BY <1>4, <1>12 DEF Enabled, Has
  <2>2. Before(j, "hot")
    BY <1>4, <1>12, <2>1 DEF EmptyInv, Causal
  <2>4. PICK k \in 1..j: /\ events[k].account = "hot" /\ events[k].message = m
                         /\ events[k].ok /\ ~events[k].bounced
    BY <2>1, <2>2 DEF Before
  <2>5. k \in 1..n /\ k \in 1..(n + 1) /\ events'[k] = events[k]
    BY <1>4, <2>1, <2>4
  <2> QED
    BY <1>2, <1>4, <2>4, <2>5 DEF Before
<1>13. Causal'
  <2> SUFFICES ASSUME NEW i \in 1..(n + 1), events'[i].message # Foreign,
                      events'[i].ok, ~events'[i].bounced
               PROVE  /\ events'[i].account \in {"sender", "recipient"} => Before(i, "hot")'
                      /\ events'[i].account = "recipient" => Before(i, "sender")'
    BY <1>4 DEF Causal
  <2>1. CASE i \in 1..n
    <3>1. events'[i] = events[i] /\ i \in DOMAIN events
      BY <1>4, <2>1
    <3>2. /\ events[i].account \in {"sender", "recipient"} => Before(i, "hot")
          /\ events[i].account = "recipient" => Before(i, "sender")
      BY <3>1 DEF EmptyInv, Causal
    <3> QED
      BY <1>10, <2>1, <3>1, <3>2
  <2>2. CASE i = n + 1
    <3>1. events'[i] = e
      BY <1>4, <2>2
    <3>2. m # Foreign /\ ~bounced
      BY <1>2, <3>1
    <3>3. Enabled(account, m)
      BY <1>1, <3>2
    <3>4. /\ account = "sender" => Before(n + 1, "hot")'
          /\ account = "recipient" => Before(n + 1, "sender")' /\ Before(n + 1, "hot")'
      BY <1>11, <1>12, <3>2, <3>3 DEF Enabled
    <3> QED
      BY <1>2, <2>2, <3>1, <3>4
  <2> QED
    BY <1>5, <2>1, <2>2
<1> QED
  BY <1>6, <1>7, <1>8, <1>9, <1>13 DEF EmptyInv

\* Neither the chain nor what was said moves.
LEMMA AskingStep ==
  ASSUME EmptyInv, events' = events, FollowsTheChain', Asking', empty' = empty
  PROVE  EmptyInv'
<1>1. Causal' /\ OnlyAtSenders'
  BY DEF EmptyInv, Causal, Before, OnlyAtSenders
<1>2. Emptied'
  BY DEF EmptyInv, Emptied, EmptyMeansUnseen, CreditedBy
<1> QED
  BY <1>1, <1>2 DEF EmptyInv

LEMMA IdleIsLook == Idle \in Look /\ Idle.stage = "idle" /\ \A s \in Sources: Idle.since[s] = 0
<1>1. [s \in Sources |-> 0] \in [Sources -> Nat] /\ "toncenter" \in Sources
  BY DEF Sources
<1> QED
  BY <1>1 DEF Idle, Look

\* What a confirmation that ends empty leaves, if what it asked was not shown.
LEMMA EmptyKeeps ==
  ASSUME EmptyInv, ComesBackEmpty, events' = events, FollowsTheChain', look.stage # "idle",
         CreditedBy(look.since[look.source], look.message) =>
           /\ look.source = "toncenter"
           /\ \E i \in DOMAIN events:
                /\ events[i].message = look.message
                /\ \/ Cardinality({j \in DOMAIN events:
                        j > i /\ events[j].account = events[i].account}) >= RecentLimit
                   \/ look.stage = "sender" /\ events[i].late
  PROVE  EmptyInv'
<1>1. Causal' /\ OnlyAtSenders'
  BY DEF EmptyInv, Causal, Before, OnlyAtSenders
<1>2. look' = Idle /\ empty' = look
  BY DEF ComesBackEmpty
<1>3. Asking'
  BY <1>2, IdleIsLook DEF Asking
<1>4. EmptyMeansUnseen'
  BY <1>2 DEF EmptyMeansUnseen, CreditedBy
<1>5. look \in Look /\ \A s \in Sources: look.since[s] <= Len(events)
  <2>1. look \in Look /\ \A s \in Sources: look.since[s] <= followed[s]
    BY DEF EmptyInv, Asking
  <2>2. \A s \in Sources: /\ look.since[s] \in Nat /\ followed[s] \in Nat /\ Len(events) \in Nat
                          /\ followed[s] <= Len(events)
    BY <2>1 DEF Look, EmptyInv, FollowsTheChain
  <2> QED
    BY <2>1, <2>2
<1> QED
  BY <1>1, <1>2, <1>3, <1>4, <1>5 DEF EmptyInv, Emptied

\* The proof is complete at one provider: the other is asked, or it is over.
LEMMA CompletesKeeps ==
  ASSUME EmptyInv, Completes, events' = events, followed' = followed, look.stage # "idle"
  PROVE  EmptyInv'
<1>1. FollowsTheChain' /\ empty' = empty
  BY DEF EmptyInv, FollowsTheChain, Completes
<1>2. look \in Look
  BY DEF EmptyInv, Asking
<1>3. Asking'
  <2>1. CASE look' = Idle
    BY <2>1, IdleIsLook DEF Asking
  <2>2. ASSUME NEW other \in Sources,
               look' = [look EXCEPT !.source = other, !.stage = "hot", !.second = TRUE]
        PROVE  Asking'
    <3>1. /\ look' \in Look /\ look'.stage = "hot" /\ look'.message = look.message
          /\ look'.since = look.since
      BY <1>2, <2>2 DEF Look, Accounts
    <3> QED
      BY <3>1 DEF EmptyInv, Asking, Accounts
  <2> QED
    BY <2>1, <2>2 DEF Completes
<1> QED
  BY <1>1, <1>3, AskingStep

LEMMA TonCenterKeeps == ASSUME EmptyInv, AskTonCenter PROVE EmptyInv'
<1>1. /\ look.stage # "idle" /\ look.source = "toncenter" /\ look.stage \in Accounts
      /\ events' = events /\ followed' = followed /\ look \in Look
  BY DEF AskTonCenter, EmptyInv, Asking
<1>2. FollowsTheChain'
  BY <1>1 DEF EmptyInv, FollowsTheChain
<1>3. CASE ~Reads("toncenter", look.stage, look.message)
  <2>1. ComesBackEmpty
    BY <1>3 DEF AskTonCenter
  <2>2. ASSUME CreditedBy(look.since["toncenter"], look.message)
        PROVE  \E i \in DOMAIN events:
                 /\ events[i].message = look.message
                 /\ \/ Cardinality({j \in DOMAIN events:
                         j > i /\ events[j].account = events[i].account}) >= RecentLimit
                    \/ look.stage = "sender" /\ events[i].late
    <3>1. "toncenter" \in Sources
      BY DEF Sources
    <3>2. PICK i \in Of("toncenter", look.stage): /\ events[i].message = look.message
                                                  /\ events[i].ok /\ ~events[i].bounced
      BY <1>1, <2>2, <3>1, ProviderHasCauses
    <3>3. i \notin Recent("toncenter", look.stage) \/ events[i].late
      BY <1>3, <3>2 DEF Reads, Shows, Correlated
    <3>4. i \in DOMAIN events /\ events[i].account = look.stage
      BY <3>1, <3>2 DEF Of, EmptyInv, FollowsTheChain
    <3>5. CASE i \notin Recent("toncenter", look.stage)
      BY <3>1, <3>2, <3>4, <3>5, NotRecent DEF EmptyInv
    <3>6. CASE events[i].late
      BY <3>2, <3>4, <3>6 DEF EmptyInv, OnlyAtSenders
    <3> QED
      BY <3>3, <3>5, <3>6
  <2> QED
    BY <1>1, <1>2, <2>1, <2>2, EmptyKeeps
<1>4. CASE Completes
  BY <1>1, <1>4, CompletesKeeps
<1>5. CASE /\ look' = [look EXCEPT !.stage = IF @ = "hot" THEN "sender" ELSE "recipient"]
           /\ empty' = empty
  <2>1. /\ look' \in Look /\ look'.stage \in {"sender", "recipient"} /\ look'.source = "toncenter"
        /\ look'.message = look.message /\ look'.since = look.since
    BY <1>1, <1>5 DEF Look, Accounts
  <2>2. Asking'
    BY <1>1, <2>1 DEF EmptyInv, Asking, Accounts
  <2> QED
    BY <1>1, <1>2, <1>5, <2>2, AskingStep
<1> QED
  BY <1>3, <1>4, <1>5 DEF AskTonCenter

LEMMA TonApiKeeps == ASSUME EmptyInv, AskTonApi PROVE EmptyInv'
<1>1. /\ look.stage # "idle" /\ look.source = "tonapi" /\ "tonapi" \in Sources
      /\ events' = events /\ followed' = followed /\ look \in Look
  BY DEF AskTonApi, EmptyInv, Asking, Sources
<1>2. FollowsTheChain'
  BY <1>1 DEF EmptyInv, FollowsTheChain
<1>3. CASE ComesBackEmpty /\ (~Reads("tonapi", "hot", look.message) \/ ~ReadsTrace(look.message))
  <2>1. ASSUME CreditedBy(look.since["tonapi"], look.message) PROVE FALSE
    <3>1. \A account \in Accounts: Shows(Of("tonapi", account), look.message)
      BY <1>1, <2>1, ProviderHasCauses DEF Shows
    <3> QED
      BY <1>3, <3>1 DEF Reads, ReadsTrace, Accounts
  <2> QED
    BY <1>1, <1>2, <1>3, <2>1, EmptyKeeps
<1>4. CASE Completes
  BY <1>1, <1>4, CompletesKeeps
<1>5. CASE look' = [look EXCEPT !.stage = "trace"] /\ empty' = empty
  <2>1. /\ look' \in Look /\ look'.stage = "trace" /\ look'.source = "tonapi"
        /\ look'.message = look.message /\ look'.since = look.since
    BY <1>1, <1>5 DEF Look
  <2>2. Asking'
    BY <1>1, <2>1 DEF EmptyInv, Asking
  <2> QED
    BY <1>1, <1>2, <1>5, <2>2, AskingStep
<1> QED
  BY <1>3, <1>4, <1>5 DEF AskTonApi

LEMMA ProofStepKeepsEmpty == EmptyInv /\ [ProofNext]_proofVars => EmptyInv'
<1> SUFFICES ASSUME EmptyInv, [ProofNext]_proofVars PROVE EmptyInv'
  OBVIOUS
<1>1. CASE UNCHANGED proofVars
  <2>1. FollowsTheChain' /\ Asking'
    BY <1>1 DEF proofVars, EmptyInv, FollowsTheChain, Asking
  <2> QED
    BY <1>1, <2>1, AskingStep DEF proofVars
<1>2. ASSUME NEW s \in Sources, Follow(s) PROVE EmptyInv'
  <2>1. /\ FollowsTheChain' /\ \A r \in Sources: /\ followed[r] \in Nat /\ followed'[r] \in Nat
                                                /\ followed[r] <= followed'[r]
    BY <1>2 DEF Follow, EmptyInv, FollowsTheChain
  <2>2. Asking'
    BY <1>2, <2>1 DEF Follow, EmptyInv, Asking, Look
  <2> QED
    BY <1>2, <2>1, <2>2, AskingStep DEF Follow
<1>3. ASSUME NEW m \in Messages, NEW s \in Sources, Confirm(m, s) PROVE EmptyInv'
  <2> DEFINE l == [message |-> m, source |-> s, stage |-> "hot", second |-> FALSE, since |-> followed]
  <2>1. look' = l /\ empty' = Idle /\ UNCHANGED <<events, followed>>
    BY <1>3 DEF Confirm
  <2>2. l \in Look /\ l.stage = "hot" /\ l.message = m /\ l.source = s /\ l.since = followed
    BY DEF Look, Accounts, EmptyInv, FollowsTheChain
  <2> HIDE DEF l
  <2>3. FollowsTheChain'
    BY <2>1 DEF EmptyInv, FollowsTheChain
  <2>4. Asking'
    BY <2>1, <2>2 DEF EmptyInv, FollowsTheChain, Asking, Accounts
  <2>5. Causal' /\ OnlyAtSenders'
    BY <2>1 DEF EmptyInv, Causal, Before, OnlyAtSenders
  <2>6. Emptied'
    BY <2>1, IdleIsLook DEF EmptyInv, FollowsTheChain, Emptied, EmptyMeansUnseen
  <2> QED
    BY <2>3, <2>4, <2>5, <2>6 DEF EmptyInv
<1>4. CASE AskFails
  <2>1. UNCHANGED <<events, followed, empty>> /\ look' = Idle
    BY <1>4 DEF AskFails
  <2>2. FollowsTheChain' /\ Asking'
    BY <2>1, IdleIsLook DEF EmptyInv, FollowsTheChain, Asking
  <2> QED
    BY <2>1, <2>2, AskingStep
<1> QED
  BY <1>1, <1>2, <1>3, <1>4, TransactKeeps, TonCenterKeeps, TonApiKeeps DEF ProofNext

LEMMA ProofStartsEmpty == ProofInit => EmptyInv
<1> SUFFICES ASSUME ProofInit PROVE EmptyInv
  OBVIOUS
<1>1. /\ events = <<>> /\ followed = [s \in Sources |-> 0] /\ look = Idle /\ empty = Idle
      /\ events \in Seq(Event) /\ Len(events) = 0 /\ DOMAIN events = {}
  BY DEF ProofInit
<1>2. FollowsTheChain /\ Causal /\ OnlyAtSenders
  BY <1>1 DEF FollowsTheChain, Causal, OnlyAtSenders
<1>3. Asking
  BY <1>1, IdleIsLook DEF Asking
<1>4. Emptied
  BY <1>1, IdleIsLook DEF Emptied, EmptyMeansUnseen
<1> QED
  BY <1>2, <1>3, <1>4 DEF EmptyInv

\* A confirmation that came back with nothing, from whole answers, was early, or
\* TonCenter's newest transactions did not reach back to the message, or TonCenter
\* skipped it at the sender's Jetton wallet because it was late.
THEOREM EmptySaysLittle == ProofSpec => []EmptyMeansUnseen
<1>1. EmptyInv => EmptyMeansUnseen
  BY DEF EmptyInv, Emptied
<1> QED
  BY <1>1, ProofStartsEmpty, ProofStepKeepsEmpty, PTL DEF ProofSpec

-----------------------------------------------------------------------------
(***************************************************************************)
(* Theorems about WalletOwnership, for any number of users, wallets and      *)
(* challenges, any cooldown and any clock: withdrawals respect the cooldown  *)
(* of the primary wallet they go to, and no late change shortens a cooldown. *)
(***************************************************************************)

USE WalletAssumption

Address == Addresses \cup {NoAddress}
Primary == [address : Address, since : Nat, changed : BOOLEAN]
Used == [st : {"open", "consumed", "invalidated"}, user : WalletUsers, expires : Nat]
Change == [user : WalletUsers, nonce : Nonces, to : Addresses, now : Nat]

WalletTypes ==
  /\ clock \in Nat
  /\ nonce \in [Nonces -> {[st |-> "unused"]} \cup Used]
  /\ verified \in [WalletUsers -> SUBSET Addresses]
  /\ primary \in [WalletUsers -> Primary]
  /\ cooldown \in [WalletUsers -> Nat]
  /\ changes \subseteq Change
  /\ quoted \in [WalletUsers -> Address]
  /\ created \in [WalletUsers -> [to : Address, at : Nat, primary : Primary]]

\* A primary wallet is proved, and rests for a whole cooldown if it was changed.
PrimaryRests ==
  \A u \in WalletUsers :
    /\ primary[u].address # NoAddress => primary[u].address \in verified[u]
    /\ primary[u].changed => cooldown[u] = primary[u].since + Cooldown

\* A change on its way knows a challenge that exists, and a time that has been.
\* While it still can succeed, no later change of its user has.
ChangesAreOld ==
  /\ \A u \in WalletUsers : cooldown[u] <= clock + Cooldown
  /\ \A r \in changes :
       /\ r.now <= clock
       /\ nonce[r.nonce].st # "unused"
       /\ nonce[r.nonce].st = "open" /\ nonce[r.nonce].user = r.user =>
            cooldown[r.user] <= r.now + Cooldown

WalletInv == WalletTypes /\ PrimaryRests /\ ChangesAreOld /\ CooledDown

-----------------------------------------------------------------------------
(* The steps.                                                              *)

LEMMA WalletStarts == WalletInit => WalletInv
  BY DEF WalletInit, WalletInv, WalletTypes, PrimaryRests, ChangesAreOld, CooledDown,
         NoPrimary, NoWithdrawal, Primary, Address

LEMMA CreateChallengeKeeps ==
  ASSUME WalletInv, NEW u \in WalletUsers, CreateChallenge(u)
  PROVE  WalletInv'
<1> DEFINE n == CHOOSE c \in Nonces : nonce[c].st = "unused"
<1>1. n \in Nonces /\ nonce[n].st = "unused"
  BY DEF CreateChallenge
<1>2. nonce' = [nonce EXCEPT ![n] = [st |-> "open", user |-> u, expires |-> clock + Ttl]]
  BY DEF CreateChallenge
<1> HIDE DEF n
<1>3. WalletTypes'
  BY <1>1, <1>2 DEF CreateChallenge, WalletInv, WalletTypes, Used
<1>4. PrimaryRests' /\ CooledDown'
  BY DEF CreateChallenge, WalletInv, PrimaryRests, CooledDown
<1>5. ChangesAreOld'
  BY <1>1, <1>2 DEF CreateChallenge, WalletInv, WalletTypes, ChangesAreOld, Used, Change
<1> QED
  BY <1>3, <1>4, <1>5 DEF WalletInv

\* A challenge that is open or used is a record of all three fields.
LEMMA UsedChallenge ==
  ASSUME WalletTypes, NEW c \in Nonces, nonce[c].st # "unused"
  PROVE  nonce[c] \in Used
  BY DEF WalletTypes

LEMMA BindKeeps ==
  ASSUME WalletInv, NEW u \in WalletUsers, NEW c \in Nonces, NEW a \in Addresses,
         Bind(u, c, a)
  PROVE  WalletInv'
<1>1. nonce[c] \in Used
  BY UsedChallenge DEF Bind, Answers, WalletInv
<1>2. nonce' = [nonce EXCEPT ![c].st = "consumed"]
  BY DEF Bind, Consume
<1>3. /\ verified' = [verified EXCEPT ![u] = @ \cup {a}]
      /\ UNCHANGED <<clock, cooldown, changes, quoted, created>>
  BY DEF Bind, Proved
<1>4. \/ primary' = primary
      \/ /\ primary[u].address = NoAddress
         /\ primary' = [primary EXCEPT ![u] =
                          [address |-> a, since |-> clock, changed |-> FALSE]]
  BY DEF Bind
<1>5. WalletTypes'
  <2> DEFINE now == [nonce[c] EXCEPT !.st = "consumed"]
  <2>0. now \in Used
    BY <1>1 DEF Used
  <2>1. nonce' \in [Nonces -> {[st |-> "unused"]} \cup Used]
    BY <1>2, <2>0 DEF WalletInv, WalletTypes
  <2>2. primary' \in [WalletUsers -> Primary]
    <3>1. [address |-> a, since |-> clock, changed |-> FALSE] \in Primary
      BY DEF Primary, Address, WalletInv, WalletTypes
    <3> QED
      BY <1>4, <3>1 DEF WalletInv, WalletTypes
  <2> QED
    BY <1>3, <2>1, <2>2 DEF WalletInv, WalletTypes
<1>6. PrimaryRests'
  BY <1>3, <1>4 DEF WalletInv, WalletTypes, PrimaryRests, Primary
<1>7. CooledDown'
  BY <1>3 DEF WalletInv, WalletTypes, CooledDown
<1>8. ChangesAreOld'
  BY <1>1, <1>2, <1>3 DEF WalletInv, WalletTypes, ChangesAreOld, Used, Change
<1> QED
  BY <1>5, <1>6, <1>7, <1>8 DEF WalletInv

LEMMA RequestChangeKeeps ==
  ASSUME WalletInv, NEW u \in WalletUsers, NEW c \in Nonces, NEW a \in Addresses,
         RequestChange(u, c, a)
  PROVE  WalletInv'
<1> DEFINE x == [user |-> u, nonce |-> c, to |-> a, now |-> clock]
<1>1. x \in Change /\ changes' = changes \cup {x}
  BY DEF RequestChange, WalletInv, WalletTypes, Change
<1>2. WalletTypes'
  BY <1>1 DEF RequestChange, WalletInv, WalletTypes
<1>3. PrimaryRests' /\ CooledDown'
  BY DEF RequestChange, WalletInv, PrimaryRests, CooledDown
<1>4. ChangesAreOld'
  BY <1>1 DEF RequestChange, WalletInv, WalletTypes, ChangesAreOld
<1> QED
  BY <1>2, <1>3, <1>4 DEF WalletInv

\* The two ways in which a change succeeds.
LEMMA ProofOfThePrimaryKeeps ==
  ASSUME WalletInv, NEW r \in changes, nonce[r.nonce] \in Used,
         nonce' = Consume(r.nonce), changes' = changes \ {r},
         UNCHANGED <<verified, primary, cooldown, clock, quoted, created>>
  PROVE  WalletInv'
<1>1. WalletTypes'
  BY DEF WalletInv, WalletTypes, Consume, Used, Change
<1>2. PrimaryRests' /\ CooledDown'
  BY DEF WalletInv, PrimaryRests, CooledDown
<1>3. ChangesAreOld'
  BY DEF WalletInv, WalletTypes, ChangesAreOld, Consume, Used, Change
<1> QED
  BY <1>1, <1>2, <1>3 DEF WalletInv

LEMMA AnotherPrimaryKeeps ==
  ASSUME WalletInv, NEW r \in changes, NEW u \in WalletUsers, u = r.user,
         nonce[r.nonce] \in Used,
         verified' = Proved(u, r.to),
         primary' = [primary EXCEPT ![u] =
           [address |-> r.to, since |-> r.now, changed |-> TRUE]],
         cooldown' = Cooling(u, r.now), nonce' = Invalidated(u, r.nonce),
         changes' = changes \ {r}, UNCHANGED <<clock, quoted, created>>
  PROVE  WalletInv'
<1>1. r \in Change /\ r.now \in Nat /\ r.to \in Addresses /\ r.nonce \in Nonces
  BY DEF WalletInv, WalletTypes, Change
<1>2. nonce' \in [Nonces -> {[st |-> "unused"]} \cup Used]
  BY <1>1, UsedChallenge DEF WalletInv, WalletTypes, Invalidated, Used
<1>3. \A c \in Nonces : /\ nonce'[c].st = "unused" => nonce[c].st = "unused"
                        /\ nonce'[c].st = "open" => /\ nonce[c].st = "open"
                                                    /\ nonce[c].user # u
                                                    /\ nonce'[c] = nonce[c]
  BY <1>1 DEF WalletInv, WalletTypes, Invalidated, Used
<1>4. WalletTypes'
  BY <1>1, <1>2 DEF WalletInv, WalletTypes, Proved, Cooling, Primary, Address
<1>5. PrimaryRests'
  BY <1>1 DEF WalletInv, WalletTypes, PrimaryRests, Proved, Cooling, Primary
<1>6. CooledDown'
  BY DEF WalletInv, WalletTypes, CooledDown, Proved
<1>7. ChangesAreOld'
  BY <1>1, <1>3 DEF WalletInv, WalletTypes, ChangesAreOld, Cooling, Change
<1> QED
  BY <1>4, <1>5, <1>6, <1>7 DEF WalletInv

LEMMA ChangePrimaryKeeps ==
  ASSUME WalletInv, NEW r \in changes, ChangePrimary(r)
  PROVE  WalletInv'
<1>1. r.user \in WalletUsers /\ r.nonce \in Nonces
  BY DEF WalletInv, WalletTypes, Change
<1>2. nonce[r.nonce] \in Used
  BY <1>1, UsedChallenge DEF ChangePrimary, Answers, WalletInv
<1>3. CASE r.to = primary[r.user].address
  BY <1>2, <1>3, ProofOfThePrimaryKeeps DEF ChangePrimary
<1>4. CASE r.to # primary[r.user].address
  BY <1>1, <1>2, <1>4, AnotherPrimaryKeeps DEF ChangePrimary
<1> QED
  BY <1>3, <1>4

\* A withdrawal is created by a user who may withdraw, to the primary wallet he has.
LEMMA CreateWithdrawalKeeps ==
  ASSUME WalletInv, NEW u \in WalletUsers, Create(u)
  PROVE  WalletInv'
<1>1. WalletTypes'
  BY DEF Create, WalletInv, WalletTypes, Address
<1>2. PrimaryRests' /\ ChangesAreOld'
  BY DEF Create, WalletInv, PrimaryRests, ChangesAreOld
<1>3. CooledDown'
  BY DEF Create, Eligible, WalletInv, WalletTypes, PrimaryRests, CooledDown, Primary
<1> QED
  BY <1>1, <1>2, <1>3 DEF WalletInv

LEMMA WalletStepKeeps == WalletInv /\ [WalletNext]_walletVars => WalletInv'
<1> SUFFICES ASSUME WalletInv, [WalletNext]_walletVars PROVE WalletInv'
  OBVIOUS
<1>1. CASE UNCHANGED walletVars
  BY <1>1 DEF walletVars, WalletInv, WalletTypes, PrimaryRests, ChangesAreOld, CooledDown
<1>2. ASSUME NEW u \in WalletUsers, CreateChallenge(u) PROVE WalletInv'
  BY <1>2, CreateChallengeKeeps
<1>3. ASSUME NEW u \in WalletUsers, Quote(u) PROVE WalletInv'
  BY <1>3 DEF Quote, WalletInv, WalletTypes, PrimaryRests, ChangesAreOld, CooledDown, Primary
<1>4. ASSUME NEW u \in WalletUsers, Create(u) PROVE WalletInv'
  BY <1>4, CreateWithdrawalKeeps
<1>5. ASSUME NEW u \in WalletUsers, NEW c \in Nonces, NEW a \in Addresses, Bind(u, c, a)
      PROVE WalletInv'
  BY <1>5, BindKeeps
<1>6. ASSUME NEW u \in WalletUsers, NEW c \in Nonces, NEW a \in Addresses,
             RequestChange(u, c, a)
      PROVE WalletInv'
  BY <1>6, RequestChangeKeeps
<1>7. ASSUME NEW r \in changes, ChangePrimary(r) PROVE WalletInv'
  BY <1>7, ChangePrimaryKeeps
<1>8. ASSUME NEW r \in changes, ChangeFails(r) PROVE WalletInv'
  BY <1>8 DEF ChangeFails, WalletInv, WalletTypes, PrimaryRests, ChangesAreOld, CooledDown
<1>9. CASE Tick
  BY <1>9 DEF Tick, WalletInv, WalletTypes, PrimaryRests, ChangesAreOld, CooledDown, Change
<1> QED
  BY <1>1, <1>2, <1>3, <1>4, <1>5, <1>6, <1>7, <1>8, <1>9 DEF WalletNext

LEMMA WalletInvariant == WalletSpec => []WalletInv
  BY WalletStarts, WalletStepKeeps, PTL DEF WalletSpec

\* Only a change that succeeds touches a cooldown, and it is not an overtaken one.
LEMMA StepKeepsCooldowns ==
  WalletInv /\ [WalletNext]_walletVars =>
    [\A u \in WalletUsers : cooldown'[u] >= cooldown[u]]_walletVars
<1> SUFFICES ASSUME WalletInv, WalletNext, NEW u \in WalletUsers
             PROVE  cooldown'[u] >= cooldown[u]
  OBVIOUS
<1>1. CASE UNCHANGED cooldown
  BY <1>1 DEF WalletInv, WalletTypes
<1>2. ASSUME NEW r \in changes, ChangePrimary(r), cooldown' # cooldown
      PROVE  cooldown'[u] >= cooldown[u]
  BY <1>2 DEF ChangePrimary, Answers, Cooling, WalletInv, WalletTypes, ChangesAreOld, Change
<1> QED
  BY <1>1, <1>2 DEF WalletNext, CreateChallenge, Quote, Create, Bind, RequestChange,
                    ChangeFails, Tick

-----------------------------------------------------------------------------
(* The theorems.                                                           *)

\* Every withdrawal goes to a proved wallet that was the primary, and was asked for
\* a whole cooldown before if it took another's place, however long the request
\* waited for the user's row (changePrimaryWallet, requireEligiblePrimaryWallet).
THEOREM WithdrawalsRespectCooldowns == WalletSpec => []CooledDown
<1>1. WalletInv => CooledDown
  BY DEF WalletInv
<1> QED
  BY WalletInvariant, <1>1, PTL

\* A change that read the clock and then waited behind another cannot bring the end
\* of the cooldown forward: the other has ended its challenge (primary-change.ts:225).
THEOREM CooldownsGrow == WalletSpec => CooldownOnlyGrows
  BY WalletInvariant, StepKeepsCooldowns, PTL DEF WalletSpec, CooldownOnlyGrows

-----------------------------------------------------------------------------
(***************************************************************************)
(* Theorems about ChainHistory, for any chain, any page size and cap, any   *)
(* growth of the chain and any lag of the indexers while pages are read:    *)
(* what the audit of a campaign may say.                                    *)
(***************************************************************************)

\* The places of S are told apart by how many of S come after them.
LEMMA NewerRanks ==
  ASSUME NEW S, IsFiniteSet(S), S \subseteq Nat
  PROVE  /\ \A x \in S : Newer(S, x) \in 0 .. Cardinality(S) - 1
         /\ \A x, y \in S : y < x => Newer(S, x) < Newer(S, y)
<1> DEFINE After(x) == { z \in S : z > x }
<1>1. Cardinality(S) \in Nat
  BY FS_CardinalityType
<1>2. ASSUME NEW x \in S
      PROVE  /\ IsFiniteSet(After(x)) /\ Cardinality(After(x)) \in Nat
             /\ IsFiniteSet(After(x) \cup { x })
             /\ Cardinality(After(x) \cup { x }) = Cardinality(After(x)) + 1
             /\ Cardinality(After(x) \cup { x }) <= Cardinality(S)
  <2>1. After(x) \in SUBSET S /\ x \notin After(x) /\ After(x) \cup { x } \in SUBSET S
    OBVIOUS
  <2> HIDE DEF After
  <2>2. IsFiniteSet(After(x)) /\ Cardinality(After(x) \cup { x }) <= Cardinality(S)
    BY <2>1, FS_Subset
  <2>3. Cardinality(After(x)) \in Nat
    BY <2>2, FS_CardinalityType
  <2>4. /\ IsFiniteSet(After(x) \cup { x })
        /\ Cardinality(After(x) \cup { x }) = Cardinality(After(x)) + 1
    BY <2>1, <2>2, FS_AddElement
  <2> QED
    BY <2>2, <2>3, <2>4
<1>3. ASSUME NEW x \in S, NEW y \in S, y < x
      PROVE  Cardinality(After(x)) < Cardinality(After(y))
  <2>1. After(x) \cup { x } \in SUBSET After(y)
    <3>1. x \in Nat /\ y \in Nat
      OBVIOUS
    <3>2. ASSUME NEW z \in S, z > x PROVE z > y
      BY <1>3, <3>1, <3>2
    <3> QED
      BY <1>3, <3>2
  <2> HIDE DEF After
  <2>2. IsFiniteSet(After(y)) /\ Cardinality(After(y)) \in Nat
    BY <1>2
  <2>3. Cardinality(After(x) \cup { x }) <= Cardinality(After(y))
    BY <2>1, <2>2, FS_Subset
  <2>4. /\ Cardinality(After(x)) \in Nat
        /\ Cardinality(After(x) \cup { x }) = Cardinality(After(x)) + 1
    BY <1>2
  <2> QED
    BY <2>2, <2>3, <2>4
<1>4. \A x \in S : Newer(S, x) = Cardinality(After(x))
  BY DEF Newer
<1> HIDE DEF After
<1>5. ASSUME NEW x \in S PROVE Cardinality(After(x)) \in 0 .. Cardinality(S) - 1
  <2>1. /\ Cardinality(After(x)) \in Nat
        /\ Cardinality(After(x) \cup { x }) = Cardinality(After(x)) + 1
        /\ Cardinality(After(x) \cup { x }) <= Cardinality(S)
    BY <1>2
  <2> QED
    BY <1>1, <2>1
<1> QED
  BY <1>3, <1>4, <1>5

\* Every rank below that of a place of S is the rank of one.
LEMMA RanksAreFilled ==
  ASSUME NEW S, IsFiniteSet(S), S \subseteq Nat, NEW n \in 0 .. Cardinality(S) - 1
  PROVE  \E x \in S : Newer(S, x) = n
<1> DEFINE f == [x \in S |-> Newer(S, x)]
           T == 0 .. Cardinality(S) - 1
<1>1. Cardinality(S) \in Nat
  BY FS_CardinalityType
<1>2. IsFiniteSet(T) /\ Cardinality(T) = Cardinality(S)
  BY <1>1, FS_Interval
<1>3. f \in [S -> T] /\ \A x, y \in S : f[x] = f[y] => x = y
  <2>1. \A x \in S : Newer(S, x) \in T
    BY NewerRanks
  <2>2. ASSUME NEW x \in S, NEW y \in S, Newer(S, x) = Newer(S, y) PROVE x = y
    <3>1. /\ Newer(S, x) \in Int /\ ~(Newer(S, x) < Newer(S, x))
          /\ x \in Nat /\ y \in Nat
      BY <1>1, <2>1
    <3>2. ~(x < y) /\ ~(y < x)
      BY <2>2, <3>1, NewerRanks
    <3> QED
      BY <3>1, <3>2
  <2> HIDE DEF T
  <2> QED
    BY <2>1, <2>2
<1>4. f \in Injection(S, T)
  BY <1>3 DEF Injection, IsInjective
<1> HIDE DEF f, T
<1>5. f \in Surjection(S, T)
  BY <1>2, <1>4, FS_Injection
<1>6. \E x \in S : f[x] = n
  BY <1>5 DEF Surjection, T
<1> QED
  BY <1>6 DEF f

\* When a place is beyond a page, the page is full and all of it comes after.
LEMMA BeyondPage ==
  ASSUME NEW S, IsFiniteSet(S), S \subseteq Nat, NEW n \in Nat,
         NEW i \in S, Newer(S, i) >= n + PageSize
  PROVE  /\ Cardinality(PageOf(S, n)) >= PageSize
         /\ \A j \in PageOf(S, n) : i < j
<1> DEFINE rows == PageOf(S, n)
           T == n .. (n + PageSize - 1)
           f == [x \in rows |-> Newer(S, x)]
<1>1. PageSize \in Nat /\ Cardinality(S) \in Nat
  BY FS_CardinalityType, HistoryAssumption
<1>2. rows \in SUBSET S /\ \A x \in S : x \in rows <=> Newer(S, x) \in T
  BY DEF PageOf
<1>3. IsFiniteSet(rows) /\ f \in [rows -> T]
  <2>1. IsFiniteSet(rows)
    BY <1>2, FS_Subset
  <2> QED
    BY <1>2, <2>1
<1> HIDE DEF rows
<1>4. \A m \in T : \E x \in rows : f[x] = m
  <2> SUFFICES ASSUME NEW m \in T PROVE \E x \in rows : Newer(S, x) = m
    OBVIOUS
  <2>1. m \in 0 .. Cardinality(S) - 1
    <3>1. Newer(S, i) \in 0 .. Cardinality(S) - 1
      BY NewerRanks
    <3> QED
      BY <1>1, <3>1
  <2>2. PICK x \in S : Newer(S, x) = m
    BY <2>1, RanksAreFilled
  <2> QED
    BY <1>2, <2>2
<1>5. Cardinality(T) = PageSize
  BY <1>1, FS_Interval
<1>6. f \in Surjection(rows, T)
  BY <1>3, <1>4 DEF Surjection
<1>7. Cardinality(rows) >= PageSize
  <2>1. Cardinality(rows) \in Nat
    BY <1>3, FS_CardinalityType
  <2> HIDE DEF f, T
  <2>2. Cardinality(T) <= Cardinality(rows)
    BY <1>3, <1>6, FS_Surjection
  <2> QED
    BY <1>5, <2>1, <2>2
<1>8. ASSUME NEW j \in rows PROVE i < j
  <2>1. j \in S /\ Newer(S, j) \in n .. (n + PageSize - 1)
    BY <1>2
  <2>2. Newer(S, i) \in 0 .. Cardinality(S) - 1
    BY NewerRanks
  <2>3. Newer(S, i) \in Int /\ Newer(S, j) \in Int /\ Newer(S, j) < Newer(S, i)
    BY <1>1, <2>1, <2>2
  <2>4. j < i => Newer(S, i) < Newer(S, j)
    BY <2>1, NewerRanks
  <2>5. i # j /\ ~(j < i) /\ i \in Nat /\ j \in Nat
    BY <2>1, <2>3, <2>4
  <2> QED
    BY <2>5
<1> QED
  BY <1>7, <1>8 DEF rows

\* A place does not come forward when others are added to the query.
LEMMA NewerGrows ==
  ASSUME NEW S, NEW T, IsFiniteSet(T), S \subseteq T, T \subseteq Nat, NEW x
  PROVE  Newer(S, x) <= Newer(T, x) /\ Newer(S, x) \in Nat /\ Newer(T, x) \in Nat
<1> DEFINE A == { y \in S : y > x }
           B == { y \in T : y > x }
<1>1. A \in SUBSET B /\ B \in SUBSET T
  OBVIOUS
<1> HIDE DEF A, B
<1>2. IsFiniteSet(B)
  BY <1>1, FS_Subset
<1>3. IsFiniteSet(A) /\ Cardinality(A) <= Cardinality(B)
  BY <1>1, <1>2, FS_Subset
<1>4. Cardinality(A) \in Nat /\ Cardinality(B) \in Nat
  BY <1>2, <1>3, FS_CardinalityType
<1> QED
  BY <1>3, <1>4 DEF Newer, A, B

-----------------------------------------------------------------------------
\* A transfer of provider p is found, or among the rows p's reader has still to
\* ask for.
FoundBy(p, i) == \E f \in reader[p].found : f[2] = i

Ahead(p, i) ==
  IF p = "toncenter"
    THEN i \in TonCenterQuery => Newer(TonCenterQuery, i) >= reader["toncenter"].cursor
    ELSE i \in TonApiQuery

Reader == [ pages : Nat, cursor : Nat, found : SUBSET (Nat \X Nat), passed : SUBSET Nat,
            exhausted : BOOLEAN, past : BOOLEAN, blind : BOOLEAN, done : BOOLEAN ]

HistoryTypeOK ==
  /\ chain \in Seq(Transaction)
  /\ indexed \in [Providers -> Nat] /\ begun \in [Providers -> Nat]
  /\ \A p \in Providers : begun[p] <= indexed[p] /\ indexed[p] <= Len(chain)
  /\ reader \in [Providers -> Reader]

ChainIsSorted == \A i, j \in DOMAIN chain : i <= j => chain[i].time <= chain[j].time

\* What a reader has found is a transfer on the chain, and what its provider had
\* from the beginning and still owes it has found or will come to, unless it stops
\* too early; a blind one has stopped.
ReaderInv(p) ==
  /\ IsFiniteSet(reader[p].found)
  /\ \A f \in reader[p].found : f[2] \in DOMAIN chain /\ Outgoing(f[2])
  /\ reader[p].blind => reader[p].done
  /\ \A i \in Owed(p) : FoundBy(p, i) \/ (~Covered(reader[p]) /\ Ahead(p, i))

HistoryInv ==
  /\ HistoryTypeOK /\ ChainIsSorted
  /\ collector = "idle" => reader = [p \in Providers |-> Fresh]
  /\ collector # "idle" => \A p \in Providers : ReaderInv(p)
  /\ ZeroUnexpectedIsTrue

\* Before its first page a reader has everything ahead.
LEMMA FreshReader ==
  ASSUME HistoryTypeOK', reader' = [p \in Providers |-> Fresh], NEW p \in Providers
  PROVE  ReaderInv(p)'
<1>1. /\ reader'[p].found = {} /\ reader'[p].cursor = 0 /\ ~Covered(reader'[p])
      /\ reader'[p].blind = FALSE
  BY DEF Fresh, Covered
<1>2. ASSUME NEW i \in Due(p)' PROVE Ahead(p, i)'
  <2>1. i \in 1 .. indexed'[p]
    BY DEF HistoryTypeOK, Due
  <2>2. CASE p = "tonapi"
    BY <1>1, <2>1, <2>2 DEF Ahead, TonApiQuery
  <2>3. CASE p = "toncenter"
    <3>1. indexed'["toncenter"] \in Int /\ 1 \in Int
      BY <2>3 DEF HistoryTypeOK
    <3>2. IsFiniteSet(1 .. indexed'["toncenter"]) /\ 1 .. indexed'["toncenter"] \subseteq Nat
      BY <3>1, FS_Interval
    <3>3. TonCenterQuery' \in SUBSET (1 .. indexed'["toncenter"])
      BY DEF TonCenterQuery
    <3>4. IsFiniteSet(TonCenterQuery') /\ TonCenterQuery' \subseteq Nat
      BY <3>2, <3>3, FS_Subset
    <3>5. Newer(TonCenterQuery', i) \in Nat
      BY <3>4, NewerGrows
    <3> QED
      BY <1>1, <2>3, <3>5 DEF Ahead
  <2> QED
    BY <2>2, <2>3 DEF Providers
<1>3. IsFiniteSet(reader'[p].found)
  BY <1>1, FS_EmptySet
<1>4. \A i \in Owed(p)' : i \in Due(p)'
  BY DEF Owed
<1> QED
  BY <1>1, <1>2, <1>3, <1>4 DEF ReaderInv

LEMMA HistoryStarts == HistoryInit => HistoryInv
<1> SUFFICES ASSUME HistoryInit PROVE HistoryInv
  OBVIOUS
<1>1. PICK n \in 0 .. OldLength : chain \in [1 .. n -> Transaction]
  BY DEF HistoryInit
<1>2. n \in Nat
  BY HistoryAssumption
<1>3. chain \in Seq(Transaction) /\ Len(chain) = n
  BY <1>1, <1>2
<1>4. /\ indexed \in [Providers -> 0 .. Len(chain)] /\ begun = indexed
      /\ reader = [p \in Providers |-> Fresh] /\ collector = "idle"
  BY DEF HistoryInit, HistoryRest
<1>5. Fresh \in Reader
  BY DEF Fresh, Reader
<1>6. HistoryTypeOK
  BY <1>2, <1>3, <1>4, <1>5 DEF HistoryTypeOK
<1>7. ChainIsSorted
  BY DEF HistoryInit, ChainIsSorted
<1>8. ZeroUnexpectedIsTrue
  BY <1>4 DEF ZeroUnexpectedIsTrue
<1> QED
  BY <1>4, <1>6, <1>7, <1>8 DEF HistoryInv

-----------------------------------------------------------------------------
(* What a page does.                                                       *)

\* Whatever of provider p's has to be found is on the page, or the reader goes on
\* before it: a page that is short or reaches back behind the window leaves none.
LEMMA PageFinds ==
  ASSUME HistoryInv, NEW p \in Providers, NEW i \in Due(p), Ahead(p, i),
         NEW timed \in SUBSET Page(p), NEW mapped \in Mapped(timed),
         NEW oldest \in Oldest(p, timed),
         NEW after, after = AfterPage(p, Page(p), timed, mapped, oldest),
         i \notin after.passed, ~after.blind, ~ \E f \in after.found : f[2] = i
  PROVE  /\ ~Covered(after)
         /\ p = "toncenter" => /\ Newer(TonCenterQuery, i) >= after.cursor
                               /\ i \in TonCenterQuery
         /\ p = "tonapi" => i < after.cursor /\ i \in 1 .. indexed["tonapi"]
<1> DEFINE S == IF p = "toncenter" THEN TonCenterQuery ELSE TonApiQuery
           n == IF p = "toncenter" THEN reader["toncenter"].cursor ELSE 0
           rows == PageOf(S, n)
           past == \E j \in timed : PastStart(chain[j].time)
<1>1. p \in { "toncenter", "tonapi" } /\ rows = Page(p)
  BY DEF Providers, Page, TonCenterRows, TonApiRows
<1>2. /\ i \in 1 .. begun[p] /\ Outgoing(i)
      /\ begun[p] \in Nat /\ indexed[p] \in Nat /\ Len(chain) \in Nat
      /\ begun[p] <= indexed[p] /\ indexed[p] <= Len(chain)
      /\ DOMAIN chain = 1 .. Len(chain) /\ chain \in Seq(Transaction)
  BY DEF HistoryInv, HistoryTypeOK, Due
<1>3. i \in S /\ i \in 1 .. indexed[p] /\ i \in DOMAIN chain
  BY <1>1, <1>2 DEF Ahead, TonCenterQuery, Outgoing
<1>4. n \in Nat /\ PageSize \in Nat /\ PageSize > 0 /\ reader[p] \in Reader
  <2>1. reader[p] \in Reader /\ "toncenter" \in Providers
    BY DEF HistoryInv, HistoryTypeOK, Providers
  <2>2. reader["toncenter"].cursor \in Nat
    BY <2>1 DEF HistoryInv, HistoryTypeOK, Reader
  <2> QED
    BY <2>1, <2>2, HistoryAssumption
<1>5. IsFiniteSet(S) /\ S \subseteq 1 .. indexed[p]
  <2>1. S \in SUBSET (1 .. indexed[p])
    BY <1>1 DEF TonCenterQuery, TonApiQuery
  <2>2. IsFiniteSet(1 .. indexed[p])
    <3>1. indexed[p] \in Int /\ 1 \in Int
      BY <1>2
    <3> QED
      BY <3>1, FS_Interval
  <2> HIDE DEF S
  <2> QED
    BY <2>1, <2>2, FS_Subset
<1>6. /\ after.found = reader[p].found \cup { << reader[p].pages + 1, j >> : j \in mapped }
      /\ after.passed = reader[p].passed \cup { j \in rows \ mapped : Outgoing(j) }
      /\ after.past = past
      /\ after.blind = (p = "tonapi" /\ oldest = 0 /\ ~past /\ ~(Cardinality(rows) < PageSize))
      /\ after.exhausted = (~past /\ (Cardinality(rows) < PageSize \/ after.blind))
      /\ ~after.past /\ ~after.exhausted => after.cursor = NextCursor(p, oldest)
  BY <1>1 DEF AfterPage
<1> HIDE DEF S, n
<1>7. rows \subseteq S /\ \A j \in S : Newer(S, j) \in n .. (n + PageSize - 1) => j \in rows
  BY DEF PageOf
<1>8. i \notin rows
  <2> SUFFICES ASSUME i \in rows PROVE FALSE
    OBVIOUS
  <2>1. i \in mapped
    BY <1>2, <1>6
  <2>2. << reader[p].pages + 1, i >> \in after.found
    BY <1>6, <2>1
  <2> QED
    BY <2>2
<1>9. Newer(S, i) \in Nat /\ Newer(S, i) >= n + PageSize
  <2>1. S \subseteq Nat
    BY <1>2, <1>5
  <2>2. Newer(S, i) \in Nat
    BY <1>5, <2>1, NewerGrows
  <2>3. Newer(S, i) >= n
    BY <1>1, <1>3, <2>2 DEF S, n, Ahead
  <2> QED
    BY <1>3, <1>4, <1>7, <1>8, <2>2, <2>3
<1>10. Cardinality(rows) >= PageSize /\ \A j \in rows : i < j
  <2>1. S \subseteq Nat
    BY <1>2, <1>5
  <2> QED
    BY <1>3, <1>4, <1>5, <1>9, <2>1, BeyondPage
<1>11. IsFiniteSet(rows) /\ Cardinality(rows) \in Nat
  <2>1. rows \in SUBSET S
    BY <1>7
  <2> HIDE DEF rows
  <2>2. IsFiniteSet(rows)
    BY <1>5, <2>1, FS_Subset
  <2> QED
    BY <2>2, FS_CardinalityType
<1>12. ~past
  <2> SUFFICES ASSUME NEW j \in timed, PastStart(chain[j].time) PROVE FALSE
    OBVIOUS
  <2>0. j \in rows
    BY <1>1
  <2>1. j \in DOMAIN chain /\ i <= j
    BY <1>2, <1>3, <1>5, <1>7, <1>10, <2>0
  <2>2. chain[i].time <= chain[j].time
    BY <1>3, <2>1 DEF HistoryInv, ChainIsSorted
  <2>3. chain[i] \in Transaction /\ chain[j] \in Transaction
    BY <1>2, <1>3, <2>1
  <2>4. chain[i].time \in Int /\ chain[j].time \in Int
    BY <2>3 DEF Transaction
  <2>5. chain[i].time \in WindowStart .. WindowEnd /\ chain[j].time < WindowStart
    BY <1>2 DEF Outgoing, InWindow, PastStart
  <2>6. WindowStart \in Nat
    BY HistoryAssumption
  <2> QED
    BY <2>2, <2>4, <2>5, <2>6
<1>13. ~Covered(after) /\ after.cursor = NextCursor(p, oldest)
  <2>1. ~(Cardinality(rows) < PageSize)
    BY <1>4, <1>10, <1>11
  <2>2. after.past = FALSE /\ after.exhausted = FALSE
    BY <1>6, <1>12, <2>1
  <2> QED
    BY <1>6, <2>2 DEF Covered
<1>14. CASE p = "toncenter"
  <2>1. after.cursor = n + PageSize /\ S = TonCenterQuery
    BY <1>13, <1>14 DEF NextCursor, n, S
  <2> QED
    BY <1>3, <1>9, <1>13, <1>14, <2>1
<1>15. CASE p = "tonapi"
  <2>1. after.cursor = oldest
    BY <1>13, <1>15 DEF NextCursor
  <2>2. oldest # 0
    <3>1. ~(Cardinality(rows) < PageSize)
      BY <1>4, <1>10, <1>11
    <3> QED
      BY <1>6, <1>12, <1>15, <3>1
  <2>3. oldest \in rows
    BY <1>1, <1>15, <2>2 DEF Oldest
  <2> QED
    BY <1>3, <1>10, <1>13, <1>15, <2>1, <2>3
<1> QED
  BY <1>1, <1>14, <1>15

-----------------------------------------------------------------------------
(* What a step of the others does to a reader: nothing.                    *)

\* A query that only grows keeps what is ahead of the reader ahead of it.
LEMMA ReaderStays ==
  ASSUME HistoryTypeOK, HistoryTypeOK', NEW p \in Providers, ReaderInv(p),
         reader'[p] = reader[p], UNCHANGED << begun, filters >>,
         \A q \in Providers : indexed[q] <= indexed'[q],
         Len(chain) <= Len(chain'), \A i \in DOMAIN chain : chain'[i] = chain[i]
  PROVE  ReaderInv(p)' /\ Owed(p)' = Owed(p)
<1>1. /\ begun[p] \in Nat /\ indexed[p] \in Nat /\ indexed'[p] \in Nat
      /\ Len(chain) \in Nat /\ Len(chain') \in Nat
      /\ begun[p] <= indexed[p] /\ indexed[p] <= Len(chain) /\ indexed[p] <= indexed'[p]
      /\ DOMAIN chain = 1 .. Len(chain) /\ DOMAIN chain' = 1 .. Len(chain')
      /\ indexed'[p] <= Len(chain')
  BY DEF HistoryTypeOK
<1>2. \A i \in 1 .. begun[p] : i \in DOMAIN chain
  BY <1>1
<1>3. ASSUME NEW i \in DOMAIN chain PROVE Outgoing(i)' <=> Outgoing(i)
  BY DEF Outgoing
<1>4. Due(p)' = Due(p) /\ Owed(p)' = Owed(p)
  <2>1. Due(p)' = Due(p)
    BY <1>2, <1>3 DEF Due
  <2> QED
    BY <2>1 DEF Owed
<1>5. ASSUME NEW f \in reader'[p].found PROVE f[2] \in DOMAIN chain' /\ Outgoing(f[2])'
  <2>1. f[2] \in DOMAIN chain /\ Outgoing(f[2])
    BY DEF ReaderInv
  <2>2. f[2] \in DOMAIN chain'
    BY <1>1, <2>1
  <2> QED
    BY <1>3, <2>1, <2>2
<1>6. ASSUME NEW i \in Due(p), Ahead(p, i) PROVE Ahead(p, i)'
  <2>1. CASE p = "toncenter"
    <3> SUFFICES ASSUME i \in TonCenterQuery'
                 PROVE  Newer(TonCenterQuery', i) >= reader["toncenter"].cursor
      BY <2>1 DEF Ahead
    <3>1. i \in TonCenterQuery
      BY <1>1, <2>1 DEF TonCenterQuery, Due
    <3>2. TonCenterQuery \subseteq TonCenterQuery'
      <4> SUFFICES ASSUME NEW j \in TonCenterQuery PROVE j \in TonCenterQuery'
        OBVIOUS
      <4>1. j \in 1 .. indexed[p] /\ (filters => InWindow(chain[j].time))
        BY <2>1 DEF TonCenterQuery
      <4>2. j \in DOMAIN chain /\ j \in 1 .. indexed'[p]
        BY <1>1, <4>1
      <4> QED
        BY <2>1, <4>1, <4>2 DEF TonCenterQuery
    <3>3. IsFiniteSet(TonCenterQuery') /\ TonCenterQuery' \subseteq Nat
      <4>1. IsFiniteSet(1 .. indexed'[p]) /\ 1 .. indexed'[p] \subseteq Nat
        <5>1. indexed'[p] \in Int /\ 1 \in Int
          BY <1>1
        <5> QED
          BY <5>1, FS_Interval
      <4>2. TonCenterQuery' \in SUBSET (1 .. indexed'[p])
        BY <2>1 DEF TonCenterQuery
      <4> QED
        BY <4>1, <4>2, FS_Subset
    <3>4. /\ Newer(TonCenterQuery, i) <= Newer(TonCenterQuery', i)
          /\ Newer(TonCenterQuery, i) \in Nat /\ Newer(TonCenterQuery', i) \in Nat
      BY <3>2, <3>3, NewerGrows
    <3>5. Newer(TonCenterQuery, i) >= reader["toncenter"].cursor
      BY <2>1, <1>6, <3>1 DEF Ahead
    <3>6. reader["toncenter"].cursor \in Nat
      BY <2>1 DEF HistoryTypeOK, Reader
    <3> QED
      BY <3>4, <3>5, <3>6
  <2>2. CASE p = "tonapi"
    <3>1. i \in 1 .. indexed[p] /\ (reader[p].cursor # 0 => i < reader[p].cursor)
      BY <1>6, <2>2 DEF Ahead, TonApiQuery
    <3>2. i \in 1 .. indexed'[p]
      BY <1>1, <3>1
    <3> QED
      BY <2>2, <3>1, <3>2 DEF Ahead, TonApiQuery
  <2> QED
    BY <2>1, <2>2 DEF Providers
<1>7. ASSUME NEW i \in Owed(p)'
      PROVE  FoundBy(p, i)' \/ (~Covered(reader'[p]) /\ Ahead(p, i)')
  <2>1. i \in Owed(p) /\ i \in Due(p)
    BY <1>4 DEF Owed
  <2> QED
    BY <1>6, <2>1 DEF ReaderInv, FoundBy
<1>8. IsFiniteSet(reader'[p].found) /\ (reader'[p].blind => reader'[p].done)
  BY DEF ReaderInv
<1> QED
  BY <1>4, <1>5, <1>7, <1>8 DEF ReaderInv

-----------------------------------------------------------------------------
(* What a page keeps.                                                      *)

LEMMA TaggedIsFinite ==
  ASSUME NEW S, IsFiniteSet(S), NEW c PROVE IsFiniteSet({ << c, j >> : j \in S })
<1> DEFINE T == { << c, j >> : j \in S }
           f == [j \in S |-> << c, j >>]
<1>1. f \in Surjection(S, T)
  BY DEF Surjection
<1> HIDE DEF f
<1> QED
  BY <1>1, FS_Surjection

LEMMA PageIsPart ==
  ASSUME HistoryTypeOK, NEW p \in Providers
  PROVE  IsFiniteSet(Page(p)) /\ Page(p) \subseteq 1 .. indexed[p]
<1>1. IsFiniteSet(1 .. indexed[p])
  <2>1. indexed[p] \in Int /\ 1 \in Int
    BY DEF HistoryTypeOK
  <2> QED
    BY <2>1, FS_Interval
<1>2. Page(p) \in SUBSET (1 .. indexed[p])
  BY DEF Providers, Page, TonCenterRows, TonApiRows, PageOf, TonCenterQuery, TonApiQuery
<1> QED
  BY <1>1, <1>2, FS_Subset

LEMMA ReaderOf ==
  ASSUME NEW pages \in Nat, NEW cursor \in Nat, NEW found \in SUBSET (Nat \X Nat),
         NEW passed \in SUBSET Nat, NEW exhausted \in BOOLEAN, NEW past \in BOOLEAN,
         NEW blind \in BOOLEAN, NEW done \in BOOLEAN
  PROVE  [ pages |-> pages, cursor |-> cursor, found |-> found, passed |-> passed,
           exhausted |-> exhausted, past |-> past, blind |-> blind, done |-> done ] \in Reader
  BY DEF Reader

\* A reader is one after a page too, and what it adds are transfers.
LEMMA PageAdds ==
  ASSUME HistoryTypeOK, NEW p \in Providers, ReaderInv(p),
         NEW timed \in SUBSET Page(p), NEW mapped \in Mapped(timed),
         NEW oldest \in Oldest(p, timed)
  PROVE  LET after == AfterPage(p, Page(p), timed, mapped, oldest)
         IN  /\ after \in Reader /\ IsFiniteSet(after.found)
             /\ reader[p].found \subseteq after.found /\ reader[p].passed \subseteq after.passed
             /\ after.blind => after.done
             /\ \A f \in after.found : f[2] \in DOMAIN chain /\ Outgoing(f[2])
<1> DEFINE rows == Page(p)
           added == { << reader[p].pages + 1, j >> : j \in mapped }
           left == { j \in rows \ mapped : Outgoing(j) }
           past == \E j \in timed : PastStart(chain[j].time)
           short == Cardinality(rows) < PageSize
           blind == p = "tonapi" /\ oldest = 0 /\ ~past /\ ~short
           exhausted == ~past /\ (short \/ blind)
           done == past \/ exhausted \/ reader[p].pages + 1 = MaxPages
           cursor == IF past \/ exhausted THEN reader[p].cursor ELSE NextCursor(p, oldest)
<1>1. /\ IsFiniteSet(rows) /\ rows \subseteq 1 .. indexed[p] /\ timed \subseteq rows
      /\ mapped \subseteq timed /\ \A j \in mapped : Outgoing(j)
  BY PageIsPart DEF Mapped
<1>2. /\ reader[p] \in Reader /\ reader[p].pages \in Nat /\ reader[p].cursor \in Nat
      /\ reader[p].found \in SUBSET (Nat \X Nat) /\ reader[p].passed \in SUBSET Nat
      /\ indexed[p] \in Nat /\ Len(chain) \in Nat /\ indexed[p] <= Len(chain)
      /\ DOMAIN chain = 1 .. Len(chain)
  BY DEF HistoryTypeOK, Reader
<1>3. AfterPage(p, Page(p), timed, mapped, oldest) =
           [ pages |-> reader[p].pages + 1, cursor |-> cursor,
             found |-> reader[p].found \cup added, passed |-> reader[p].passed \cup left,
             exhausted |-> exhausted, past |-> past, blind |-> blind, done |-> done ]
  BY DEF AfterPage
<1>4. blind => exhausted /\ done
  OBVIOUS
<1>5. past \in BOOLEAN /\ exhausted \in BOOLEAN /\ blind \in BOOLEAN /\ done \in BOOLEAN
  OBVIOUS
<1>6. cursor \in Nat
  <2>1. oldest \in Nat
    BY <1>1, <1>2 DEF Oldest
  <2>2. reader[p].cursor + PageSize \in Nat
    BY <1>2, HistoryAssumption
  <2>3. NextCursor(p, oldest) \in Nat
    BY <2>1, <2>2 DEF NextCursor
  <2> HIDE DEF past, exhausted
  <2> QED
    BY <1>2, <2>3
<1> HIDE DEF past, exhausted, blind, done, cursor
<1>7. added \in SUBSET (Nat \X Nat) /\ left \in SUBSET Nat
  BY <1>1, <1>2
<1>8. AfterPage(p, Page(p), timed, mapped, oldest) \in Reader
  <2> DEFINE pages == reader[p].pages + 1
             found == reader[p].found \cup added
             passed == reader[p].passed \cup left
  <2> HIDE DEF added, left
  <2>1. pages \in Nat /\ found \in SUBSET (Nat \X Nat) /\ passed \in SUBSET Nat
    <3>1. pages \in Nat
      BY <1>2
    <3> DEFINE pairs == Nat \X Nat
    <3>2. reader[p].found \in SUBSET pairs /\ added \in SUBSET pairs
      BY <1>2, <1>7
    <3> HIDE DEF pairs
    <3>3. found \in SUBSET pairs
      BY <3>2
    <3>4. passed \in SUBSET Nat
      BY <1>2, <1>7
    <3> QED
      BY <3>1, <3>3, <3>4 DEF pairs
  <2>2. AfterPage(p, Page(p), timed, mapped, oldest) =
             [ pages |-> pages, cursor |-> cursor, found |-> found, passed |-> passed,
               exhausted |-> exhausted, past |-> past, blind |-> blind, done |-> done ]
    BY <1>3
  <2> HIDE DEF pages, found, passed
  <2>3. [ pages |-> pages, cursor |-> cursor, found |-> found, passed |-> passed,
          exhausted |-> exhausted, past |-> past, blind |-> blind, done |-> done ] \in Reader
    BY <1>5, <1>6, <2>1, ReaderOf
  <2> QED
    BY <2>2, <2>3
<1>9. IsFiniteSet(reader[p].found \cup added)
  <2>1. mapped \in SUBSET rows
    BY <1>1
  <2>2. IsFiniteSet(mapped)
    BY <1>1, <2>1, FS_Subset
  <2>3. IsFiniteSet(added)
    BY <2>2, TaggedIsFinite
  <2>4. IsFiniteSet(reader[p].found)
    BY DEF ReaderInv
  <2> HIDE DEF added
  <2> QED
    BY <2>3, <2>4, FS_Union
<1>10. ASSUME NEW f \in reader[p].found \cup added
      PROVE  f[2] \in DOMAIN chain /\ Outgoing(f[2])
  <2>1. CASE f \in reader[p].found
    BY <2>1 DEF ReaderInv
  <2>2. CASE f \in added
    <3>1. f[2] \in rows /\ Outgoing(f[2])
      BY <1>1, <2>2
    <3> QED
      BY <1>1, <1>2, <3>1
  <2> QED
    BY <2>1, <2>2
<1> HIDE DEF added, left
<1> QED
  BY <1>3, <1>4, <1>8, <1>9, <1>10

LEMMA DiscoveriesAreProven ==
  ASSUME HistoryTypeOK, NEW found, NEW hints \in Suggested(found)
  PROVE  LET extra == Discovered(hints)
         IN  /\ extra \in SUBSET (Nat \X Nat) /\ IsFiniteSet(extra)
             /\ \A f \in extra : f[2] \in DOMAIN chain /\ Outgoing(f[2])
<1> DEFINE all == 1 .. indexed["tonapi"]
<1>1. /\ indexed["tonapi"] \in Nat /\ Len(chain) \in Nat /\ indexed["tonapi"] <= Len(chain)
      /\ DOMAIN chain = 1 .. Len(chain)
  BY DEF HistoryTypeOK, Providers
<1>2. hints \in SUBSET all /\ \A i \in hints : Outgoing(i)
  BY DEF Suggested
<1>3. IsFiniteSet(all)
  <2>1. indexed["tonapi"] \in Int /\ 1 \in Int
    BY <1>1
  <2> QED
    BY <2>1, FS_Interval
<1>4. Discovered(hints) = { << 0, i >> : i \in hints }
  BY DEF Discovered
<1>5. ASSUME NEW f \in Discovered(hints)
      PROVE  /\ f \in Nat \X Nat /\ f[2] \in DOMAIN chain /\ Outgoing(f[2])
  <2>1. PICK i \in hints : f = << 0, i >>
    BY <1>4
  <2>2. i \in all /\ Outgoing(i)
    BY <1>2, <2>1
  <2> QED
    BY <1>1, <2>1, <2>2
<1> HIDE DEF all
<1>6. IsFiniteSet(hints)
  BY <1>2, <1>3, FS_Subset
<1>7. IsFiniteSet({ << 0, j >> : j \in hints })
  BY <1>6, TaggedIsFinite
<1> QED
  BY <1>4, <1>5, <1>7

LEMMA PageKeeps ==
  ASSUME HistoryInv, NEW p \in Providers, ReadPage(p)
  PROVE  HistoryInv'
<1>0. PICK timed \in SUBSET Page(p) :
        \E mapped \in Mapped(timed) : \E oldest \in Oldest(p, timed) :
          TakesIn(p, AfterPage(p, Page(p), timed, mapped, oldest))
  BY DEF ReadPage
<1>a. PICK mapped \in Mapped(timed) : \E oldest \in Oldest(p, timed) :
        TakesIn(p, AfterPage(p, Page(p), timed, mapped, oldest))
  BY <1>0
<1>b. PICK oldest \in Oldest(p, timed) :
        TakesIn(p, AfterPage(p, Page(p), timed, mapped, oldest))
  BY <1>a
<1> DEFINE after == AfterPage(p, Page(p), timed, mapped, oldest)
<1>1. /\ collector = "reading" /\ collector' = "reading" /\ ~reader[p].done
      /\ UNCHANGED << chain, indexed, begun, payouts, collector, filters >>
      /\ HistoryTypeOK /\ ReaderInv(p) /\ (\A q \in Providers : ReaderInv(q))
  BY DEF ReadPage, Reading, HistoryInv
<1>2. /\ after \in Reader /\ IsFiniteSet(after.found)
      /\ reader[p].found \subseteq after.found /\ reader[p].passed \subseteq after.passed
      /\ after.blind => after.done
      /\ \A f \in after.found : f[2] \in DOMAIN chain /\ Outgoing(f[2])
  BY <1>1, PageAdds
<1>3. PICK extra \in SUBSET (Nat \X Nat) :
        /\ reader' = [reader EXCEPT ![p] = [after EXCEPT !.found = @ \cup extra]]
        /\ IsFiniteSet(extra)
        /\ \A f \in extra : f[2] \in DOMAIN chain /\ Outgoing(f[2])
  <2>1. CASE p = "tonapi" /\ after.done
    <3>1. PICK hints \in Suggested(after.found) :
            reader' = [reader EXCEPT ![p] = [after EXCEPT !.found = @ \cup Discovered(hints)]]
      BY <1>b, <2>1 DEF TakesIn
    <3> HIDE DEF after
    <3>2. /\ Discovered(hints) \in SUBSET (Nat \X Nat) /\ IsFiniteSet(Discovered(hints))
          /\ \A f \in Discovered(hints) : f[2] \in DOMAIN chain /\ Outgoing(f[2])
      BY <1>1, DiscoveriesAreProven
    <3> QED
      BY <3>1, <3>2
  <2>2. CASE ~(p = "tonapi" /\ after.done)
    <3>1. reader' = [reader EXCEPT ![p] = after]
      BY <1>b, <2>2 DEF TakesIn
    <3>2. after = [after EXCEPT !.found = @ \cup {}]
      <4> HIDE DEF after
      <4> QED
        BY <1>2 DEF Reader
    <3> HIDE DEF after
    <3> QED
      BY <3>1, <3>2, FS_EmptySet
  <2> QED
    BY <2>1, <2>2
<1>4. /\ reader \in [Providers -> Reader] /\ reader' \in [Providers -> Reader]
      /\ reader'[p].found = after.found \cup extra /\ reader'[p].cursor = after.cursor
      /\ reader'[p].passed = after.passed /\ reader'[p].blind = after.blind
      /\ reader'[p].done = after.done
      /\ (Covered(reader'[p]) <=> Covered(after))
      /\ \A q \in Providers : q # p => reader'[q] = reader[q]
  <2> HIDE DEF after
  <2>1. reader \in [Providers -> Reader]
    BY <1>1 DEF HistoryTypeOK
  <2> QED
    BY <1>2, <1>3, <2>1 DEF Reader, Covered
<1>5. HistoryTypeOK'
  BY <1>1, <1>4 DEF HistoryTypeOK
<1>6. ASSUME NEW i \in Due(p), i \notin after.passed, ~after.blind
      PROVE  \/ \E f \in reader'[p].found : f[2] = i
             \/ ~Covered(reader'[p]) /\ Ahead(p, i)'
  <2>1. CASE FoundBy(p, i)
    <3>1. reader[p].found \subseteq after.found
      BY <1>2
    <3> QED
      BY <1>4, <2>1, <3>1 DEF FoundBy
  <2>2. CASE ~FoundBy(p, i) /\ ~ \E f \in after.found : f[2] = i
    <3>1. Ahead(p, i)
      <4>1. i \notin reader[p].passed /\ ~reader[p].blind
        BY <1>1, <1>2, <1>6 DEF ReaderInv
      <4> QED
        BY <1>1, <2>2, <4>1 DEF ReaderInv, Owed
    <3>2. /\ ~Covered(after)
          /\ p = "toncenter" => Newer(TonCenterQuery, i) >= after.cursor
          /\ p = "tonapi" => i < after.cursor /\ i \in 1 .. indexed["tonapi"]
      <4> HIDE DEF after
      <4> QED
        BY <1>6, <2>2, <3>1, PageFinds DEF after
    <3>3. TonCenterQuery' = TonCenterQuery
      BY <1>1 DEF TonCenterQuery
    <3> HIDE DEF after
    <3>4. Ahead(p, i)'
      BY <1>1, <1>4, <3>2, <3>3 DEF Ahead, TonApiQuery, Providers
    <3> QED
      BY <1>4, <3>2, <3>4
  <2>3. CASE \E f \in after.found : f[2] = i
    BY <1>4, <2>3
  <2> QED
    BY <2>1, <2>2, <2>3
<1> HIDE DEF after
<1>7. ReaderInv(p)'
  <2>1. \A i \in Owed(p)' : i \in Due(p) /\ i \notin after.passed /\ ~after.blind
    BY <1>1, <1>4 DEF Owed, Due, Outgoing
  <2>2. IsFiniteSet(reader'[p].found)
    <3>1. IsFiniteSet(after.found \cup extra)
      BY <1>2, <1>3, FS_Union
    <3> QED
      BY <1>4, <3>1
  <2>3. \A f \in reader'[p].found : f[2] \in DOMAIN chain' /\ Outgoing(f[2])'
    BY <1>1, <1>2, <1>3, <1>4 DEF Outgoing
  <2>4. reader'[p].blind => reader'[p].done
    BY <1>2, <1>4
  <2> QED
    BY <1>6, <2>1, <2>2, <2>3, <2>4 DEF ReaderInv, FoundBy
<1>8. ASSUME NEW q \in Providers, q # p PROVE ReaderInv(q)'
  <2>1. /\ \A r \in Providers : indexed[r] <= indexed'[r]
        /\ Len(chain) <= Len(chain') /\ \A i \in DOMAIN chain : chain'[i] = chain[i]
    BY <1>1 DEF HistoryTypeOK
  <2> QED
    BY <1>1, <1>4, <1>5, <1>8, <2>1, ReaderStays
<1>9. ChainIsSorted' /\ ZeroUnexpectedIsTrue'
  BY <1>1 DEF HistoryInv, ChainIsSorted, ZeroUnexpectedIsTrue
<1> QED
  BY <1>1, <1>5, <1>7, <1>8, <1>9 DEF HistoryInv

-----------------------------------------------------------------------------
(* What the comparison says.                                               *)

\* Two transfers of one identity that a provider shows count for two.
LEMMA TwoAreCounted ==
  ASSUME NEW p \in Providers, ReaderInv(p), NEW k
  PROVE  /\ Count(p, k) \in Nat
         /\ Count(p, k) = 0 <=> \A f \in reader[p].found : chain[f[2]].key # k
         /\ \A f, g \in reader[p].found :
              f # g /\ chain[f[2]].key = k /\ chain[g[2]].key = k => Count(p, k) > 1
<1> DEFINE C == { f \in reader[p].found : chain[f[2]].key = k }
<1>1. IsFiniteSet(reader[p].found) /\ C \in SUBSET reader[p].found
  BY DEF ReaderInv
<1>2. Count(p, k) = Cardinality(C)
  BY DEF Count
<1>3. \A f \in reader[p].found : f \in C <=> chain[f[2]].key = k
  OBVIOUS
<1> HIDE DEF C
<1>4. IsFiniteSet(C)
  BY <1>1, FS_Subset
<1>5. Cardinality(C) \in Nat /\ (Cardinality(C) = 0 <=> C = {})
  BY <1>4, FS_CardinalityType, FS_EmptySet
<1>6. ASSUME NEW f \in C, NEW g \in C, f # g PROVE Cardinality(C) > 1
  <2>1. Cardinality(C) # 1
    <3> SUFFICES ASSUME Cardinality(C) = 1 PROVE FALSE
      OBVIOUS
    <3>1. \E x : C = { x }
      BY <1>4, FS_Singleton
    <3> QED
      BY <1>6, <3>1
  <2>2. Cardinality(C) # 0
    BY <1>5, <1>6
  <2> QED
    BY <1>5, <2>1, <2>2
<1> QED
  BY <1>1, <1>2, <1>3, <1>5, <1>6

LEMMA CleanIsTrue ==
  ASSUME HistoryTypeOK, \A p \in Providers : ReaderInv(p), Result = "ZERO_UNEXPECTED"
  PROVE  /\ \A p \in Providers: \A i \in Owed(p):
              /\ chain[i].key \in Expected
              /\ \A j \in Owed(p): chain[j].key = chain[i].key => i = j
         /\ \A k \in Expected: \E i \in DOMAIN chain:
              chain[i].key = k /\ InWindow(chain[i].time)
<1>1. /\ \A p \in Providers : Covered(reader[p])
      /\ Agreement
      /\ \A k \in Expected : ~(Count("toncenter", k) > 1) /\ Count("toncenter", k) # 0
      /\ \A k \in Keys \ Expected : ~(Count("toncenter", k) > 0)
  BY DEF Result
<1>2. "toncenter" \in Providers
  BY DEF Providers
<1>3. ASSUME NEW p \in Providers, NEW i \in Owed(p)
      PROVE  /\ \E f \in reader[p].found : f[2] = i
             /\ chain[i].key \in Keys
  <2>1. \E f \in reader[p].found : f[2] = i
    BY <1>1 DEF ReaderInv, FoundBy
  <2>2. i \in 1 .. begun[p] /\ chain[i].key # NoTransfer
    BY DEF Owed, Due, Outgoing
  <2>3. i \in DOMAIN chain
    <3>1. /\ begun[p] \in Nat /\ indexed[p] \in Nat /\ Len(chain) \in Nat
          /\ begun[p] <= indexed[p] /\ indexed[p] <= Len(chain)
          /\ DOMAIN chain = 1 .. Len(chain)
      BY DEF HistoryTypeOK
    <3> QED
      BY <2>2, <3>1
  <2>4. chain[i] \in Transaction
    BY <2>3 DEF HistoryTypeOK
  <2> QED
    BY <2>1, <2>2, <2>4 DEF Transaction
<1>4. ASSUME NEW p \in Providers, NEW i \in Owed(p)
      PROVE  chain[i].key \in Expected
  <2> DEFINE k == chain[i].key
  <2>1. PICK f \in reader[p].found : chain[f[2]].key = k
    BY <1>3
  <2>2. k \in Keys
    BY <1>3
  <2> HIDE DEF k
  <2>3. Count(p, k) \in Nat /\ Count(p, k) # 0
    BY <2>1, TwoAreCounted
  <2>4. Count("toncenter", k) \in Nat /\ Count("toncenter", k) # 0
    <3>1. Count("toncenter", k) = Count("tonapi", k)
      BY <1>1, <2>2 DEF Agreement
    <3> QED
      BY <2>3, <3>1 DEF Providers
  <2> QED
    BY <1>1, <2>2, <2>4 DEF k
<1>5. ASSUME NEW p \in Providers, NEW i \in Owed(p), NEW j \in Owed(p),
             chain[j].key = chain[i].key, i # j
      PROVE  FALSE
  <2> DEFINE k == chain[i].key
  <2>1. PICK f \in reader[p].found : f[2] = i
    BY <1>3
  <2>2. PICK g \in reader[p].found : g[2] = j
    BY <1>3
  <2>3. /\ f # g /\ chain[f[2]].key = k /\ chain[g[2]].key = k
        /\ k \in Keys /\ k \in Expected
    BY <1>3, <1>4, <1>5, <2>1, <2>2
  <2> HIDE DEF k
  <2>4. Count(p, k) > 1
    BY <2>3, TwoAreCounted
  <2>5. Count("toncenter", k) = Count("tonapi", k)
    BY <1>1, <2>3 DEF Agreement
  <2> QED
    BY <1>1, <2>3, <2>4, <2>5 DEF Providers
<1>6. ASSUME NEW k \in Expected
      PROVE  \E i \in DOMAIN chain : chain[i].key = k /\ InWindow(chain[i].time)
  <2>1. PICK f \in reader["toncenter"].found : chain[f[2]].key = k
    BY <1>1, <1>2, TwoAreCounted
  <2>2. f[2] \in DOMAIN chain /\ Outgoing(f[2])
    BY <1>2 DEF ReaderInv
  <2> QED
    BY <2>1, <2>2 DEF Outgoing
<1> QED
  BY <1>4, <1>5, <1>6

-----------------------------------------------------------------------------
(* The steps.                                                              *)

LEMMA ExtendKeeps ==
  ASSUME HistoryInv, Extend PROVE HistoryInv'
<1>1. /\ collector = "reading"
      /\ UNCHANGED << indexed, begun, payouts, collector, reader, filters >>
  BY DEF Extend, Reading
<1>2. PICK t \in Transaction : /\ \A i \in DOMAIN chain : chain[i].time <= t.time
                              /\ chain' = Append(chain, t)
  BY DEF Extend
<1>3. /\ chain \in Seq(Transaction) /\ chain' \in Seq(Transaction)
      /\ Len(chain) \in Nat /\ Len(chain') = Len(chain) + 1
      /\ DOMAIN chain = 1 .. Len(chain) /\ DOMAIN chain' = 1 .. Len(chain')
      /\ \A i \in DOMAIN chain : chain'[i] = chain[i]
      /\ chain'[Len(chain')] = t
  BY <1>2 DEF HistoryInv, HistoryTypeOK
<1>4. HistoryTypeOK'
  <2>1. /\ indexed \in [Providers -> Nat] /\ begun \in [Providers -> Nat]
        /\ \A p \in Providers : begun[p] <= indexed[p] /\ indexed[p] <= Len(chain)
        /\ reader \in [Providers -> Reader]
    BY DEF HistoryInv, HistoryTypeOK
  <2>2. ASSUME NEW p \in Providers PROVE indexed[p] <= Len(chain')
    BY <1>3, <2>1
  <2> QED
    BY <1>1, <1>3, <2>1, <2>2 DEF HistoryTypeOK
<1>5. ChainIsSorted'
  <2> SUFFICES ASSUME NEW i \in DOMAIN chain', NEW j \in DOMAIN chain', i <= j
               PROVE  chain'[i].time <= chain'[j].time
    BY DEF ChainIsSorted
  <2>1. CASE j \in DOMAIN chain
    <3>1. i \in DOMAIN chain
      BY <1>3, <2>1
    <3> QED
      BY <1>3, <2>1, <3>1 DEF HistoryInv, ChainIsSorted
  <2>2. CASE j \notin DOMAIN chain
    <3>1. j = Len(chain')
      BY <1>3, <2>2
    <3>2. CASE i = j
      <4>1. t.time \in Int
        BY DEF Transaction
      <4> QED
        BY <1>3, <3>1, <3>2, <4>1
    <3>3. CASE i # j
      <4>1. i \in DOMAIN chain
        BY <1>3, <3>1, <3>3
      <4> QED
        BY <1>2, <1>3, <3>1, <4>1
    <3> QED
      BY <3>2, <3>3
  <2> QED
    BY <2>1, <2>2
<1>6. ASSUME NEW p \in Providers PROVE ReaderInv(p)'
  <2>1. HistoryTypeOK /\ ReaderInv(p)
    BY <1>1 DEF HistoryInv
  <2>2. \A q \in Providers : indexed[q] <= indexed'[q]
    BY <1>1, <2>1 DEF HistoryTypeOK
  <2>3. Len(chain) <= Len(chain')
    BY <1>3
  <2> QED
    BY <1>1, <1>3, <1>4, <2>1, <2>2, <2>3, ReaderStays
<1> QED
  BY <1>1, <1>4, <1>5, <1>6 DEF HistoryInv, ZeroUnexpectedIsTrue

LEMMA IndexKeeps ==
  ASSUME HistoryInv, NEW p \in Providers, Index(p) PROVE HistoryInv'
<1>1. /\ collector = "reading" /\ indexed[p] < Len(chain)
      /\ indexed' = [indexed EXCEPT ![p] = @ + 1]
      /\ UNCHANGED << chain, begun, payouts, collector, reader, filters >>
      /\ HistoryTypeOK
  BY DEF Index, Reading, HistoryInv
<1>2. /\ indexed' \in [Providers -> Nat]
      /\ \A q \in Providers : indexed[q] <= indexed'[q] /\ indexed'[q] <= Len(chain)
      /\ \A q \in Providers : begun[q] <= indexed'[q]
  BY <1>1 DEF HistoryTypeOK
<1>3. HistoryTypeOK'
  BY <1>1, <1>2 DEF HistoryTypeOK
<1>4. ASSUME NEW q \in Providers PROVE ReaderInv(q)'
  <2>1. ReaderInv(q) /\ Len(chain) <= Len(chain')
    BY <1>1 DEF HistoryInv, HistoryTypeOK
  <2> QED
    BY <1>1, <1>2, <1>3, <2>1, ReaderStays
<1> QED
  BY <1>1, <1>3, <1>4 DEF HistoryInv, ChainIsSorted, ZeroUnexpectedIsTrue

LEMMA BeginKeeps ==
  ASSUME HistoryInv, Begin PROVE HistoryInv'
<1>1. /\ collector = "idle" /\ collector' \in { "reading", "refused" }
      /\ begun' = indexed /\ UNCHANGED << chain, indexed, reader >>
      /\ HistoryTypeOK
  BY DEF Begin, HistoryInv
<1>2. HistoryTypeOK'
  BY <1>1 DEF HistoryTypeOK
<1>3. reader' = [p \in Providers |-> Fresh]
  BY <1>1 DEF HistoryInv
<1>4. \A p \in Providers : ReaderInv(p)'
  BY <1>2, <1>3, FreshReader
<1> QED
  BY <1>1, <1>2, <1>4 DEF HistoryInv, ChainIsSorted, ZeroUnexpectedIsTrue

\* A collection that fails has nothing left; one that ends with a result has read
\* what it has.
LEMMA FailureKeeps ==
  ASSUME HistoryInv, NEW p \in Providers, ReadFails(p) PROVE HistoryInv'
<1>1. /\ collector' = "failed" /\ reader' = [q \in Providers |-> Fresh]
      /\ UNCHANGED << chain, indexed, begun, payouts, filters >>
      /\ HistoryTypeOK /\ ChainIsSorted
  BY DEF ReadFails, HistoryInv
<1>2. Fresh \in Reader
  BY DEF Fresh, Reader
<1>3. HistoryTypeOK'
  BY <1>1, <1>2 DEF HistoryTypeOK
<1>4. \A q \in Providers : ReaderInv(q)'
  BY <1>1, <1>3, FreshReader
<1> QED
  BY <1>1, <1>3, <1>4 DEF HistoryInv, ChainIsSorted, ZeroUnexpectedIsTrue

LEMMA CompareKeeps ==
  ASSUME HistoryInv, Compare PROVE HistoryInv'
<1>1. /\ collector = "reading" /\ collector' = Result
      /\ UNCHANGED << chain, indexed, begun, payouts, reader, filters >>
      /\ HistoryTypeOK /\ \A p \in Providers : ReaderInv(p)
  BY DEF Compare, HistoryInv
<1>2. HistoryTypeOK' /\ ChainIsSorted' /\ \A p \in Providers : ReaderInv(p)'
  BY <1>1 DEF HistoryInv, HistoryTypeOK, ChainIsSorted, ReaderInv, Owed, Due, FoundBy, Ahead,
              Outgoing, TonCenterQuery, TonApiQuery
<1>3. collector' # "idle"
  BY <1>1 DEF Result
<1>4. ZeroUnexpectedIsTrue'
  <2> SUFFICES ASSUME collector' = "ZERO_UNEXPECTED" PROVE ZeroUnexpectedIsTrue'
    BY DEF ZeroUnexpectedIsTrue
  <2>1. Result = "ZERO_UNEXPECTED"
    BY <1>1
  <2> QED
    BY <1>1, <2>1, CleanIsTrue
       DEF ZeroUnexpectedIsTrue, Owed, Due, Expected, Outgoing
<1> QED
  BY <1>2, <1>3, <1>4 DEF HistoryInv

LEMMA HistorySteps == HistoryInv /\ [HistoryNext]_historyVars => HistoryInv'
<1> SUFFICES ASSUME HistoryInv, [HistoryNext]_historyVars PROVE HistoryInv'
  OBVIOUS
<1>1. CASE Extend
  BY <1>1, ExtendKeeps
<1>2. CASE Begin
  BY <1>2, BeginKeeps
<1>3. CASE Compare
  BY <1>3, CompareKeeps
<1>4. ASSUME NEW p \in Providers, Index(p) PROVE HistoryInv'
  BY <1>4, IndexKeeps
<1>5. ASSUME NEW p \in Providers, ReadPage(p) PROVE HistoryInv'
  BY <1>5, PageKeeps
<1>6. ASSUME NEW p \in Providers, ReadFails(p) PROVE HistoryInv'
  BY <1>6, FailureKeeps
<1>7. CASE UNCHANGED historyVars
  <2>1. UNCHANGED << chain, indexed, begun, payouts, collector, reader, filters >>
    BY <1>7 DEF historyVars
  <2>2. HistoryTypeOK' /\ ChainIsSorted'
    BY <2>1 DEF HistoryInv, HistoryTypeOK, ChainIsSorted
  <2>4. ZeroUnexpectedIsTrue <=> ZeroUnexpectedIsTrue'
    BY <2>1 DEF ZeroUnexpectedIsTrue, Expected, Owed, Due, Outgoing
  <2>3. ASSUME NEW p \in Providers PROVE ReaderInv(p)' <=> ReaderInv(p)
    BY <2>1 DEF ReaderInv, Owed, Due, FoundBy, Ahead, Outgoing, TonCenterQuery, TonApiQuery
  <2> QED
    BY <2>1, <2>2, <2>3, <2>4 DEF HistoryInv
<1>8. CASE HistoryNext
  <2>1. CASE \E p \in Providers : Index(p) \/ ReadPage(p) \/ ReadFails(p)
    BY <1>4, <1>5, <1>6, <2>1
  <2> QED
    BY <1>1, <1>2, <1>3, <1>8, <2>1 DEF HistoryNext
<1> QED
  BY <1>7, <1>8

LEMMA HistoryIsSafe == HistorySpec => []HistoryInv
<1>1. HistoryInit => HistoryInv
  BY HistoryStarts
<1> QED
  BY <1>1, HistorySteps, PTL DEF HistorySpec

\* An enumeration that calls its window covered has every transfer its provider had
\* when the collection began, for any growth of the chain between the pages and any
\* lag of the indexers, but for rows shown without a time or their parts and for a
\* full TonAPI page without a usable logical time.
THEOREM CoveredWindowIsComplete == HistorySpec => []CoverageIsComplete
<1>1. HistoryInv => CoverageIsComplete
  <2> SUFFICES ASSUME HistoryInv, NEW p \in Providers, Covered(reader[p]), NEW i \in Owed(p)
               PROVE  \E f \in reader[p].found : f[2] = i
    BY DEF CoverageIsComplete
  <2>1. collector # "idle"
    BY DEF HistoryInv, Fresh, Covered
  <2> QED
    BY <2>1 DEF HistoryInv, ReaderInv, FoundBy
<1> QED
  BY <1>1, HistoryIsSafe, PTL

\* A collection that reports nothing unexpected is right about the chain: what was
\* indexed when it began, and shown readably, is one payout each of the campaign,
\* and all are there.
THEOREM CleanAuditIsTrue == HistorySpec => []ZeroUnexpectedIsTrue
<1>1. HistoryInv => ZeroUnexpectedIsTrue
  BY DEF HistoryInv
<1> QED
  BY <1>1, HistoryIsSafe, PTL

=============================================================================
