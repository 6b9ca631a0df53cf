-------------------------- MODULE FakePayout_proofs --------------------------
(***************************************************************************)
(* Theorems about the LOCAL/TEST payout and its reconciliation, for any     *)
(* withdrawals and amounts, any outcomes of the chain, crashes and leases   *)
(* that expire.  They rest on one attempt of a withdrawal at most not       *)
(* having failed, and on the state of the row saying what the chain shows   *)
(* for it.                                                                  *)
(***************************************************************************)
EXTENDS FakePayout, Withdrawals_proofs, SequenceTheorems

-----------------------------------------------------------------------------
(* The inductive invariant.                                                *)

\* The attempts that did not fail before the broadcast, by what the chain shows.
Alive(ph) == { k \in DOMAIN ph : ph[k] # "FAILED" }

\* One at most, and the row says what has become of it.
Outcome(row, ph) ==
  /\ row.settled <=> row.state = "CONFIRMED"
  /\ row.held => row.state \in { "HELD", "REJECTED" }
  /\ \A j, k \in Alive(ph) : j = k
  /\ \A k \in Alive(ph) :
       \/ row.state = "RECONCILE_REQUIRED" /\ ph[k] \in { "UNKNOWN", "ACCEPTED" }
       \/ row.state = "CONFIRMED" /\ ph[k] = "CONFIRMED"
       \/ row.held /\ ph[k] = "NONPAYMENT"
  /\ row.state = "CONFIRMED" => Alive(ph) # {}

\* The attempts and the chain tell of the same dispatches.
Tried(as, ph) ==
  /\ DOMAIN as = DOMAIN ph
  /\ \A k \in DOMAIN as :
       /\ as[k].result \in { "FAILED_PRE_BROADCAST", "UNKNOWN", "BROADCASTED" }
       /\ as[k].result = "FAILED_PRE_BROADCAST" <=> ph[k] = "FAILED"

\* A durable non-payment row is true, and a withdrawal held by one has it.
Disproved(row, ph, np) ==
  /\ row.held => np # {}
  /\ \A k \in np : k \in DOMAIN ph /\ ph[k] = "NONPAYMENT"

Told(row, as, ph, np) == Outcome(row, ph) /\ Tried(as, ph) /\ Disproved(row, ph, np)

ToldInv == \A w \in Ids : Told(wd[w], attempts[w], chain[w], nonpayment[w])

\* There is work of the withdrawal that may have been broadcast.
Busy(ph, np) == \E k \in Alive(ph) : k \notin np

\* It keeps the wallet, whatever becomes of the lease.
WalletInv == \A w \in Ids : Busy(chain[w], nonpayment[w]) => lease.owner = w

FakeInv == IInv /\ FakeTypeOK /\ ToldInv /\ WalletInv

-----------------------------------------------------------------------------
(* The lease and the work it is kept for.                                  *)

LEMMA LeaseTypes ==
  ASSUME NEW l \in Lease, NEW o \in Ids, NEW token
  PROVE  /\ Acquired(l, o) \in Lease /\ Acquired(l, o).owner = o
         /\ ReleasedBy(l, o, token) \in Lease /\ ReleasedBy(l, o, token).owner = l.owner
         /\ Expired(l) \in Lease /\ Expired(l).owner = l.owner
<1>1. /\ Renewed(l) \in Lease /\ Renewed(l).owner = l.owner
      /\ Expired(l) \in Lease /\ Expired(l).owner = l.owner
      /\ [l EXCEPT !.released = TRUE] \in Lease /\ [l EXCEPT !.released = TRUE].owner = l.owner
  BY DEF Lease, Renewed, Expired
<1>2. Taken(l, o) \in Lease /\ Taken(l, o).owner = o
  BY DEF Lease, Taken
<1> QED
  BY <1>1, <1>2 DEF Acquired, ReleasedBy, Renewable

\* What hasUnresolvedPossiblyBroadcastWork finds is what may have been broadcast.
LEMMA BusyIsUnresolved ==
  ASSUME NEW row, NEW as, NEW ph, NEW np, Tried(as, ph)
  PROVE  /\ \A k \in DOMAIN as : Unresolved(row, as, k, np) <=> k \in Alive(ph) \ np
         /\ Busy(ph, np) <=> \E k \in DOMAIN as : Unresolved(row, as, k, np)
<1>1. ASSUME NEW k \in DOMAIN as
      PROVE  Unresolved(row, as, k, np) <=> k \in Alive(ph) \ np
  BY DEF Tried, Unresolved, UnresolvedResults, SettledAt, Alive
<1>2. Alive(ph) \subseteq DOMAIN as
  BY DEF Tried, Alive
<1> QED
  BY <1>1, <1>2 DEF Busy

\* While another withdrawal has such work, the lease is not to be had.
LEMMA AcquiringIsAlone ==
  ASSUME FakeInv, NEW w \in Ids, CanAcquire(lease, w, UnresolvedByOthers(w)), NEW v \in Ids \ { w }
  PROVE  ~Busy(chain[v], nonpayment[v])
<1> SUFFICES ASSUME Busy(chain[v], nonpayment[v]) PROVE FALSE
  OBVIOUS
<1>1. lease.owner = v
  BY DEF FakeInv, WalletInv
<1>2. Tried(attempts[v], chain[v])
  BY DEF FakeInv, ToldInv, Told
<1>3. UnresolvedByOthers(w)
  BY <1>2, BusyIsUnresolved DEF UnresolvedByOthers
<1> QED
  BY <1>1, <1>3 DEF CanAcquire, Renewable, Takeable

-----------------------------------------------------------------------------
(* Steps by what they write.                                               *)

\* The rows and the chain of one withdrawal move.
LEMMA OneMoves ==
  ASSUME FakeInv, NEW w \in Ids, IInv',
         attempts' \in [Ids -> Seq(Attempt)], chain' \in [Ids -> Seq(Phases)],
         lease' \in Lease, answered' \in [Ids -> BOOLEAN],
         \A v \in Ids \ { w } : /\ wd'[v] = wd[v] /\ attempts'[v] = attempts[v]
                                /\ chain'[v] = chain[v] /\ nonpayment'[v] = nonpayment[v],
         Told(wd'[w], attempts'[w], chain'[w], nonpayment'[w]),
         \/ /\ lease'.owner = lease.owner
            /\ Busy(chain'[w], nonpayment'[w]) => Busy(chain[w], nonpayment[w])
         \/ lease'.owner = w /\ \A v \in Ids \ { w } : ~Busy(chain[v], nonpayment[v])
  PROVE  FakeInv'
<1>1. FakeTypeOK'
  BY DEF IInv, FakeTypeOK
<1>2. ToldInv'
  BY DEF FakeInv, ToldInv
<1>3. WalletInv'
  BY DEF FakeInv, WalletInv
<1> QED
  BY <1>1, <1>2, <1>3 DEF FakeInv

\* Neither the attempts nor the chain are touched, and no row that matters to them.
LEMMA NothingDispatched ==
  ASSUME FakeInv, NEW w \in Ids, IInv', UNCHANGED << attempts, chain, nonpayment >>,
         lease' \in Lease, lease'.owner = lease.owner, answered' \in [Ids -> BOOLEAN],
         \A v \in Ids \ { w } : wd'[v] = wd[v],
         Outcome(wd'[w], chain[w]), wd'[w].held => wd[w].held
  PROVE  FakeInv'
<1>1. Told(wd'[w], attempts'[w], chain'[w], nonpayment'[w])
  BY DEF FakeInv, ToldInv, Told, Disproved
<1>2. attempts' \in [Ids -> Seq(Attempt)] /\ chain' \in [Ids -> Seq(Phases)]
  BY DEF FakeInv, FakeTypeOK
<1> QED
  BY <1>1, <1>2, OneMoves

-----------------------------------------------------------------------------
(* The activity.                                                           *)

\* What a dispatch finds, and the attempt it leaves.
LEMMA DispatchLeaves ==
  ASSUME FakeInv, NEW w \in Ids, NEW result, NEW started \in BOOLEAN, NEW phase \in Phases,
         Dispatches(w), Attempted(w, result, started, phase),
         result \in { "FAILED_PRE_BROADCAST", "UNKNOWN", "BROADCASTED" },
         result = "FAILED_PRE_BROADCAST" <=> phase = "FAILED"
  PROVE  /\ attempts' \in [Ids -> Seq(Attempt)] /\ chain' \in [Ids -> Seq(Phases)]
         /\ \A v \in Ids \ { w } : attempts'[v] = attempts[v] /\ chain'[v] = chain[v]
         /\ Tried(attempts'[w], chain'[w])
         /\ nonpayment[w] = {}
         /\ Alive(chain'[w]) = { k \in { Len(chain[w]) + 1 } : phase # "FAILED" }
         /\ Len(chain[w]) + 1 \in DOMAIN chain'[w] /\ chain'[w][Len(chain[w]) + 1] = phase
<1> DEFINE as == attempts[w]
           ph == chain[w]
           a  == [ NewAttempt(Fence(w), 0) EXCEPT !.result = result, !.started = started ]
<1>1. /\ as \in Seq(Attempt) /\ ph \in Seq(Phases)
      /\ attempts \in [Ids -> Seq(Attempt)] /\ chain \in [Ids -> Seq(Phases)]
  BY DEF FakeInv, FakeTypeOK
<1>2. Outcome(wd[w], ph) /\ Tried(as, ph) /\ Disproved(wd[w], ph, nonpayment[w])
  BY DEF FakeInv, ToldInv, Told
<1>3. wd[w].state \in { "APPROVED", "FAILED_PRE_BROADCAST", "QUEUED" }
  BY DEF Dispatches
<1>4. Alive(ph) = {}
  BY <1>2, <1>3 DEF Outcome
<1>5. nonpayment[w] = {}
  BY <1>2, <1>4 DEF Disproved, Alive
<1>6. a \in Attempt /\ a.result = result
  <2>1. Fence(w) \in Nat
    BY LeaseTypes DEF Fence, FakeInv, FakeTypeOK, Lease
  <2>2. result \in Results
    BY DEF Results
  <2> QED
    BY <2>1, <2>2 DEF NewAttempt, Attempt
<1> HIDE DEF a
<1>7. attempts' = [attempts EXCEPT ![w] = Append(as, a)] /\ chain' = [chain EXCEPT ![w] = Append(ph, phase)]
  BY DEF Attempted, a
<1>8. /\ Append(as, a) \in Seq(Attempt) /\ Append(ph, phase) \in Seq(Phases)
      /\ DOMAIN as = 1 .. Len(as) /\ DOMAIN ph = 1 .. Len(ph) /\ Len(as) \in Nat /\ Len(ph) \in Nat
      /\ DOMAIN Append(as, a) = 1 .. Len(as) + 1 /\ DOMAIN Append(ph, phase) = 1 .. Len(ph) + 1
      /\ \A k \in 1 .. Len(as) : Append(as, a)[k] = as[k]
      /\ \A k \in 1 .. Len(ph) : Append(ph, phase)[k] = ph[k]
      /\ Append(as, a)[Len(as) + 1] = a /\ Append(ph, phase)[Len(ph) + 1] = phase
  BY <1>1, <1>6
<1>9. Len(as) = Len(ph)
  <2>1. DOMAIN as = DOMAIN ph
    BY <1>2 DEF Tried
  <2>2. DOMAIN as = 1 .. Len(as) /\ DOMAIN ph = 1 .. Len(ph) /\ Len(as) \in Nat /\ Len(ph) \in Nat
    BY <1>8
  <2> DEFINE m == Len(as)
             n == Len(ph)
  <2>3. 1 .. m = 1 .. n /\ m \in Nat /\ n \in Nat
    BY <2>1, <2>2
  <2> HIDE DEF m, n
  <2>4. m = n
    BY <2>3
  <2> QED
    BY <2>4 DEF m, n
<1>10. /\ attempts'[w] = Append(as, a) /\ chain'[w] = Append(ph, phase)
       /\ attempts' \in [Ids -> Seq(Attempt)] /\ chain' \in [Ids -> Seq(Phases)]
       /\ \A v \in Ids \ { w } : attempts'[v] = attempts[v] /\ chain'[v] = chain[v]
  BY <1>1, <1>7, <1>8
<1> HIDE DEF as, ph
<1>11. Tried(Append(as, a), Append(ph, phase))
  <2>1. DOMAIN Append(as, a) = DOMAIN Append(ph, phase)
    BY <1>8, <1>9
  <2>2. ASSUME NEW k \in DOMAIN Append(as, a)
        PROVE  /\ Append(as, a)[k].result \in { "FAILED_PRE_BROADCAST", "UNKNOWN", "BROADCASTED" }
               /\ Append(as, a)[k].result = "FAILED_PRE_BROADCAST" <=> Append(ph, phase)[k] = "FAILED"
    <3>1. CASE k \in 1 .. Len(as)
      <4>1. k \in DOMAIN as /\ Append(as, a)[k] = as[k] /\ Append(ph, phase)[k] = ph[k]
        BY <3>1, <1>8, <1>9
      <4>2. /\ as[k].result \in { "FAILED_PRE_BROADCAST", "UNKNOWN", "BROADCASTED" }
            /\ as[k].result = "FAILED_PRE_BROADCAST" <=> ph[k] = "FAILED"
        BY <4>1, <1>2 DEF Tried
      <4> QED
        BY <4>1, <4>2
    <3>2. CASE k = Len(as) + 1
      <4> DEFINE x == Append(as, a)[k]
                 y == Append(ph, phase)[k]
      <4>1. x = a /\ y = phase
        BY <3>2, <1>8, <1>9
      <4>2. a.result = result
        BY <1>6
      <4> HIDE DEF x, y
      <4>3. /\ x.result \in { "FAILED_PRE_BROADCAST", "UNKNOWN", "BROADCASTED" }
            /\ x.result = "FAILED_PRE_BROADCAST" <=> y = "FAILED"
        BY <4>1, <4>2
      <4> QED
        BY <4>3 DEF x, y
    <3>3. k \in 1 .. Len(as) \/ k = Len(as) + 1
      <4> DEFINE n == Len(as)
                 d == DOMAIN Append(as, a)
      <4>1. d = 1 .. n + 1 /\ n \in Nat /\ k \in d
        BY <1>8
      <4> HIDE DEF n, d
      <4>2. k \in 1 .. n \/ k = n + 1
        BY <4>1
      <4> QED
        BY <4>2 DEF n
    <3> QED
      BY <3>1, <3>2, <3>3, Zenon
  <2> QED
    BY <2>1, <2>2 DEF Tried
<1>12. Alive(Append(ph, phase)) = { k \in { Len(ph) + 1 } : phase # "FAILED" }
  <2>1. \A k \in 1 .. Len(ph) : ph[k] = "FAILED"
    BY <1>4, <1>8 DEF Alive
  <2>2. \A k \in DOMAIN Append(ph, phase) : k \in 1 .. Len(ph) \/ k = Len(ph) + 1
    BY <1>8
  <2> QED
    BY <2>1, <2>2, <1>8 DEF Alive
<1> QED
  BY <1>5, <1>8, <1>10, <1>11, <1>12 DEF as, ph

\* What a dispatch leaves of the row.
LEMMA DispatchMoves ==
  ASSUME FakeInv, NEW w \in Ids, Dispatches(w), NEW row \in Row, wd' = [wd EXCEPT ![w] = row],
         row.state \in { "FAILED_PRE_BROADCAST", "RECONCILE_REQUIRED", "CONFIRMED" },
         row.settled <=> row.state = "CONFIRMED",
         row.held = wd[w].held, row.released = wd[w].released,
         row.reserved = wd[w].reserved, row.key = wd[w].key,
         ledger' \in { ledger, SettlementPosting(ledger, w) }
  PROVE  /\ IInv' /\ wd'[w] = row /\ \A v \in Ids \ { w } : wd'[v] = wd[v]
         /\ ~row.held /\ answered' \in [Ids -> BOOLEAN] /\ nonpayment' = nonpayment
<1>1. IInv /\ ledger \in LedgerType
  BY DEF FakeInv, IInv, TypeOK, LedgerType
<1>2. wd[w].state \in { "APPROVED", "FAILED_PRE_BROADCAST", "QUEUED" } /\ Outcome(wd[w], chain[w])
  BY DEF Dispatches, FakeInv, ToldInv, Told
<1>3. ~wd[w].held /\ ~wd[w].released
  BY <1>1, <1>2 DEF Outcome, IInv, ReservationMatchesState
<1>4. ledger' \in LedgerType
  BY <1>1, SettlementType
<1>5. /\ UNCHANGED << quote, approvals, nonpayment, outbox, workflow >>
      /\ answered' \in [Ids -> BOOLEAN]
  BY DEF Dispatches, Answers, FakeInv, FakeTypeOK
<1>6. nonpayment' \in [Ids -> SUBSET Nat]
  BY <1>1, <1>5 DEF IInv, TypeOK
<1>7. /\ wd[w].state # "NONE" /\ row.state # "NONE"
      /\ row.released <=> row.state = "REJECTED"
      /\ row.settled => row.state = "CONFIRMED"
  BY <1>2, <1>3
<1>8. IInv' /\ wd'[w] = row /\ \A v \in Ids \ { w } : wd'[v] = wd[v]
  BY <1>1, <1>4, <1>5, <1>6, <1>7, RowMoves
<1> QED
  BY <1>3, <1>5, <1>8

\* The lease a dispatch keeps or gives back is its own, and it is alone.
LEMMA DispatchLease ==
  ASSUME FakeInv, NEW w \in Ids, Dispatches(w),
         \/ lease' = Acquired(lease, w)
         \/ lease' = ReleasedBy(Acquired(lease, w), w, Fence(w))
  PROVE  /\ lease' \in Lease /\ lease'.owner = w
         /\ \A v \in Ids \ { w } : ~Busy(chain[v], nonpayment[v])
<1>1. lease \in Lease /\ CanAcquire(lease, w, UnresolvedByOthers(w))
  BY DEF FakeInv, FakeTypeOK, Dispatches
<1>2. Acquired(lease, w) \in Lease /\ Acquired(lease, w).owner = w
  BY <1>1, LeaseTypes
<1>3. /\ ReleasedBy(Acquired(lease, w), w, Fence(w)) \in Lease
      /\ ReleasedBy(Acquired(lease, w), w, Fence(w)).owner = w
  BY <1>2, LeaseTypes
<1> QED
  BY <1>1, <1>2, <1>3, AcquiringIsAlone

LEMMA DispatchKeeps == ASSUME FakeInv, NEW w \in Ids, Dispatch(w) PROVE FakeInv'
<1>1. CASE FailBeforeBroadcast(w)
  <2> DEFINE row == [ wd[w] EXCEPT !.state = "FAILED_PRE_BROADCAST" ]
  <2>1. /\ Dispatches(w) /\ Attempted(w, "FAILED_PRE_BROADCAST", FALSE, "FAILED")
        /\ ledger' = ledger /\ lease' = ReleasedBy(Acquired(lease, w), w, Fence(w))
    BY <1>1 DEF FailBeforeBroadcast
  <2>2. wd' = [wd EXCEPT ![w] = row]
    BY <1>1 DEF FailBeforeBroadcast
  <2>3. /\ row \in Row /\ row.state = "FAILED_PRE_BROADCAST" /\ ~row.settled
        /\ row.held = wd[w].held /\ row.released = wd[w].released
        /\ row.reserved = wd[w].reserved /\ row.key = wd[w].key
        /\ ledger' \in { ledger, SettlementPosting(ledger, w) }
    BY <2>1, ZenonT(30) DEF FakeInv, IInv, TypeOK, Row, States, ReservationMatchesState, Dispatches
  <2> HIDE DEF row
  <2>4. /\ IInv' /\ wd'[w] = row /\ \A v \in Ids \ { w } : wd'[v] = wd[v]
        /\ ~row.held /\ answered' \in [Ids -> BOOLEAN] /\ nonpayment' = nonpayment
    BY <2>1, <2>2, <2>3, DispatchMoves
  <2>5. /\ attempts' \in [Ids -> Seq(Attempt)] /\ chain' \in [Ids -> Seq(Phases)]
        /\ \A v \in Ids \ { w } : attempts'[v] = attempts[v] /\ chain'[v] = chain[v]
        /\ Tried(attempts'[w], chain'[w]) /\ nonpayment[w] = {} /\ Alive(chain'[w]) = {}
    <3>1. "FAILED" \in Phases
      BY DEF Phases
    <3> QED
      BY <2>1, <3>1, DispatchLeaves
  <2>6. /\ lease' \in Lease /\ lease'.owner = w
        /\ \A v \in Ids \ { w } : ~Busy(chain[v], nonpayment[v])
    BY <2>1, DispatchLease
  <2>7. Told(wd'[w], attempts'[w], chain'[w], nonpayment'[w])
    BY <2>3, <2>5, <2>4 DEF Told, Outcome, Disproved
  <2> QED
    BY <2>5, <2>6, <2>7, <2>4, OneMoves
<1>2. CASE BroadcastUnknown(w)
  <2> DEFINE row == [ wd[w] EXCEPT !.state = "RECONCILE_REQUIRED" ]
             n == Len(chain[w]) + 1
  <2>1. /\ Dispatches(w) /\ Attempted(w, "UNKNOWN", TRUE, "UNKNOWN")
        /\ ledger' = ledger /\ lease' = Acquired(lease, w)
    BY <1>2 DEF BroadcastUnknown
  <2>2. wd' = [wd EXCEPT ![w] = row]
    BY <1>2 DEF BroadcastUnknown
  <2>3. /\ row \in Row /\ row.state = "RECONCILE_REQUIRED" /\ ~row.settled
        /\ row.held = wd[w].held /\ row.released = wd[w].released
        /\ row.reserved = wd[w].reserved /\ row.key = wd[w].key
        /\ ledger' \in { ledger, SettlementPosting(ledger, w) }
    BY <2>1, ZenonT(30) DEF FakeInv, IInv, TypeOK, Row, States, ReservationMatchesState, Dispatches
  <2> HIDE DEF row
  <2>4. /\ IInv' /\ wd'[w] = row /\ \A v \in Ids \ { w } : wd'[v] = wd[v]
        /\ ~row.held /\ answered' \in [Ids -> BOOLEAN] /\ nonpayment' = nonpayment
    BY <2>1, <2>2, <2>3, DispatchMoves
  <2>5. /\ attempts' \in [Ids -> Seq(Attempt)] /\ chain' \in [Ids -> Seq(Phases)]
        /\ \A v \in Ids \ { w } : attempts'[v] = attempts[v] /\ chain'[v] = chain[v]
        /\ Tried(attempts'[w], chain'[w]) /\ nonpayment[w] = {} /\ Alive(chain'[w]) = { n }
        /\ chain'[w][n] = "UNKNOWN"
    <3>1. "UNKNOWN" \in Phases
      BY DEF Phases
    <3> QED
      BY <2>1, <3>1, DispatchLeaves
  <2>6. /\ lease' \in Lease /\ lease'.owner = w
        /\ \A v \in Ids \ { w } : ~Busy(chain[v], nonpayment[v])
    BY <2>1, DispatchLease
  <2> HIDE DEF n
  <2>7. Told(wd'[w], attempts'[w], chain'[w], nonpayment'[w])
    BY <2>3, <2>5, <2>4 DEF Told, Outcome, Disproved
  <2> QED
    BY <2>5, <2>6, <2>7, <2>4, OneMoves
<1>3. CASE BroadcastConfirmed(w)
  <2> DEFINE row == [ wd[w] EXCEPT !.state = "CONFIRMED", !.settled = TRUE ]
             n == Len(chain[w]) + 1
  <2>1. /\ Dispatches(w) /\ Attempted(w, "BROADCASTED", TRUE, "CONFIRMED")
        /\ ledger' = SettlementPosting(ledger, w)
        /\ lease' = ReleasedBy(Acquired(lease, w), w, Fence(w))
    BY <1>3 DEF BroadcastConfirmed
  <2>2. wd' = [wd EXCEPT ![w] = row]
    BY <1>3 DEF BroadcastConfirmed, FakeInv, IInv, TypeOK, Row
  <2>3. /\ row \in Row /\ row.state = "CONFIRMED" /\ row.settled
        /\ row.held = wd[w].held /\ row.released = wd[w].released
        /\ row.reserved = wd[w].reserved /\ row.key = wd[w].key
        /\ ledger' \in { ledger, SettlementPosting(ledger, w) }
    <3>1. wd[w] \in Row /\ "CONFIRMED" \in States
      BY DEF FakeInv, IInv, TypeOK, States
    <3>2. ledger' \in { ledger, SettlementPosting(ledger, w) }
      BY <2>1
    <3> QED
      BY <3>1, <3>2 DEF Row
  <2> HIDE DEF row
  <2>4. /\ IInv' /\ wd'[w] = row /\ \A v \in Ids \ { w } : wd'[v] = wd[v]
        /\ ~row.held /\ answered' \in [Ids -> BOOLEAN] /\ nonpayment' = nonpayment
    BY <2>1, <2>2, <2>3, DispatchMoves
  <2>5. /\ attempts' \in [Ids -> Seq(Attempt)] /\ chain' \in [Ids -> Seq(Phases)]
        /\ \A v \in Ids \ { w } : attempts'[v] = attempts[v] /\ chain'[v] = chain[v]
        /\ Tried(attempts'[w], chain'[w]) /\ nonpayment[w] = {} /\ Alive(chain'[w]) = { n }
        /\ chain'[w][n] = "CONFIRMED"
    <3>1. "CONFIRMED" \in Phases
      BY DEF Phases
    <3> QED
      BY <2>1, <3>1, DispatchLeaves
  <2>6. /\ lease' \in Lease /\ lease'.owner = w
        /\ \A v \in Ids \ { w } : ~Busy(chain[v], nonpayment[v])
    BY <2>1, DispatchLease
  <2> HIDE DEF n
  <2>7. Told(wd'[w], attempts'[w], chain'[w], nonpayment'[w])
    BY <2>3, <2>5, <2>4 DEF Told, Outcome, Disproved
  <2> QED
    BY <2>5, <2>6, <2>7, <2>4, OneMoves
<1> QED
  BY <1>1, <1>2, <1>3 DEF Dispatch

\* Dispatch is paused: a withdrawal nobody dispatched yet is held.
LEMMA PauseKeeps == ASSUME FakeInv, NEW w \in Ids, PauseDispatch(w) PROVE FakeInv'
<1>1. /\ UNCHANGED << quote, ledger, approvals, nonpayment, outbox, workflow, lease, attempts, chain >>
      /\ answered' \in [Ids -> BOOLEAN] /\ lease \in Lease
  BY DEF PauseDispatch, Answers, FakeInv, FakeTypeOK
<1>2. /\ IInv /\ wd[w] \in Row /\ Outcome(wd[w], chain[w])
      /\ wd[w].released <=> wd[w].state = "REJECTED"
      /\ ledger \in LedgerType /\ nonpayment \in [Ids -> SUBSET Nat]
  BY DEF FakeInv, ToldInv, Told, IInv, TypeOK, ReservationMatchesState, LedgerType
<1>3. CASE wd[w].state \in { "APPROVED", "QUEUED" }
  <2> DEFINE row == [ wd[w] EXCEPT !.state = "HELD" ]
  <2>1. wd' = [wd EXCEPT ![w] = row]
    BY <1>3 DEF PauseDispatch
  <2>2. /\ row \in Row /\ row.state = "HELD" /\ row.held = wd[w].held /\ row.settled = wd[w].settled
        /\ row.released = wd[w].released /\ row.reserved = wd[w].reserved /\ row.key = wd[w].key
    BY <1>2 DEF Row, States
  <2> HIDE DEF row
  <2>3. ~wd[w].held /\ ~wd[w].settled /\ Alive(chain[w]) = {}
    BY <1>2, <1>3 DEF Outcome
  <2>4. /\ wd[w].state # "NONE" /\ row.state # "NONE" /\ (row.released <=> row.state = "REJECTED")
        /\ row.settled => row.state = "CONFIRMED"
    BY <1>2, <1>3, <2>2, <2>3
  <2>5. ledger' \in LedgerType /\ nonpayment' \in [Ids -> SUBSET Nat]
    BY <1>1, <1>2
  <2>6. IInv' /\ wd'[w] = row /\ \A v \in Ids \ { w } : wd'[v] = wd[v]
    BY <1>1, <1>2, <2>1, <2>2, <2>4, <2>5, RowMoves
  <2>7. Outcome(wd'[w], chain[w]) /\ (wd'[w].held => wd[w].held)
    BY <2>2, <2>3, <2>6 DEF Outcome
  <2> QED
    BY <1>1, <2>6, <2>7, NothingDispatched
<1>4. CASE wd[w].state \notin { "APPROVED", "QUEUED" }
  <2>1. wd' = wd
    BY <1>4 DEF PauseDispatch
  <2>2. IInv'
    BY <1>1, <1>2, <2>1, RowsStay DEF rowVars
  <2> QED
    BY <1>1, <1>2, <2>1, <2>2, NothingDispatched
<1> QED
  BY <1>3, <1>4

-----------------------------------------------------------------------------
(* Reconciliation.                                                         *)

\* An observation is of the one attempt that is alive, and leaves it so.
LEMMA ObservedAttempt ==
  ASSUME FakeInv, NEW w \in Ids, NEW k, NEW phase, Observed(w, k, phase)
  PROVE  /\ Alive(chain[w]) = { k } /\ Alive(chain'[w]) = { k } /\ chain'[w][k] = phase
         /\ phase \in Advances(chain[w][k])
         /\ attempts' \in [Ids -> Seq(Attempt)] /\ chain' \in [Ids -> Seq(Phases)]
         /\ \A v \in Ids \ { w } : attempts'[v] = attempts[v] /\ chain'[v] = chain[v]
         /\ Tried(attempts'[w], chain'[w]) /\ k \in Nat
         /\ nonpayment[w] \subseteq { k }
         /\ UNCHANGED << quote, approvals, outbox, workflow, attempts >>
         /\ answered' \in [Ids -> BOOLEAN]
<1> DEFINE as == attempts[w]
           ph == chain[w]
<1>1. /\ as \in Seq(Attempt) /\ ph \in Seq(Phases)
      /\ attempts \in [Ids -> Seq(Attempt)] /\ chain \in [Ids -> Seq(Phases)]
      /\ answered \in [Ids -> BOOLEAN]
  BY DEF FakeInv, FakeTypeOK
<1>2. Outcome(wd[w], ph) /\ Tried(as, ph) /\ Disproved(wd[w], ph, nonpayment[w])
  BY DEF FakeInv, ToldInv, Told
<1>3. /\ k \in DOMAIN as /\ as[k].result \in ReconciledResults /\ phase \in Advances(ph[k])
      /\ chain' = [chain EXCEPT ![w][k] = phase]
      /\ UNCHANGED << quote, approvals, outbox, workflow, attempts, answered >>
  BY DEF Observed, Reconcilable
<1>4. k \in DOMAIN ph /\ ph[k] # "FAILED"
  BY <1>2, <1>3 DEF Tried, ReconciledResults
<1>5. phase \in Phases /\ phase # "FAILED"
  <2>1. ph[k] \in Phases
    BY <1>1, <1>4
  <2> QED
    BY <1>3, <1>4, <2>1 DEF Advances, Phases
<1> DEFINE after == [ph EXCEPT ![k] = phase]
<1>6. /\ after \in Seq(Phases) /\ DOMAIN after = DOMAIN ph /\ after[k] = phase
      /\ \A j \in DOMAIN ph : j # k => after[j] = ph[j]
  BY <1>1, <1>4, <1>5
<1>7. k \in Nat
  BY <1>1, <1>4
<1>8. chain' = [chain EXCEPT ![w] = after]
  BY <1>1, <1>3
<1> HIDE DEF after
<1>9. /\ chain'[w] = after /\ chain' \in [Ids -> Seq(Phases)]
      /\ \A v \in Ids \ { w } : chain'[v] = chain[v]
  BY <1>1, <1>6, <1>8
<1> HIDE DEF as, ph
<1>10. Alive(ph) = { k }
  BY <1>2, <1>4 DEF Alive, Outcome
<1>11. Alive(after) = { k }
  BY <1>4, <1>5, <1>6, <1>10 DEF Alive
<1>12. Tried(as, after)
  BY <1>2, <1>3, <1>4, <1>5, <1>6 DEF Tried
<1>13. nonpayment[w] \subseteq { k }
  BY <1>2, <1>10 DEF Disproved, Alive
<1> QED
  BY <1>1, <1>3, <1>6, <1>7, <1>9, <1>10, <1>11, <1>12, <1>13 DEF as, ph

\* Whoever the lease is released for, its owner stays in the row.
LEMMA ReleaseKeepsOwner ==
  ASSUME FakeInv, NEW w \in Ids, NEW k, lease' = lease \/ lease' = ReleasedWith(w, k)
  PROVE  lease' \in Lease /\ lease'.owner = lease.owner
<1>1. lease \in Lease
  BY DEF FakeInv, FakeTypeOK
<1> QED
  BY <1>1, LeaseTypes DEF ReleasedWith

LEMMA PaidKeeps == ASSUME FakeInv, NEW w \in Ids, NEW k, ReconcilePaid(w, k) PROVE FakeInv'
<1> DEFINE row == [ wd[w] EXCEPT !.state = "CONFIRMED", !.settled = TRUE ]
<1>1. /\ Observed(w, k, "CONFIRMED") /\ wd[w].state = "RECONCILE_REQUIRED"
      /\ ledger' = SettlementPosting(ledger, w) /\ lease' = ReleasedWith(w, k)
      /\ nonpayment' = nonpayment
  BY DEF ReconcilePaid
<1>2. /\ Alive(chain[w]) = { k } /\ Alive(chain'[w]) = { k } /\ chain'[w][k] = "CONFIRMED"
      /\ "CONFIRMED" \in Advances(chain[w][k])
      /\ attempts' \in [Ids -> Seq(Attempt)] /\ chain' \in [Ids -> Seq(Phases)]
      /\ \A v \in Ids \ { w } : attempts'[v] = attempts[v] /\ chain'[v] = chain[v]
      /\ Tried(attempts'[w], chain'[w])
      /\ UNCHANGED << quote, approvals, outbox, workflow, attempts >>
      /\ answered' \in [Ids -> BOOLEAN]
  BY <1>1, ObservedAttempt
<1>3. lease' \in Lease /\ lease'.owner = lease.owner
  BY <1>1, ReleaseKeepsOwner
<1>4. /\ IInv /\ wd \in [Ids -> Row] /\ wd[w] \in Row /\ ledger \in LedgerType
      /\ nonpayment \in [Ids -> SUBSET Nat] /\ ~wd[w].released
      /\ Outcome(wd[w], chain[w]) /\ Disproved(wd[w], chain[w], nonpayment[w])
  BY <1>1 DEF FakeInv, IInv, TypeOK, ReservationMatchesState, ToldInv, Told, LedgerType
<1>5. wd' = [wd EXCEPT ![w] = row]
  BY <1>4 DEF ReconcilePaid, Row
<1>6. /\ row \in Row /\ row.state = "CONFIRMED" /\ row.held = wd[w].held /\ row.settled
      /\ row.released = wd[w].released /\ row.reserved = wd[w].reserved /\ row.key = wd[w].key
  BY <1>4 DEF Row, States
<1> HIDE DEF row
<1>7. ~wd[w].held /\ chain[w][k] \in { "UNKNOWN", "ACCEPTED" }
  BY <1>1, <1>2, <1>4 DEF Outcome
<1>8. nonpayment[w] = {}
  BY <1>2, <1>4, <1>7 DEF Disproved, Alive
<1>9. /\ wd[w].state # "NONE" /\ row.state # "NONE" /\ (row.released <=> row.state = "REJECTED")
      /\ row.settled => row.state = "CONFIRMED"
      /\ ledger' \in LedgerType /\ nonpayment' \in [Ids -> SUBSET Nat]
  BY <1>1, <1>4, <1>6, SettlementType
<1>10. IInv' /\ wd'[w] = row /\ \A v \in Ids \ { w } : wd'[v] = wd[v]
  BY <1>2, <1>4, <1>5, <1>6, <1>9, RowMoves
<1>11. Told(wd'[w], attempts'[w], chain'[w], nonpayment'[w])
  BY <1>1, <1>2, <1>6, <1>7, <1>8, <1>10 DEF Told, Outcome, Disproved
<1>12. Busy(chain[w], nonpayment[w])
  BY <1>2, <1>8 DEF Busy
<1> QED
  BY <1>1, <1>2, <1>3, <1>10, <1>11, <1>12, OneMoves

LEMMA UnpaidKeeps == ASSUME FakeInv, NEW w \in Ids, NEW k, ReconcileUnpaid(w, k) PROVE FakeInv'
<1> DEFINE row == IF wd[w].state = "RECONCILE_REQUIRED"
                    THEN [ wd[w] EXCEPT !.state = "HELD", !.held = TRUE ] ELSE wd[w]
<1>1. /\ Observed(w, k, "NONPAYMENT")
      /\ wd[w].state \in { "RECONCILE_REQUIRED", "HELD", "QUEUED" }
      /\ nonpayment' = [nonpayment EXCEPT ![w] = @ \cup { k }]
      /\ lease' = lease \/ lease' = ReleasedWith(w, k)
      /\ ledger' = ledger
  BY DEF ReconcileUnpaid
<1>2. /\ Alive(chain[w]) = { k } /\ Alive(chain'[w]) = { k } /\ chain'[w][k] = "NONPAYMENT"
      /\ attempts' \in [Ids -> Seq(Attempt)] /\ chain' \in [Ids -> Seq(Phases)]
      /\ \A v \in Ids \ { w } : attempts'[v] = attempts[v] /\ chain'[v] = chain[v]
      /\ Tried(attempts'[w], chain'[w]) /\ k \in Nat /\ nonpayment[w] \subseteq { k }
      /\ UNCHANGED << quote, approvals, outbox, workflow, attempts >>
      /\ answered' \in [Ids -> BOOLEAN]
  BY <1>1, ObservedAttempt, ZenonT(30)
<1>3. lease' \in Lease /\ lease'.owner = lease.owner
  BY <1>1, ReleaseKeepsOwner
<1>4. /\ IInv /\ wd \in [Ids -> Row] /\ wd[w] \in Row /\ ledger \in LedgerType
      /\ nonpayment \in [Ids -> SUBSET Nat] /\ (wd[w].released <=> wd[w].state = "REJECTED")
      /\ Outcome(wd[w], chain[w])
  BY DEF FakeInv, IInv, TypeOK, ReservationMatchesState, ToldInv, Told, LedgerType
<1>5. wd' = [wd EXCEPT ![w] = row]
  BY <1>4 DEF ReconcileUnpaid, Row
<1>6. k \in Alive(chain[w])
  BY <1>2
<1>7. ~wd[w].settled /\ (wd[w].state = "RECONCILE_REQUIRED" \/ (wd[w].held /\ wd[w].state = "HELD"))
  BY <1>1, <1>4, <1>6 DEF Outcome
<1>8. /\ row \in Row /\ row.state = "HELD" /\ row.held /\ row.settled = wd[w].settled
      /\ row.released = wd[w].released /\ row.reserved = wd[w].reserved /\ row.key = wd[w].key
  <2>1. CASE wd[w].state = "RECONCILE_REQUIRED"
    BY <1>4, <2>1 DEF Row, States
  <2>2. CASE wd[w].held /\ wd[w].state = "HELD"
    BY <1>4, <2>2
  <2> QED
    BY <1>7, <2>1, <2>2
<1> HIDE DEF row
<1>9. nonpayment' \in [Ids -> SUBSET Nat] /\ nonpayment'[w] = { k }
        /\ \A v \in Ids \ { w } : nonpayment'[v] = nonpayment[v]
  BY <1>1, <1>2, <1>4
<1>10. /\ wd[w].state # "NONE" /\ row.state # "NONE" /\ (row.released <=> row.state = "REJECTED")
       /\ row.settled => row.state = "CONFIRMED"
       /\ ledger' \in LedgerType
  BY <1>1, <1>4, <1>7, <1>8
<1>11. IInv' /\ wd'[w] = row /\ \A v \in Ids \ { w } : wd'[v] = wd[v]
  BY <1>2, <1>4, <1>5, <1>8, <1>9, <1>10, RowMoves
<1>12. Told(wd'[w], attempts'[w], chain'[w], nonpayment'[w])
  <2>1. Outcome(wd'[w], chain'[w])
    BY <1>2, <1>7, <1>8, <1>11 DEF Outcome
  <2>2. Disproved(wd'[w], chain'[w], nonpayment'[w])
    BY <1>2, <1>9 DEF Disproved, Alive
  <2> QED
    BY <1>2, <2>1, <2>2 DEF Told
<1>13. ~Busy(chain'[w], nonpayment'[w])
  BY <1>2, <1>9 DEF Busy
<1> QED
  BY <1>2, <1>3, <1>9, <1>11, <1>12, <1>13, OneMoves

LEMMA OtherwiseKeeps == ASSUME FakeInv, NEW w \in Ids, NEW k, ReconcileOtherwise(w, k) PROVE FakeInv'
<1>1. PICK phase \in Phases :
        /\ Observed(w, k, phase)
        /\ phase = "CONFIRMED" => wd[w].state # "RECONCILE_REQUIRED"
        /\ phase = "NONPAYMENT" => wd[w].state \notin { "RECONCILE_REQUIRED", "HELD", "QUEUED" }
        /\ UNCHANGED << wd, ledger, nonpayment, lease >>
  BY DEF ReconcileOtherwise
<1>2. /\ Alive(chain[w]) = { k } /\ Alive(chain'[w]) = { k } /\ chain'[w][k] = phase
      /\ phase \in Advances(chain[w][k])
      /\ attempts' \in [Ids -> Seq(Attempt)] /\ chain' \in [Ids -> Seq(Phases)]
      /\ \A v \in Ids \ { w } : attempts'[v] = attempts[v] /\ chain'[v] = chain[v]
      /\ Tried(attempts'[w], chain'[w]) /\ nonpayment[w] \subseteq { k }
      /\ UNCHANGED << quote, approvals, outbox, workflow, attempts >>
      /\ answered' \in [Ids -> BOOLEAN]
  BY <1>1, ObservedAttempt, ZenonT(30)
<1>3. lease' \in Lease /\ lease'.owner = lease.owner
  BY <1>1 DEF FakeInv, FakeTypeOK
<1>4. IInv /\ IInv'
  BY <1>1, <1>2, RowsStay DEF FakeInv, rowVars
<1>5. Outcome(wd[w], chain[w]) /\ Disproved(wd[w], chain[w], nonpayment[w])
  BY DEF FakeInv, ToldInv, Told
<1>6. k \in Alive(chain[w])
  BY <1>2
<1>7. \/ wd[w].state = "RECONCILE_REQUIRED" /\ phase \in { "UNKNOWN", "ACCEPTED" }
      \/ wd[w].state = "CONFIRMED" /\ phase = "CONFIRMED"
      \/ wd[w].held /\ phase = "NONPAYMENT"
  BY <1>1, <1>2, <1>5, <1>6 DEF Outcome, Advances
<1>8. Outcome(wd[w], chain'[w])
  BY <1>2, <1>5, <1>7 DEF Outcome
<1>9. Disproved(wd[w], chain'[w], nonpayment[w])
  <2>1. ASSUME NEW j \in nonpayment[w] PROVE j \in DOMAIN chain'[w] /\ chain'[w][j] = "NONPAYMENT"
    <3>1. j = k /\ chain[w][k] = "NONPAYMENT"
      BY <1>2, <1>5 DEF Disproved
    <3>2. phase = "NONPAYMENT"
      BY <1>2, <3>1 DEF Advances
    <3>3. k \in Alive(chain'[w])
      BY <1>2
    <3> QED
      BY <1>2, <3>1, <3>2, <3>3 DEF Alive
  <2> QED
    BY <1>5, <2>1 DEF Disproved
<1>10. Told(wd'[w], attempts'[w], chain'[w], nonpayment'[w])
  BY <1>1, <1>2, <1>8, <1>9 DEF Told
<1>11. Busy(chain'[w], nonpayment'[w]) => Busy(chain[w], nonpayment[w])
  BY <1>1, <1>2 DEF Busy
<1>12. \A v \in Ids \ { w } : wd'[v] = wd[v] /\ nonpayment'[v] = nonpayment[v]
  BY <1>1
<1> QED
  BY <1>2, <1>3, <1>4, <1>10, <1>11, <1>12, OneMoves

-----------------------------------------------------------------------------
(* Decisions, the relay, crashes and the clock.                            *)

LEMMA DecisionKeeps ==
  ASSUME FakeInv, NEW w \in Ids, DecideStep(w), UNCHANGED << lease, attempts, chain, answered >>
  PROVE  FakeInv'
<1>1. PICK expected \in DecisionStates, decision \in Decisions, tag \in Tags, ack \in BOOLEAN :
        Decide(w, expected, decision, tag, ack)
  BY DEF DecideStep
<1> DEFINE to == DecisionTarget(decision)
           row == [ wd[w] EXCEPT !.state = to,
                                 !.released = wd[w].released \/ decision = "REJECT" ]
<1>2. /\ IInv /\ TypeOK /\ wd \in [Ids -> Row] /\ wd[w] \in Row /\ Outcome(wd[w], chain[w])
      /\ lease \in Lease /\ answered \in [Ids -> BOOLEAN]
  BY DEF FakeInv, FakeTypeOK, IInv, TypeOK, ToldInv, Told
<1>3. /\ wd' = [wd EXCEPT ![w] = row] /\ to \in { "APPROVED", "HELD", "REJECTED" }
      /\ wd[w].state \notin { "NONE", "CONFIRMED", "REJECTED" }
  BY <1>1, <1>2, DecisionStep
<1>4. /\ wd[w].state # "RECONCILE_REQUIRED" /\ nonpayment' = nonpayment
      /\ TransitionAllowed(wd[w].state, to, wd[w].held, ack)
  BY <1>1, ReviewAssumption DEF Decide, DecisionAllowed
<1>5. wd[w].held => to = "REJECTED"
  <2>1. ASSUME wd[w].held PROVE wd[w].state = "HELD"
    BY <1>2, <1>3, <2>1 DEF Outcome
  <2>2. ASSUME wd[w].held PROVE to \in Successors("HELD") /\ to # "APPROVED"
    BY <1>4, <2>1, <2>2 DEF TransitionAllowed
  <2> HIDE DEF to
  <2> QED
    BY <1>3, <2>2 DEF Successors
<1>6. row.state = to /\ row.settled = wd[w].settled /\ row.held = wd[w].held
  BY <1>2 DEF Row
<1> HIDE DEF row, to
<1>7. wd'[w] = row /\ \A v \in Ids \ { w } : wd'[v] = wd[v]
  BY <1>2, <1>3
<1>8. Outcome(wd'[w], chain[w])
  BY <1>2, <1>3, <1>4, <1>5, <1>6, <1>7 DEF Outcome
<1>9. IInv'
  BY <1>2, DecideStepKeeps
<1> QED
  BY <1>2, <1>4, <1>6, <1>7, <1>8, <1>9, NothingDispatched

\* What moves no row, no attempt and no chain.
LEMMA ElsewhereKeeps ==
  ASSUME FakeInv, IInv', UNCHANGED << wd, nonpayment, attempts, chain >>,
         lease' \in Lease, lease'.owner = lease.owner, answered' \in [Ids -> BOOLEAN]
  PROVE  FakeInv'
<1>1. FakeTypeOK'
  BY DEF FakeInv, FakeTypeOK, IInv
<1>2. ToldInv'
  BY DEF FakeInv, ToldInv
<1>3. WalletInv'
  BY DEF FakeInv, WalletInv
<1> QED
  BY <1>1, <1>2, <1>3 DEF FakeInv

LEMMA FakeStepKeeps == FakeInv /\ [FakeNext]_vars => FakeInv'
<1> SUFFICES ASSUME FakeInv, [FakeNext]_vars PROVE FakeInv'
  OBVIOUS
<1>1. IInv /\ TypeOK /\ lease \in Lease /\ answered \in [Ids -> BOOLEAN]
  BY DEF FakeInv, FakeTypeOK, IInv
<1>2. CASE UNCHANGED vars
  <2>1. IInv' /\ UNCHANGED << wd, nonpayment, attempts, chain, lease, answered >>
    BY <1>1, <1>2, RowsStay DEF vars, rowVars
  <2> QED
    BY <1>1, <2>1, ElsewhereKeeps
<1>3. ASSUME NEW w \in Ids, OfficeStep(w) PROVE FakeInv'
  <2>1. CASE DecideStep(w)
    BY <1>3, <2>1, DecisionKeeps DEF OfficeStep
  <2>2. CASE RelayStep(w)
    <3>1. IInv' /\ wd' = wd /\ nonpayment' = nonpayment
      BY <1>1, <2>2, RelayStepKeeps DEF RelayStep, RelayDispatch, RelayStartThenCrash
    <3> QED
      BY <1>1, <1>3, <3>1, ElsewhereKeeps DEF OfficeStep
  <2> QED
    BY <1>3, <2>1, <2>2 DEF OfficeStep
<1>4. ASSUME NEW w \in Ids, ReconcileStep(w) PROVE FakeInv'
  BY <1>4, PaidKeeps, UnpaidKeeps, OtherwiseKeeps DEF ReconcileStep
<1>5. ASSUME NEW w \in Ids, Complete(w) PROVE FakeInv'
  <2>1. /\ UNCHANGED << quote, wd, ledger, approvals, nonpayment, outbox, lease, attempts, chain >>
        /\ workflow' \in [Ids -> { "NONE", "RUNNING", "COMPLETED" }]
        /\ answered' \in [Ids -> BOOLEAN]
    BY <1>1, <1>5 DEF Complete, TypeOK
  <2>2. IInv'
    BY <1>1, <2>1 DEF IInv, TypeOK, ReservationMatchesState, OneWithdrawalPerRequest, Created
  <2> QED
    BY <1>1, <2>1, <2>2, ElsewhereKeeps
<1>6. ASSUME NEW w \in Ids, AnswerLost(w) PROVE FakeInv'
  <2>1. /\ IInv' /\ UNCHANGED << wd, nonpayment, attempts, chain, lease >>
        /\ answered' \in [Ids -> BOOLEAN]
    BY <1>1, <1>6, RowsStay DEF AnswerLost, rowVars
  <2> QED
    BY <1>1, <2>1, ElsewhereKeeps
<1>7. CASE LeaseExpires
  <2>1. /\ IInv' /\ UNCHANGED << wd, nonpayment, attempts, chain, answered >>
        /\ lease' = Expired(lease)
    BY <1>1, <1>7, RowsStay DEF LeaseExpires, rowVars
  <2>2. lease' \in Lease /\ lease'.owner = lease.owner
    BY <1>1, <2>1 DEF Expired, Lease
  <2> QED
    BY <1>1, <2>1, <2>2, ElsewhereKeeps
<1> QED
  BY <1>2, <1>3, <1>4, <1>5, <1>6, <1>7, PauseKeeps, DispatchKeeps DEF FakeNext

LEMMA FakeStarts == FakeInit => FakeInv
<1> SUFFICES ASSUME FakeInit PROVE FakeInv
  OBVIOUS
<1>1. /\ IInv /\ ReviewInit
      /\ lease = NoLease /\ attempts = [w \in Ids |-> << >>] /\ chain = [w \in Ids |-> << >>]
      /\ answered = [w \in Ids |-> FALSE]
  BY ReviewKeeps DEF FakeInit
<1>2. << >> \in Seq(Attempt) /\ << >> \in Seq(Phases) /\ DOMAIN << >> = {}
  OBVIOUS
<1>3. NoLease \in Lease
  BY DEF NoLease, Lease
<1>4. FakeTypeOK
  BY <1>1, <1>2, <1>3 DEF FakeTypeOK, IInv
<1>5. ASSUME NEW w \in Ids
      PROVE  /\ attempts[w] = << >> /\ chain[w] = << >> /\ nonpayment[w] = {}
             /\ wd[w].state = "MANUAL_REVIEW" /\ ~wd[w].held /\ ~wd[w].settled
  BY <1>1 DEF ReviewInit, UnderReview
<1>6. Alive(<< >>) = {}
  BY <1>2 DEF Alive
<1>7. ASSUME NEW w \in Ids PROVE Told(wd[w], attempts[w], chain[w], nonpayment[w])
  BY <1>2, <1>5, <1>6 DEF Told, Outcome, Tried, Disproved
<1>8. WalletInv
  BY <1>5, <1>6 DEF WalletInv, Busy
<1> QED
  BY <1>1, <1>4, <1>7, <1>8 DEF FakeInv, ToldInv

-----------------------------------------------------------------------------
(* The theorems.                                                           *)

\* Whatever the chain answers, and whenever workers crash and leases expire,
\* the rows, the chain and the wallet tell one story.
THEOREM FakeInvariant == FakeSpec => []FakeInv
  BY FakeStarts, FakeStepKeeps, PTL DEF FakeSpec

\* Every row pipeline.ts and reconcile.ts write is of its type.
THEOREM FakeTypesHold == FakeSpec => []FakeTypeOK
<1>1. FakeInv => FakeTypeOK
  BY DEF FakeInv
<1> QED
  BY <1>1, FakeInvariant, PTL

\* The reservation is given back only when every attempt failed before the
\* broadcast or is proven not to have paid.
THEOREM ReleasedWasNeverPaid == FakeSpec => []ReleasedIsNonpayment
<1>1. FakeInv => ReleasedIsNonpayment
  <2> SUFFICES ASSUME FakeInv, NEW w \in Ids, wd[w].released, NEW k \in DOMAIN chain[w]
               PROVE  chain[w][k] \in { "FAILED", "NONPAYMENT" }
    BY DEF ReleasedIsNonpayment
  <2>1. wd[w].state = "REJECTED"
    BY DEF FakeInv, IInv, ReservationMatchesState
  <2>2. Outcome(wd[w], chain[w])
    BY DEF FakeInv, ToldInv, Told
  <2> QED
    BY <2>1, <2>2 DEF Outcome, Alive
<1> QED
  BY <1>1, FakeInvariant, PTL

\* A withdrawal is CONFIRMED and settled together, for an attempt the chain
\* paid, and no other attempt of it was or may be paid.
THEOREM PaidAndSettledOnce == FakeSpec => []PaidOnceAndSettled
<1>1. FakeInv => PaidOnceAndSettled
  <2> SUFFICES ASSUME FakeInv, NEW w \in Ids
               PROVE  /\ wd[w].state = "CONFIRMED" => \E k \in DOMAIN chain[w] : chain[w][k] = "CONFIRMED"
                      /\ wd[w].state = "CONFIRMED" <=> wd[w].settled
                      /\ Cardinality({ k \in DOMAIN chain[w] : chain[w][k] # "FAILED" }) <= 1
    BY DEF PaidOnceAndSettled
  <2>1. Outcome(wd[w], chain[w])
    BY DEF FakeInv, ToldInv, Told
  <2>2. ASSUME wd[w].state = "CONFIRMED" PROVE \E k \in DOMAIN chain[w] : chain[w][k] = "CONFIRMED"
    <3>1. PICK k : k \in Alive(chain[w])
      BY <2>1, <2>2 DEF Outcome
    <3>2. ~wd[w].held
      BY <2>1, <2>2 DEF Outcome
    <3>3. chain[w][k] = "CONFIRMED"
      BY <2>1, <2>2, <3>1, <3>2 DEF Outcome
    <3> QED
      BY <3>1, <3>3 DEF Alive
  <2>3. Cardinality(Alive(chain[w])) <= 1
    <3>1. CASE Alive(chain[w]) = {}
      BY <3>1, FS_EmptySet
    <3>2. CASE Alive(chain[w]) # {}
      <4>1. PICK k : k \in Alive(chain[w])
        BY <3>2
      <4>2. Alive(chain[w]) = { k }
        BY <2>1, <4>1 DEF Outcome
      <4>3. Cardinality({ k }) = 1
        BY FS_Singleton
      <4> QED
        BY <4>2, <4>3
    <3> QED
      BY <3>1, <3>2
  <2> QED
    BY <2>1, <2>2, <2>3 DEF Outcome, Alive
<1> QED
  BY <1>1, FakeInvariant, PTL

\* A withdrawal held for a non-payment has the durable row, the chain agrees
\* with it, and all that can become of it is a rejection.
THEOREM HoldsAreProven == FakeSpec => []HeldByProof
<1>1. FakeInv => HeldByProof
  BY DEF FakeInv, ToldInv, Told, Outcome, Disproved, HeldByProof
<1> QED
  BY <1>1, FakeInvariant, PTL

\* However leases expire, one withdrawal at most has work on the wallet that may
\* have been broadcast and is not resolved.
THEOREM WalletIsNotShared == FakeSpec => []OneUnresolved
<1>1. FakeInv => OneUnresolved
  <2> SUFFICES ASSUME FakeInv PROVE OneUnresolved
    OBVIOUS
  <2> DEFINE U == { w \in Ids : \E k \in DOMAIN attempts[w] :
                      Unresolved(wd[w], attempts[w], k, nonpayment[w]) }
  <2>1. \A w \in U : lease.owner = w
    <3>1. ASSUME NEW w \in U PROVE lease.owner = w
      <4>1. Tried(attempts[w], chain[w])
        BY DEF FakeInv, ToldInv, Told
      <4>2. Busy(chain[w], nonpayment[w])
        BY <4>1, BusyIsUnresolved
      <4> QED
        BY <4>2 DEF FakeInv, WalletInv
    <3> QED
      BY <3>1
  <2> HIDE DEF U
  <2>2. Cardinality(U) <= 1
    <3>1. CASE U = {}
      BY <3>1, FS_EmptySet
    <3>2. CASE U # {}
      <4>1. U = { lease.owner }
        BY <2>1, <3>2
      <4>2. Cardinality({ lease.owner }) = 1
        BY FS_Singleton
      <4> QED
        BY <4>1, <4>2
    <3> QED
      BY <3>1, <3>2
  <2> QED
    BY <2>2 DEF OneUnresolved, U
<1> QED
  BY <1>1, FakeInvariant, PTL

=============================================================================
