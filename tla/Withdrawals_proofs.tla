------------------------- MODULE Withdrawals_proofs -------------------------
(***************************************************************************)
(* Theorems about Withdrawals, for any sets of withdrawals, users, keys and *)
(* amounts: types, the agreement of the row with the money behind it, the   *)
(* sums of that money, the dual write of the approval, one withdrawal per   *)
(* request, the finality of a rejection, and the refinement of              *)
(* PayoutPromise.                                                           *)
(***************************************************************************)
EXTENDS Withdrawals, FiniteLemmas

IInv == TypeOK /\ ReservationMatchesState /\ OneWithdrawalPerRequest

USE IdsAssumption, DomainAssumption

-----------------------------------------------------------------------------
(* The rows a step writes.                                                 *)

\* A decision only ever moves a withdrawal out of a state that is not terminal.
LEMMA DecisionStep ==
  ASSUME TypeOK, NEW w \in Ids, NEW expected, NEW decision \in Decisions,
         NEW tag \in Tags, NEW ack,
         Decide(w, expected, decision, tag, ack)
  PROVE  /\ wd[w].state \notin { "NONE", "CONFIRMED", "REJECTED" }
         /\ wd' = [wd EXCEPT ![w] = [ @ EXCEPT !.state = DecisionTarget(decision),
                                       !.released = wd[w].released \/ decision = "REJECT" ]]
         /\ DecisionTarget(decision) \in { "APPROVED", "HELD", "REJECTED" }
         /\ DecisionTarget(decision) = "REJECTED" <=> decision = "REJECT"
<1>1. DecisionTarget(decision) \in Successors(wd[w].state) /\ Created(w)
  BY DEF Decide, DecisionAllowed, TransitionAllowed
<1>2. wd[w].state \notin { "CONFIRMED", "REJECTED" }
  BY <1>1 DEF Successors
<1>3. DecisionTarget(decision) = CASE decision = "APPROVE" -> "APPROVED"
                                   [] decision = "HOLD"    -> "HELD"
                                   [] decision = "REJECT"  -> "REJECTED"
  BY DEF DecisionTarget
<1>4. wd' = [wd EXCEPT ![w] = [ @ EXCEPT !.state = DecisionTarget(decision),
                                       !.released = wd[w].released \/ decision = "REJECT" ]]
  BY DEF Decide, TypeOK, Row
<1> QED
  BY <1>1, <1>2, <1>3, <1>4 DEF Created, Decisions

\* The row of a withdrawal just created.
LEMMA CreatedRow ==
  ASSUME NEW key \in Keys, NEW outcome \in RiskOutcomes
  PROVE  /\ NewRow(key, outcome) \in Row
         /\ NewRow(key, outcome).state # "NONE"
         /\ NewRow(key, outcome).key = key
         /\ NewRow(key, outcome).reserved /\ ~NewRow(key, outcome).settled
         /\ NewRow(key, outcome).released <=> NewRow(key, outcome).state = "REJECTED"
<1>1. StateAfterRisk(outcome) \in States \ { "NONE" }
        /\ (StateAfterRisk(outcome) = "REJECTED" <=> outcome = "WITHDRAWAL_BLOCKED")
  BY DEF StateAfterRisk, RiskOutcomes, States
<1> QED
  BY <1>1 DEF NewRow, Row, RiskOutcomes

\* A ledger is typed, and each posting keeps it so.
LedgerType ==
  [ available : [Users -> Int], reserved : [Users -> Int], hot : Int, fees : Int ]

LEMMA PostingTypes ==
  ASSUME NEW l \in LedgerType, NEW w \in Ids
  PROVE  /\ ReservationPosting(l, w) \in LedgerType
         /\ ReleasePosting(l, w) \in LedgerType
<1>1. Owner[w] \in Users /\ Gross[w] \in Int
  OBVIOUS
<1>2. ReservationPosting(l, w) \in LedgerType
  <2> DEFINE available == [l.available EXCEPT ![Owner[w]] = @ - Gross[w]]
             reserved  == [l.reserved EXCEPT ![Owner[w]] = @ + Gross[w]]
  <2>1. available \in [Users -> Int] /\ reserved \in [Users -> Int]
    BY <1>1 DEF LedgerType
  <2>2. ReservationPosting(l, w) =
          [l EXCEPT !.available = available, !.reserved = reserved]
    BY DEF ReservationPosting
  <2> HIDE DEF available, reserved
  <2> QED
    BY <2>1, <2>2 DEF LedgerType
<1>3. ReleasePosting(l, w) \in LedgerType
  <2> DEFINE available == [l.available EXCEPT ![Owner[w]] = @ + Gross[w]]
             reserved  == [l.reserved EXCEPT ![Owner[w]] = @ - Gross[w]]
  <2>1. available \in [Users -> Int] /\ reserved \in [Users -> Int]
    BY <1>1 DEF LedgerType
  <2>2. ReleasePosting(l, w) =
          [l EXCEPT !.reserved = reserved, !.available = available]
    BY DEF ReleasePosting
  <2> HIDE DEF available, reserved
  <2> QED
    BY <2>1, <2>2 DEF LedgerType
<1> QED
  BY <1>2, <1>3

\* Reserving and releasing at once leaves the balances as they were.
LEMMA ReserveThenRelease ==
  ASSUME NEW l \in LedgerType, NEW w \in Ids
  PROVE  ReleasePosting(ReservationPosting(l, w), w) = l
<1>1. Owner[w] \in Users /\ Gross[w] \in Int
  OBVIOUS
<1> DEFINE r == ReservationPosting(l, w)
           m == ReleasePosting(r, w)
<1>2. r \in LedgerType /\ m \in LedgerType
  BY PostingTypes
<1>3. /\ r.available = [l.available EXCEPT ![Owner[w]] = @ - Gross[w]]
      /\ r.reserved = [l.reserved EXCEPT ![Owner[w]] = @ + Gross[w]]
      /\ r.hot = l.hot /\ r.fees = l.fees
  BY DEF LedgerType, ReservationPosting
<1>4. /\ m.available = [r.available EXCEPT ![Owner[w]] = @ + Gross[w]]
      /\ m.reserved = [r.reserved EXCEPT ![Owner[w]] = @ - Gross[w]]
      /\ m.hot = r.hot /\ m.fees = r.fees
  BY <1>2 DEF LedgerType, ReleasePosting
<1>5. m.available = l.available /\ m.reserved = l.reserved
  BY <1>1, <1>3, <1>4 DEF LedgerType
<1> QED
  BY <1>2, <1>3, <1>4, <1>5 DEF LedgerType

-----------------------------------------------------------------------------
(* The inductive invariant.                                                *)

LEMMA InitInvariant == Init => IInv
  BY DEF Init, IInv, TypeOK, QuoteStatuses, NoRow, Row, ReservationMatchesState,
         OneWithdrawalPerRequest, Created

LEMMA QuoteStepKeeps == ASSUME IInv, NEW w \in Ids, QuoteStep(w) PROVE IInv'
<1> DEFINE Good == /\ quote' \in [Ids -> [status : QuoteStatuses, lapsed : BOOLEAN]]
                   /\ \A v \in Ids : quote'[v].status = "CONSUMED" <=> quote[v].status = "CONSUMED"
<1>1. Good
  <2>1. quote \in [Ids -> [status : QuoteStatuses, lapsed : BOOLEAN]]
    BY DEF IInv, TypeOK
  <2>2. CASE CreateQuote(w)
    BY <2>1, <2>2 DEF CreateQuote, QuoteStatuses
  <2>3. CASE QuoteLapses(w)
    BY <2>1, <2>3 DEF QuoteLapses, QuoteStatuses
  <2>4. CASE CancelQuote(w)
    BY <2>1, <2>4 DEF CancelQuote, QuoteStatuses
  <2>5. CASE ExpireQuote(w)
    BY <2>1, <2>5 DEF ExpireQuote, QuoteStatuses
  <2> QED
    BY <2>2, <2>3, <2>4, <2>5 DEF QuoteStep
<1>2. UNCHANGED << wd, ledger, approvals, nonpayment, outbox, workflow >>
  BY DEF QuoteStep, CreateQuote, QuoteLapses, CancelQuote, ExpireQuote
<1> QED
  BY <1>1, <1>2 DEF IInv, TypeOK, ReservationMatchesState, OneWithdrawalPerRequest, Created

LEMMA CreateStepKeeps == ASSUME IInv, NEW w \in Ids, CreateStep(w) PROVE IInv'
<1>1. PICK key \in Keys, outcome \in RiskOutcomes : CreateFromQuote(w, key, outcome)
  BY DEF CreateStep
<1> DEFINE row == NewRow(key, outcome)
<1>2. /\ wd' = [wd EXCEPT ![w] = row]
      /\ quote' = [quote EXCEPT ![w].status = "CONSUMED"]
      /\ UNCHANGED << approvals, nonpayment, outbox, workflow >>
      /\ \A v \in Ids : ~(Owner[v] = Owner[w] /\ wd[v].key = key)
      /\ ledger.available[Owner[w]] >= Gross[w]
  BY <1>1 DEF CreateFromQuote, KeyTaken
<1>3. row \in Row /\ row.state # "NONE" /\ row.key = key /\ row.reserved /\ ~row.settled
        /\ (row.released <=> row.state = "REJECTED")
  BY CreatedRow
<1> HIDE DEF row
<1>4. ledger' \in LedgerType
  BY <1>1, PostingTypes DEF CreateFromQuote, IInv, TypeOK, LedgerType
<1>5. TypeOK'
  BY <1>2, <1>3, <1>4, ZenonT(30) DEF IInv, TypeOK, LedgerType, QuoteStatuses
<1>6. ReservationMatchesState'
  BY <1>2, <1>3 DEF IInv, TypeOK, ReservationMatchesState, Created
<1>7. OneWithdrawalPerRequest'
  BY <1>2, <1>3 DEF IInv, TypeOK, OneWithdrawalPerRequest, Created
<1> QED
  BY <1>5, <1>6, <1>7 DEF IInv

LEMMA DecideStepKeeps == ASSUME IInv, NEW w \in Ids, DecideStep(w) PROVE IInv'
<1>1. PICK expected \in DecisionStates, decision \in Decisions, tag \in Tags, ack \in BOOLEAN :
        Decide(w, expected, decision, tag, ack)
  BY DEF DecideStep
<1> DEFINE to == DecisionTarget(decision)
           row == [ wd[w] EXCEPT !.state = to,
                                 !.released = wd[w].released \/ decision = "REJECT" ]
<1>2. /\ wd' = [wd EXCEPT ![w] = row]
      /\ wd[w].state \notin { "NONE", "CONFIRMED", "REJECTED" }
      /\ to \in { "APPROVED", "HELD", "REJECTED" }
      /\ to = "REJECTED" <=> decision = "REJECT"
  BY <1>1, DecisionStep, ZenonT(30) DEF IInv
<1>3. /\ wd[w] \in Row /\ row \in Row
      /\ row.state = to /\ row.key = wd[w].key
      /\ row.reserved = wd[w].reserved /\ row.settled = wd[w].settled
      /\ row.released <=> (wd[w].released \/ decision = "REJECT")
  <2>1. wd[w] \in Row /\ to \in States
    BY <1>2 DEF IInv, TypeOK, States
  <2>2. (wd[w].released \/ decision = "REJECT") \in BOOLEAN
    OBVIOUS
  <2> HIDE DEF to
  <2>3. row \in Row
    BY <2>1, <2>2 DEF Row
  <2>4. row.state = to /\ row.key = wd[w].key
          /\ row.reserved = wd[w].reserved /\ row.settled = wd[w].settled
    BY <2>1 DEF Row
  <2>5. row.released <=> (wd[w].released \/ decision = "REJECT")
    BY <2>1 DEF Row
  <2> QED
    BY <2>1, <2>3, <2>4, <2>5
<1> HIDE DEF row, to
<1>4. ledger' \in LedgerType
  BY <1>1, PostingTypes DEF Decide, LedgerAfterRelease, IInv, TypeOK, LedgerType
<1>5. /\ approvals' \in [Ids -> [Tags -> Decisions \cup { "NONE" }]]
      /\ outbox' \in [Ids -> { "NONE", "PENDING", "DISPATCHED" }]
      /\ UNCHANGED << quote, nonpayment, workflow >>
  BY <1>1 DEF Decide, ApprovedEventInserted, IInv, TypeOK
<1>6. TypeOK'
  BY <1>2, <1>3, <1>4, <1>5 DEF IInv, TypeOK, LedgerType
<1>7. ReservationMatchesState'
  BY <1>2, <1>3 DEF IInv, TypeOK, ReservationMatchesState, Created
<1>8. OneWithdrawalPerRequest'
  BY <1>2, <1>3, <1>5 DEF IInv, TypeOK, OneWithdrawalPerRequest, Created
<1> QED
  BY <1>6, <1>7, <1>8 DEF IInv

LEMMA RelayStepKeeps == ASSUME IInv, NEW w \in Ids, RelayStep(w) PROVE IInv'
<1>1. /\ workflow' \in [Ids -> { "NONE", "RUNNING", "COMPLETED" }]
      /\ outbox' \in [Ids -> { "NONE", "PENDING", "DISPATCHED" }]
      /\ UNCHANGED << quote, wd, ledger, approvals, nonpayment >>
  BY DEF IInv, TypeOK, RelayStep, RelayDispatch, RelayStartThenCrash, WorkflowStarted
<1> QED
  BY <1>1 DEF IInv, TypeOK, ReservationMatchesState, OneWithdrawalPerRequest, Created

LEMMA StepInvariant == IInv /\ [Next]_rowVars => IInv'
<1> SUFFICES ASSUME IInv, [Next]_rowVars PROVE IInv'
  OBVIOUS
<1>1. CASE UNCHANGED rowVars
  BY <1>1 DEF rowVars, IInv, TypeOK, ReservationMatchesState,
             OneWithdrawalPerRequest, Created
<1>2. ASSUME NEW w \in Ids,
             QuoteStep(w) \/ CreateStep(w) \/ DecideStep(w) \/ RelayStep(w)
      PROVE  IInv'
  BY <1>2, QuoteStepKeeps, CreateStepKeeps, DecideStepKeeps, RelayStepKeeps
<1> QED
  BY <1>1, <1>2 DEF Next

\* The invariant holds in every reachable state, for any constants.
THEOREM InvariantHolds == Spec => []IInv
  BY InitInvariant, StepInvariant, PTL DEF Spec

\* Every row the transactions of create.ts, decide.ts, quotes.ts and
\* outbox-relay.ts write is of its type.
THEOREM TypesHold == Spec => []TypeOK
<1>1. IInv => TypeOK
  BY DEF IInv
<1> QED
  BY <1>1, InvariantHolds, PTL

\* The set-once ledger columns of a row agree with its state: reserved exactly
\* while it exists, released exactly when it is REJECTED, never also settled.
THEOREM MoneyFollowsState == Spec => []ReservationMatchesState
<1>1. IInv => ReservationMatchesState
  BY DEF IInv
<1> QED
  BY <1>1, InvariantHolds, PTL

\* However clients retry creation, one idempotency key of a user makes at most
\* one withdrawal, and only a consumed quote has one.
THEOREM RequestsAreUnique == Spec => []OneWithdrawalPerRequest
<1>1. IInv => OneWithdrawalPerRequest
  BY DEF IInv
<1> QED
  BY <1>1, InvariantHolds, PTL

-----------------------------------------------------------------------------
(* Every atomic unit.                                                      *)

\* The withdrawals of u whose reservation is open, and those whose gross has
\* not been given back.
OpenOf(u) == { w \in OwnedBy(u) : ReservationOpen(w) }
KeptOf(u) == { w \in OwnedBy(u) : wd[w].reserved /\ ~wd[w].released }

LEMMA GrossType == ASSUME NEW W \in SUBSET Ids PROVE SumGross(W) \in Int
<1>1. IsFiniteSet(W) /\ \A w \in W : Gross[w] \in Int
  BY FS_Subset
<1> QED
  BY <1>1, SumType DEF SumGross, Sum

\* A withdrawal more, or one less, changes the sum by its gross.
LEMMA GrossWith ==
  ASSUME NEW W \in SUBSET Ids, NEW w \in Ids
  PROVE  /\ w \notin W => SumGross(W \cup {w}) = SumGross(W) + Gross[w]
         /\ w \in W => SumGross(W \ {w}) = SumGross(W) - Gross[w]
<1>1. IsFiniteSet(W) /\ \A v \in W \cup {w} : Gross[v] \in Int
  BY FS_Subset
<1>2. SumGross(W) \in Int /\ SumGross(W \ {w}) \in Int /\ Gross[w] \in Int
  BY GrossType
<1>3. ASSUME w \notin W PROVE SumGross(W \cup {w}) = Gross[w] + SumGross(W)
  BY <1>1, <1>3, SumAdd DEF SumGross, Sum
<1>4. ASSUME w \in W PROVE SumGross(W) = Gross[w] + SumGross(W \ {w})
  BY <1>1, <1>4, SumRemove DEF SumGross, Sum
<1> QED
  BY <1>2, <1>3, <1>4

\* The balances of the user of w after a posting, and those of the others.
LEMMA PostedBalances ==
  ASSUME NEW l \in LedgerType, NEW w \in Ids, NEW u \in Users
  PROVE  /\ ReservationPosting(l, w).available[u] =
              IF u = Owner[w] THEN l.available[u] - Gross[w] ELSE l.available[u]
         /\ ReservationPosting(l, w).reserved[u] =
              IF u = Owner[w] THEN l.reserved[u] + Gross[w] ELSE l.reserved[u]
         /\ ReleasePosting(l, w).available[u] =
              IF u = Owner[w] THEN l.available[u] + Gross[w] ELSE l.available[u]
         /\ ReleasePosting(l, w).reserved[u] =
              IF u = Owner[w] THEN l.reserved[u] - Gross[w] ELSE l.reserved[u]
<1>1. /\ ReservationPosting(l, w).available = [l.available EXCEPT ![Owner[w]] = @ - Gross[w]]
      /\ ReservationPosting(l, w).reserved = [l.reserved EXCEPT ![Owner[w]] = @ + Gross[w]]
  BY DEF LedgerType, ReservationPosting
<1>2. /\ ReleasePosting(l, w).available = [l.available EXCEPT ![Owner[w]] = @ + Gross[w]]
      /\ ReleasePosting(l, w).reserved = [l.reserved EXCEPT ![Owner[w]] = @ - Gross[w]]
  BY DEF LedgerType, ReleasePosting
<1>3. l.available \in [Users -> Int] /\ l.reserved \in [Users -> Int]
  BY DEF LedgerType
<1> QED
  BY <1>1, <1>2, <1>3

\* What a change of the row of w does to both sets of its user.
LEMMA SetsAfter ==
  ASSUME TypeOK, NEW w \in Ids, NEW row \in Row, wd' = [wd EXCEPT ![w] = row],
         NEW u \in Users
  PROVE  /\ u # Owner[w] => OpenOf(u)' = OpenOf(u) /\ KeptOf(u)' = KeptOf(u)
         /\ u = Owner[w] /\ row.reserved /\ ~row.released =>
              KeptOf(u)' = KeptOf(u) \cup {w}
         /\ u = Owner[w] /\ row.reserved /\ ~row.released /\ ~row.settled =>
              OpenOf(u)' = OpenOf(u) \cup {w}
         /\ u = Owner[w] /\ row.released =>
              OpenOf(u)' = OpenOf(u) \ {w} /\ KeptOf(u)' = KeptOf(u) \ {w}
<1>1. wd'[w] = row /\ \A v \in Ids : v # w => wd'[v] = wd[v]
  BY DEF TypeOK
<1>2. w \in OwnedBy(u) <=> Owner[w] = u
  BY DEF OwnedBy
<1>3. OwnedBy(u) \subseteq Ids /\ OwnedBy(u)' = OwnedBy(u)
  BY DEF OwnedBy
<1> QED
  BY <1>1, <1>2, <1>3 DEF OpenOf, KeptOf, ReservationOpen

\* MoneyAccounted in terms of the two sets.
Accounted(u) ==
  /\ ledger.reserved[u] = SumGross(OpenOf(u))
  /\ ledger.available[u] = Deposit[u] - SumGross(KeptOf(u))
  /\ ledger.available[u] >= 0

LEMMA MoneyIsAccounted == MoneyAccounted <=> \A u \in Users : Accounted(u)
  BY DEF MoneyAccounted, Accounted, OpenOf, KeptOf

\* Money is accounted for by the row and the books alone.
LEMMA AccountsFollow ==
  ASSUME MoneyAccounted, ledger' = ledger,
         \A w \in Ids : /\ wd'[w].reserved = wd[w].reserved
                        /\ wd'[w].released = wd[w].released
                        /\ wd'[w].settled = wd[w].settled
  PROVE  MoneyAccounted'
<1>1. \A u \in Users : OpenOf(u)' = OpenOf(u) /\ KeptOf(u)' = KeptOf(u)
  BY DEF OpenOf, KeptOf, OwnedBy, ReservationOpen
<1>2. \A W : SumGross(W)' = SumGross(W)
  BY DEF SumGross
<1> QED
  BY <1>1, <1>2 DEF MoneyAccounted, OpenOf, KeptOf

LEMMA CreationIsAccounted ==
  ASSUME IInv, MoneyAccounted, NEW w \in Ids, CreateStep(w)
  PROVE  MoneyAccounted'
<1>1. PICK key \in Keys, outcome \in RiskOutcomes : CreateFromQuote(w, key, outcome)
  BY DEF CreateStep
<1> DEFINE row == NewRow(key, outcome)
<1>2. /\ wd' = [wd EXCEPT ![w] = row]
      /\ ~Created(w) /\ ledger.available[Owner[w]] >= Gross[w]
  BY <1>1 DEF CreateFromQuote
<1>3. /\ row \in Row /\ row.reserved /\ ~row.settled
      /\ row.released <=> outcome = "WITHDRAWAL_BLOCKED"
  BY CreatedRow DEF NewRow
<1> HIDE DEF row
<1>4. ledger \in LedgerType
  BY DEF IInv, TypeOK, LedgerType
<1>5. ~wd[w].reserved
  BY <1>2 DEF IInv, ReservationMatchesState
<1> SUFFICES ASSUME NEW u \in Users PROVE Accounted(u)'
  BY DEF MoneyAccounted, Accounted, OpenOf, KeptOf
<1>6. Accounted(u)
  BY MoneyIsAccounted
<1>7. w \notin OpenOf(u) /\ w \notin KeptOf(u)
  BY <1>5 DEF OpenOf, KeptOf, ReservationOpen
<1>8. OpenOf(u) \in SUBSET Ids /\ KeptOf(u) \in SUBSET Ids /\ Gross[w] \in Int
  BY DEF OpenOf, KeptOf, OwnedBy
<1>9. \A W : SumGross(W)' = SumGross(W)
  BY DEF SumGross
<1>10. CASE outcome = "WITHDRAWAL_BLOCKED"
  <2>1. ledger' = ledger
    BY <1>1, <1>4, <1>10, ReserveThenRelease DEF CreateFromQuote
  <2>2. OpenOf(u)' = OpenOf(u) /\ KeptOf(u)' = KeptOf(u)
    <3>1. CASE u = Owner[w]
      <4>1. OpenOf(u)' = OpenOf(u) \ {w} /\ KeptOf(u)' = KeptOf(u) \ {w}
        BY <3>1, <1>2, <1>3, <1>10, SetsAfter DEF IInv
      <4> QED
        BY <4>1, <1>7
    <3>2. CASE u # Owner[w]
      BY <3>2, <1>2, <1>3, SetsAfter DEF IInv
    <3> QED
      BY <3>1, <3>2
  <2> QED
    BY <1>6, <1>9, <2>1, <2>2 DEF Accounted
<1>11. CASE outcome # "WITHDRAWAL_BLOCKED" /\ u = Owner[w]
  <2>1. ledger' = ReservationPosting(ledger, w)
    BY <1>1, <1>11 DEF CreateFromQuote
  <2>2. OpenOf(u)' = OpenOf(u) \cup {w} /\ KeptOf(u)' = KeptOf(u) \cup {w}
    BY <1>2, <1>3, <1>11, SetsAfter DEF IInv
  <2>3. /\ ledger.available[u] - Gross[w] = ledger'.available[u]
        /\ ledger.reserved[u] + Gross[w] = ledger'.reserved[u]
    BY <1>4, <1>11, <2>1, PostedBalances
  <2>4. /\ SumGross(OpenOf(u)') = SumGross(OpenOf(u)) + Gross[w]
        /\ SumGross(KeptOf(u)') = SumGross(KeptOf(u)) + Gross[w]
    BY <1>7, <1>8, <2>2, GrossWith
  <2>5. /\ SumGross(OpenOf(u)) \in Int /\ SumGross(KeptOf(u)) \in Int
        /\ Deposit[u] \in Int
    BY <1>8, GrossType
  <2>6. /\ ledger.reserved[u] = SumGross(OpenOf(u))
        /\ ledger.available[u] = Deposit[u] - SumGross(KeptOf(u))
        /\ ledger.available[u] >= Gross[w]
    BY <1>2, <1>6, <1>11 DEF Accounted
  <2>7. /\ ledger'.reserved[u] = SumGross(OpenOf(u)')
        /\ ledger'.available[u] = Deposit[u] - SumGross(KeptOf(u)')
        /\ ledger'.available[u] >= 0
    BY <1>8, <2>3, <2>4, <2>5, <2>6
  <2> QED
    BY <1>9, <2>7 DEF Accounted
<1>12. CASE outcome # "WITHDRAWAL_BLOCKED" /\ u # Owner[w]
  <2>1. ledger' = ReservationPosting(ledger, w)
    BY <1>1, <1>12 DEF CreateFromQuote
  <2>2. OpenOf(u)' = OpenOf(u) /\ KeptOf(u)' = KeptOf(u)
    BY <1>2, <1>3, <1>12, SetsAfter DEF IInv
  <2>3. ledger'.available[u] = ledger.available[u] /\ ledger'.reserved[u] = ledger.reserved[u]
    BY <1>4, <1>12, <2>1, PostedBalances
  <2> QED
    BY <1>6, <1>9, <2>2, <2>3 DEF Accounted
<1> QED
  BY <1>10, <1>11, <1>12

LEMMA DecisionIsAccounted ==
  ASSUME IInv, MoneyAccounted, NEW w \in Ids, DecideStep(w)
  PROVE  MoneyAccounted'
<1>1. PICK expected \in DecisionStates, decision \in Decisions, tag \in Tags, ack \in BOOLEAN :
        Decide(w, expected, decision, tag, ack)
  BY DEF DecideStep
<1> DEFINE row == [ wd[w] EXCEPT !.state = DecisionTarget(decision),
                                 !.released = wd[w].released \/ decision = "REJECT" ]
<1>2. /\ wd' = [wd EXCEPT ![w] = row]
      /\ wd[w].state \notin { "NONE", "CONFIRMED", "REJECTED" }
      /\ DecisionTarget(decision) \in { "APPROVED", "HELD", "REJECTED" }
  BY <1>1, DecisionStep DEF IInv
<1>3. ~wd[w].settled /\ ~wd[w].released /\ wd[w].reserved /\ wd[w] \in Row
  BY <1>2 DEF IInv, TypeOK, ReservationMatchesState, Created
<1>4. /\ row \in Row
      /\ row.reserved /\ ~row.settled
      /\ row.released <=> decision = "REJECT"
  BY <1>2, <1>3 DEF Row, States
<1> HIDE DEF row
<1>5. ledger' = IF decision = "REJECT" THEN ReleasePosting(ledger, w) ELSE ledger
  BY <1>1, <1>3 DEF Decide, LedgerAfterRelease
<1>6. CASE decision # "REJECT"
  <2>1. \A v \in Ids : /\ wd'[v].reserved = wd[v].reserved
                       /\ wd'[v].released = wd[v].released
                       /\ wd'[v].settled = wd[v].settled
    BY <1>2, <1>3, <1>4, <1>6 DEF IInv, TypeOK, Row
  <2> QED
    BY <1>5, <1>6, <2>1, AccountsFollow
<1>7. CASE decision = "REJECT"
  <2>1. ledger \in LedgerType
    BY DEF IInv, TypeOK, LedgerType
  <2> SUFFICES ASSUME NEW u \in Users PROVE Accounted(u)'
    BY DEF MoneyAccounted, Accounted, OpenOf, KeptOf
  <2>2. Accounted(u)
    BY MoneyIsAccounted
  <2>3. OpenOf(u) \in SUBSET Ids /\ KeptOf(u) \in SUBSET Ids /\ Gross[w] \in Nat
    BY DEF OpenOf, KeptOf, OwnedBy
  <2>4. \A W : SumGross(W)' = SumGross(W)
    BY DEF SumGross
  <2>5. CASE u = Owner[w]
    <3>1. OpenOf(u)' = OpenOf(u) \ {w} /\ KeptOf(u)' = KeptOf(u) \ {w}
      BY <1>2, <1>4, <1>7, <2>5, SetsAfter DEF IInv
    <3>2. w \in OpenOf(u) /\ w \in KeptOf(u)
      BY <1>3, <2>5 DEF OpenOf, KeptOf, OwnedBy, ReservationOpen
    <3>3. /\ ledger'.available[u] = ledger.available[u] + Gross[w]
          /\ ledger'.reserved[u] = ledger.reserved[u] - Gross[w]
      BY <1>5, <1>7, <2>1, <2>5, PostedBalances
    <3>4. /\ SumGross(OpenOf(u)') = SumGross(OpenOf(u)) - Gross[w]
          /\ SumGross(KeptOf(u)') = SumGross(KeptOf(u)) - Gross[w]
      BY <2>3, <3>1, <3>2, GrossWith
    <3>5. /\ SumGross(OpenOf(u)) \in Int /\ SumGross(KeptOf(u)) \in Int
          /\ Deposit[u] \in Int
      BY <2>3, GrossType
    <3>6. /\ ledger.reserved[u] = SumGross(OpenOf(u))
          /\ ledger.available[u] = Deposit[u] - SumGross(KeptOf(u))
          /\ ledger.available[u] >= 0
      BY <2>2 DEF Accounted
    <3>7. /\ ledger'.reserved[u] = SumGross(OpenOf(u)')
          /\ ledger'.available[u] = Deposit[u] - SumGross(KeptOf(u)')
          /\ ledger'.available[u] >= 0
      BY <2>3, <3>3, <3>4, <3>5, <3>6
    <3> QED
      BY <2>4, <3>7 DEF Accounted
  <2>6. CASE u # Owner[w]
    <3>1. OpenOf(u)' = OpenOf(u) /\ KeptOf(u)' = KeptOf(u)
      BY <1>2, <1>4, <2>6, SetsAfter DEF IInv
    <3>2. ledger'.available[u] = ledger.available[u] /\ ledger'.reserved[u] = ledger.reserved[u]
      BY <1>5, <1>7, <2>1, <2>6, PostedBalances
    <3> QED
      BY <2>2, <2>4, <3>1, <3>2 DEF Accounted
  <2> QED
    BY <2>5, <2>6
<1> QED
  BY <1>6, <1>7

LEMMA InitIsAccounted == Init => MoneyAccounted
<1> SUFFICES ASSUME Init, NEW u \in Users PROVE Accounted(u)
  BY MoneyIsAccounted
<1>1. OpenOf(u) = {} /\ KeptOf(u) = {}
  BY DEF Init, NoRow, OpenOf, KeptOf, OwnedBy, ReservationOpen
<1>2. SumGross({}) = 0
  BY SumEmpty DEF SumGross, Sum
<1>3. ledger.reserved[u] = 0 /\ ledger.available[u] = Deposit[u] /\ Deposit[u] \in Nat
  BY DEF Init
<1>4. Deposit[u] = Deposit[u] - 0 /\ Deposit[u] >= 0
  BY <1>3
<1> QED
  BY <1>1, <1>2, <1>3, <1>4 DEF Accounted

LEMMA StepIsAccounted == IInv /\ MoneyAccounted /\ [Next]_rowVars => MoneyAccounted'
<1> SUFFICES ASSUME IInv, MoneyAccounted, [Next]_rowVars PROVE MoneyAccounted'
  OBVIOUS
<1>1. CASE UNCHANGED rowVars
  BY <1>1, AccountsFollow DEF rowVars
<1>2. ASSUME NEW w \in Ids, QuoteStep(w) \/ RelayStep(w)
      PROVE  MoneyAccounted'
  <2>1. wd' = wd /\ ledger' = ledger
    BY <1>2 DEF QuoteStep, CreateQuote, QuoteLapses, CancelQuote, ExpireQuote,
               RelayStep, RelayDispatch, RelayStartThenCrash
  <2> QED
    BY <2>1, AccountsFollow
<1> QED
  BY <1>1, <1>2, CreationIsAccounted, DecisionIsAccounted DEF Next

\* Creations, decisions and releases of any number of users account for every
\* atomic unit: what is reserved is the gross of the open reservations, what is
\* available the deposit less what was not given back, and never negative.
THEOREM MoneyIsKept == Spec => []MoneyAccounted
<1>1. Init => IInv /\ MoneyAccounted
  BY InitInvariant, InitIsAccounted
<1>2. (IInv /\ MoneyAccounted) /\ [Next]_rowVars => (IInv /\ MoneyAccounted)'
  BY StepInvariant, StepIsAccounted
<1> QED
  BY <1>1, <1>2, PTL DEF Spec

-----------------------------------------------------------------------------
(* The dual write of the approval.                                         *)

\* What makes ApprovalReachesWorkflow inductive: an event exists only after an
\* approval, and is marked only after its workflow was started.
EventFollowsApproval ==
  \A w \in Ids :
    /\ outbox[w] # "NONE" => \E t \in Tags : approvals[w][t] = "APPROVE"
    /\ outbox[w] = "DISPATCHED" => workflow[w] # "NONE"

HandoverInv == ApprovalReachesWorkflow /\ EventFollowsApproval

LEMMA InitHandover == Init => HandoverInv
  BY DEF Init, NoRow, HandoverInv, ApprovalReachesWorkflow, EventFollowsApproval

LEMMA StepHandover == IInv /\ HandoverInv /\ [Next]_rowVars => HandoverInv'
<1> SUFFICES ASSUME IInv, HandoverInv, [Next]_rowVars PROVE HandoverInv'
  OBVIOUS
<1> USE DEF HandoverInv, ApprovalReachesWorkflow, EventFollowsApproval
<1>1. CASE UNCHANGED rowVars
  BY <1>1 DEF rowVars
<1>2. ASSUME NEW w \in Ids, QuoteStep(w) PROVE HandoverInv'
  <2>1. UNCHANGED << wd, approvals, outbox, workflow >>
    BY <1>2 DEF QuoteStep, CreateQuote, QuoteLapses, CancelQuote, ExpireQuote
  <2> QED
    BY <2>1
<1>3. ASSUME NEW w \in Ids, CreateStep(w) PROVE HandoverInv'
  <2>1. PICK key \in Keys, outcome \in RiskOutcomes : CreateFromQuote(w, key, outcome)
    BY <1>3 DEF CreateStep
  <2>2. NewRow(key, outcome).state # "APPROVED"
    BY DEF NewRow, StateAfterRisk, RiskOutcomes
  <2>3. /\ UNCHANGED << approvals, outbox, workflow >>
        /\ \A v \in Ids : wd'[v].state = "APPROVED" => wd[v].state = "APPROVED"
    BY <2>1, <2>2 DEF CreateFromQuote, IInv, TypeOK
  <2> QED
    BY <2>3
<1>4. ASSUME NEW w \in Ids, DecideStep(w) PROVE HandoverInv'
  <2>1. PICK expected \in DecisionStates, decision \in Decisions, tag \in Tags, ack \in BOOLEAN :
          Decide(w, expected, decision, tag, ack)
    BY <1>4 DEF DecideStep
  <2>2. /\ \A v \in Ids : v # w => wd'[v] = wd[v]
        /\ wd'[w].state = DecisionTarget(decision)
        /\ decision # "APPROVE" => DecisionTarget(decision) # "APPROVED"
    <3>1. wd' = [wd EXCEPT ![w] = [ @ EXCEPT !.state = DecisionTarget(decision),
                                     !.released = wd[w].released \/ decision = "REJECT" ]]
      BY <2>1, DecisionStep, ZenonT(30) DEF IInv
    <3>2. decision # "APPROVE" => DecisionTarget(decision) # "APPROVED"
      BY DEF DecisionTarget, Decisions
    <3> HIDE DEF DecisionTarget
    <3> QED
      BY <3>1, <3>2 DEF IInv, TypeOK, Row
  <2>3. /\ \A v \in Ids, t \in Tags :
             approvals[v][t] = "APPROVE" => approvals'[v][t] = "APPROVE"
        /\ approvals'[w][tag] = decision
    BY <2>1 DEF Decide, IInv, TypeOK, Decisions
  <2>4. /\ workflow' = workflow
        /\ \A v \in Ids : outbox'[v] = IF v = w /\ decision = "APPROVE" /\ outbox[v] = "NONE"
                                         THEN "PENDING" ELSE outbox[v]
    BY <2>1 DEF Decide, ApprovedEventInserted, IInv, TypeOK
  <2>5. outbox \in [Ids -> { "NONE", "PENDING", "DISPATCHED" }]
    BY DEF IInv, TypeOK
  <2>6. ApprovalReachesWorkflow'
    BY <2>2, <2>3, <2>4, <2>5
  <2>7. EventFollowsApproval'
    BY <2>2, <2>3, <2>4, <2>5
  <2> QED
    BY <2>6, <2>7
<1>5. ASSUME NEW w \in Ids, RelayStep(w) PROVE HandoverInv'
  BY <1>5, ZenonT(30) DEF RelayStep, RelayDispatch, RelayStartThenCrash, WorkflowStarted, IInv, TypeOK
<1> QED
  BY <1>1, <1>2, <1>3, <1>4, <1>5 DEF Next

\* No approval of decide.ts is lost between the transaction that records it and
\* Temporal, and Temporal runs no withdrawal the Owner did not approve, whenever
\* the relay crashes.
THEOREM ApprovalsArrive == Spec => []ApprovalReachesWorkflow
<1>1. Init => IInv /\ HandoverInv
  BY InitInvariant, InitHandover
<1>2. (IInv /\ HandoverInv) /\ [Next]_rowVars => (IInv /\ HandoverInv)'
  BY StepInvariant, StepHandover
<1>3. HandoverInv => ApprovalReachesWorkflow
  BY DEF HandoverInv
<1> QED
  BY <1>1, <1>2, <1>3, PTL DEF Spec

-----------------------------------------------------------------------------
(* A rejection is final.                                                   *)

LEMMA RejectedStays ==
  ASSUME IInv, [Next]_rowVars, NEW v \in Ids, wd[v].state = "REJECTED"
  PROVE  wd'[v] = wd[v] /\ approvals'[v] = approvals[v]
<1>1. CASE UNCHANGED rowVars
  BY <1>1 DEF rowVars
<1>2. ASSUME NEW w \in Ids, QuoteStep(w) \/ RelayStep(w)
      PROVE  wd' = wd /\ approvals' = approvals
  BY <1>2 DEF QuoteStep, CreateQuote, QuoteLapses, CancelQuote, ExpireQuote,
             RelayStep, RelayDispatch, RelayStartThenCrash
<1>3. ASSUME NEW w \in Ids, CreateStep(w)
      PROVE  wd'[v] = wd[v] /\ approvals'[v] = approvals[v]
  <2>1. PICK row : wd' = [wd EXCEPT ![w] = row]
    BY <1>3 DEF CreateStep, CreateFromQuote
  <2>2. ~Created(w) /\ approvals' = approvals
    BY <1>3 DEF CreateStep, CreateFromQuote
  <2>3. v # w
    BY <2>2 DEF Created
  <2> QED
    BY <2>1, <2>2, <2>3 DEF IInv, TypeOK
<1>4. ASSUME NEW w \in Ids, DecideStep(w)
      PROVE  wd'[v] = wd[v] /\ approvals'[v] = approvals[v]
  <2>1. PICK expected \in DecisionStates, decision \in Decisions, tag \in Tags, ack \in BOOLEAN :
          Decide(w, expected, decision, tag, ack)
    BY <1>4 DEF DecideStep
  <2>2. v # w
    BY <2>1, DecisionStep DEF IInv
  <2> QED
    BY <2>1, <2>2 DEF Decide, IInv, TypeOK
<1> QED
  BY <1>1, <1>2, <1>3, <1>4 DEF Next

\* Nothing an Owner, a client, the clock or a late relay does moves the row of
\* a rejected withdrawal or the decisions recorded for it.
THEOREM RejectionStands == Spec => RejectionIsFinal
<1>1. IInv /\ [Next]_rowVars =>
        [\A w \in Ids : wd[w].state = "REJECTED" =>
           wd'[w] = wd[w] /\ approvals'[w] = approvals[w]]_rowVars
  BY RejectedStays
<1> QED
  BY <1>1, InvariantHolds, PTL DEF Spec, RejectionIsFinal

-----------------------------------------------------------------------------
(* Withdrawals implements PayoutPromise.                                   *)

\* The fate of a withdrawal whose chain payment does not exist, by its row.
LEMMA FateOf ==
  ASSUME NEW w \in Ids
  PROVE  /\ ~wd[w].settled /\ ~wd[w].released /\ ~Created(w) => Fate({})[w] = "none"
         /\ ~wd[w].settled /\ wd[w].released /\ Created(w) => Fate({})[w] = "returned"
         /\ ~wd[w].settled /\ ~wd[w].released /\ Created(w) => Fate({})[w] = "reserved"
<1>1. Fate({})[w] = CASE wd[w].settled -> "settled"
                      [] ~wd[w].settled /\ w \in {} -> "paid"
                      [] wd[w].released /\ w \notin {} -> "returned"
                      [] ~Created(w) -> "none"
                      [] OTHER -> "reserved"
  BY DEF Fate
<1> QED
  BY <1>1 DEF Created

LEMMA FateDomain == Fate({}) = [w \in Ids |-> Fate({})[w]]
  BY DEF Fate

\* A step that writes the row of w alone moves no other withdrawal's fate.
LEMMA OnlyFateOf ==
  ASSUME IInv, NEW w \in Ids, NEW row, wd' = [wd EXCEPT ![w] = row]
  PROVE  Fate({})' = [Fate({}) EXCEPT ![w] = Fate({})'[w]]
<1>1. \A v \in Ids : v # w => wd'[v] = wd[v]
  BY DEF IInv, TypeOK
<1>2. \A v \in Ids : v # w => Fate({})'[v] = Fate({})[v]
  BY <1>1 DEF Fate, Created
<1>3. Fate({})' = [v \in Ids |-> Fate({})'[v]]
  BY DEF Fate
<1>4. [Fate({}) EXCEPT ![w] = Fate({})'[w]] = [v \in Ids |-> Fate({})'[v]]
  <2> HIDE DEF Fate
  <2> QED
    BY <1>2, FateDomain
<1> QED
  BY <1>3, <1>4

LEMMA FateFollowsRows == ASSUME wd' = wd PROVE Fate({})' = Fate({})
  BY DEF Fate, Created

LEMMA PromiseInit == Init => Promise!Init
<1> SUFFICES ASSUME Init PROVE Promise!Init
  OBVIOUS
<1>1. \A w \in Ids : ~wd[w].settled /\ ~wd[w].released /\ ~Created(w)
  BY DEF Init, NoRow, Created
<1>2. \A w \in Ids : Fate({})[w] = "none"
  BY <1>1, FateOf
<1> HIDE DEF Fate
<1> QED
  BY <1>2, FateDomain DEF Promise!Init

\* Creation reserves the gross, or for a blocked account takes nothing.
LEMMA CreationIsPromised ==
  ASSUME IInv, NEW w \in Ids, CreateStep(w)
  PROVE  Promise!Reserve(w) \/ Promise!Refuse(w)
<1>1. PICK key \in Keys, outcome \in RiskOutcomes : CreateFromQuote(w, key, outcome)
  BY DEF CreateStep
<1> DEFINE row == NewRow(key, outcome)
<1>2. /\ wd' = [wd EXCEPT ![w] = row]
      /\ ~Created(w) /\ ledger.available[Owner[w]] >= Gross[w]
  BY <1>1 DEF CreateFromQuote
<1>3. /\ row.state # "NONE" /\ ~row.settled
      /\ row.released <=> outcome = "WITHDRAWAL_BLOCKED"
  BY CreatedRow DEF NewRow
<1> HIDE DEF row
<1>4. wd'[w] = row
  BY <1>2 DEF IInv, TypeOK
<1>5. Fate({})[w] = "none"
  BY <1>2, FateOf DEF IInv, ReservationMatchesState, Created
<1>6. Fate({})' = [Fate({}) EXCEPT ![w] = Fate({})'[w]]
  BY <1>2, OnlyFateOf
<1>7. Fate({})'[w] = IF outcome = "WITHDRAWAL_BLOCKED" THEN "returned" ELSE "reserved"
  <2>1. /\ ~wd'[w].settled /\ wd'[w].state # "NONE"
        /\ wd'[w].released <=> outcome = "WITHDRAWAL_BLOCKED"
    BY <1>3, <1>4
  <2>2. Fate({})'[w] = CASE wd'[w].settled -> "settled"
                         [] ~wd'[w].settled /\ w \in {} -> "paid"
                         [] wd'[w].released /\ w \notin {} -> "returned"
                         [] ~(wd'[w].state # "NONE") -> "none"
                         [] OTHER -> "reserved"
    BY DEF Fate, Created
  <2> QED
    BY <2>1, <2>2
<1>8. CASE outcome = "WITHDRAWAL_BLOCKED"
  <2>1. ledger' = ledger
    BY <1>1, <1>8, ReserveThenRelease DEF CreateFromQuote, IInv, TypeOK, LedgerType
  <2> HIDE DEF Fate
  <2> QED
    BY <1>2, <1>5, <1>6, <1>7, <1>8, <2>1
       DEF Promise!Refuse, Promise!Becomes, Promise!Affordable
<1>9. CASE outcome # "WITHDRAWAL_BLOCKED"
  <2>1. ledger' = ReservationPosting(ledger, w)
    BY <1>1, <1>9 DEF CreateFromQuote
  <2> HIDE DEF Fate
  <2> QED
    BY <1>2, <1>5, <1>6, <1>7, <1>9, <2>1
       DEF Promise!Reserve, Promise!Becomes, Promise!Affordable, ReservationPosting
<1> QED
  BY <1>8, <1>9

\* A rejection gives the gross back; no other decision moves money.
LEMMA DecisionIsPromised ==
  ASSUME IInv, NEW w \in Ids, DecideStep(w)
  PROVE  Promise!Return(w) \/ (Fate({})' = Fate({}) /\ ledger' = ledger)
<1>1. PICK expected \in DecisionStates, decision \in Decisions, tag \in Tags, ack \in BOOLEAN :
        Decide(w, expected, decision, tag, ack)
  BY DEF DecideStep
<1> DEFINE row == [ wd[w] EXCEPT !.state = DecisionTarget(decision),
                                 !.released = wd[w].released \/ decision = "REJECT" ]
<1>2. /\ wd' = [wd EXCEPT ![w] = row]
      /\ wd[w].state \notin { "NONE", "CONFIRMED", "REJECTED" }
      /\ DecisionTarget(decision) # "NONE"
  BY <1>1, DecisionStep DEF IInv
<1>3. /\ ~wd[w].settled /\ ~wd[w].released /\ Created(w)
      /\ wd[w] \in Row
  BY <1>2 DEF IInv, TypeOK, ReservationMatchesState, Created
<1>4. /\ row.state # "NONE" /\ ~row.settled
      /\ row.released <=> decision = "REJECT"
  <2>1. /\ row.state = DecisionTarget(decision) /\ row.settled = wd[w].settled
        /\ row.released <=> (wd[w].released \/ decision = "REJECT")
    BY <1>3 DEF Row
  <2> QED
    BY <2>1, <1>2, <1>3
<1> HIDE DEF row
<1>5. wd'[w] = row
  BY <1>2 DEF IInv, TypeOK
<1>6. Fate({})[w] = "reserved"
  BY <1>3, FateOf
<1>7. Fate({})' = [Fate({}) EXCEPT ![w] = Fate({})'[w]]
  BY <1>2, OnlyFateOf
<1>8. Fate({})'[w] = IF decision = "REJECT" THEN "returned" ELSE "reserved"
  <2>1. /\ ~wd'[w].settled /\ wd'[w].state # "NONE"
        /\ wd'[w].released <=> decision = "REJECT"
    BY <1>4, <1>5
  <2>2. Fate({})'[w] = CASE wd'[w].settled -> "settled"
                         [] ~wd'[w].settled /\ w \in {} -> "paid"
                         [] wd'[w].released /\ w \notin {} -> "returned"
                         [] ~(wd'[w].state # "NONE") -> "none"
                         [] OTHER -> "reserved"
    BY DEF Fate, Created
  <2> QED
    BY <2>1, <2>2
<1>9. ledger' = IF decision = "REJECT" THEN ReleasePosting(ledger, w) ELSE ledger
  BY <1>1, <1>3 DEF Decide, LedgerAfterRelease
<1> HIDE DEF Fate
<1>10. CASE decision = "REJECT"
  BY <1>6, <1>7, <1>8, <1>9, <1>10
     DEF Promise!Return, Promise!Becomes, ReleasePosting
<1>11. CASE decision # "REJECT"
  BY <1>6, <1>7, <1>8, <1>9, <1>11, FateDomain
<1> QED
  BY <1>10, <1>11

LEMMA StepIsPromised ==
  IInv /\ [Next]_rowVars => [Promise!Next]_<< Fate({}), ledger >>
<1> SUFFICES ASSUME IInv, [Next]_rowVars
             PROVE  Promise!Next \/ (Fate({})' = Fate({}) /\ ledger' = ledger)
  OBVIOUS
<1>1. CASE UNCHANGED rowVars
  BY <1>1, FateFollowsRows DEF rowVars
<1>2. ASSUME NEW w \in Ids, QuoteStep(w) \/ RelayStep(w)
      PROVE  Fate({})' = Fate({}) /\ ledger' = ledger
  <2>1. wd' = wd /\ ledger' = ledger
    BY <1>2 DEF QuoteStep, CreateQuote, QuoteLapses, CancelQuote, ExpireQuote,
               RelayStep, RelayDispatch, RelayStartThenCrash
  <2> QED
    BY <2>1, FateFollowsRows
<1>3. ASSUME NEW w \in Ids, CreateStep(w)
      PROVE  Promise!Next
  BY <1>3, CreationIsPromised DEF Promise!Next
<1>4. ASSUME NEW w \in Ids, DecideStep(w)
      PROVE  Promise!Next \/ (Fate({})' = Fate({}) /\ ledger' = ledger)
  BY <1>4, DecisionIsPromised DEF Promise!Next
<1> QED
  BY <1>1, <1>2, <1>3, <1>4 DEF Next

\* The transactions of create.ts, decide.ts and release.ts implement the promise
\* made to the user: his gross is reserved once, given back at most once, and
\* the books move with nothing else.
THEOREM PromiseHolds == Spec => PromiseKept
<1>1. Spec => Promise!Init /\ [][Promise!Next]_<< Fate({}), ledger >>
  BY PromiseInit, StepIsPromised, InvariantHolds, PTL DEF Spec
<1> QED
  BY <1>1 DEF PromiseKept, Promise!Spec

-----------------------------------------------------------------------------
(* What the payouts that extend the rows rely on.                          *)

\* The rows are all there is to the invariant.
LEMMA RowsStay == ASSUME IInv, UNCHANGED rowVars PROVE IInv'
  BY DEF rowVars, IInv, TypeOK, ReservationMatchesState, OneWithdrawalPerRequest, Created

\* A settlement keeps the types of the books.
LEMMA SettlementType ==
  ASSUME NEW l \in LedgerType, NEW w \in Ids PROVE SettlementPosting(l, w) \in LedgerType
<1> DEFINE reserved == [l.reserved EXCEPT ![Owner[w]] = @ - Gross[w]]
<1>1. Owner[w] \in Users /\ Gross[w] \in Int /\ Net(w) \in Int /\ Fee[w] \in Int
  BY DEF Net
<1>2. reserved \in [Users -> Int] /\ l.hot - Net(w) \in Int /\ l.fees + Fee[w] \in Int
  BY <1>1 DEF LedgerType
<1>3. SettlementPosting(l, w) =
        [ l EXCEPT !.reserved = reserved, !.hot = l.hot - Net(w), !.fees = l.fees + Fee[w] ]
  BY DEF SettlementPosting
<1> HIDE DEF reserved
<1> QED
  BY <1>2, <1>3 DEF LedgerType

\* The invariant holds where a payout starts.
LEMMA ReviewKeeps == ReviewInit => IInv
<1> SUFFICES ASSUME ReviewInit PROVE IInv
  OBVIOUS
<1> DEFINE available == [u \in Users |-> Deposit[u] - SumGross(OwnedBy(u))]
           reserved == [u \in Users |-> SumGross(OwnedBy(u))]
<1>1. \A key \in Keys : /\ UnderReview(key) \in Row /\ UnderReview(key).state = "MANUAL_REVIEW"
                        /\ UnderReview(key).reserved /\ ~UnderReview(key).released
                        /\ ~UnderReview(key).settled
  BY DEF UnderReview, Row, States
<1>2. wd \in [Ids -> Row] /\ \A w \in Ids : /\ wd[w].state = "MANUAL_REVIEW" /\ wd[w].reserved
                                            /\ ~wd[w].released /\ ~wd[w].settled
  BY <1>1 DEF ReviewInit
<1>3. ledger \in LedgerType
  <2>1. \A u \in Users : SumGross(OwnedBy(u)) \in Int /\ Deposit[u] \in Int
    BY GrossType DEF OwnedBy
  <2>2. available \in [Users -> Int] /\ reserved \in [Users -> Int]
    BY <2>1
  <2>3. ledger = [ available |-> available, reserved |-> reserved, hot |-> 0, fees |-> 0 ]
    BY DEF ReviewInit
  <2> HIDE DEF available, reserved
  <2> QED
    BY <2>2, <2>3 DEF LedgerType
<1>4. TypeOK
  BY <1>2, <1>3 DEF ReviewInit, TypeOK, LedgerType, QuoteStatuses
<1>5. ReservationMatchesState
  BY <1>2 DEF ReservationMatchesState, Created
<1>6. OneWithdrawalPerRequest
  BY <1>2 DEF ReviewInit, OneWithdrawalPerRequest, Created
<1> QED
  BY <1>4, <1>5, <1>6 DEF IInv

\* The row of one withdrawal moves, and the money in the books with it.
LEMMA RowMoves ==
  ASSUME IInv, NEW w \in Ids, NEW row \in Row, wd' = [wd EXCEPT ![w] = row],
         wd[w].state # "NONE", row.state # "NONE",
         row.key = wd[w].key, row.reserved = wd[w].reserved,
         row.released <=> row.state = "REJECTED",
         row.settled => row.state = "CONFIRMED",
         ledger' \in LedgerType, nonpayment' \in [Ids -> SUBSET Nat],
         UNCHANGED << quote, approvals, outbox, workflow >>
  PROVE  IInv' /\ wd'[w] = row /\ \A v \in Ids \ { w } : wd'[v] = wd[v]
<1>1. wd \in [Ids -> Row]
  BY DEF IInv, TypeOK
<1>2. wd' \in [Ids -> Row] /\ wd'[w] = row /\ \A v \in Ids \ { w } : wd'[v] = wd[v]
  BY <1>1
<1>3. TypeOK'
  BY <1>2 DEF IInv, TypeOK, LedgerType
<1>4. ReservationMatchesState'
  BY <1>2 DEF IInv, ReservationMatchesState, Created
<1>5. OneWithdrawalPerRequest'
  BY <1>2 DEF IInv, OneWithdrawalPerRequest, Created
<1> QED
  BY <1>2, <1>3, <1>4, <1>5 DEF IInv

=============================================================================
