---------------------------- MODULE Withdrawals ----------------------------
(***************************************************************************)
(* The withdrawal rows and the money behind them: quotes, creation with its *)
(* reservation and V1 risk decision, the Owner's decisions, the release of  *)
(* a rejected withdrawal, and the relay that starts the payout workflow     *)
(* from the transactional outbox.  What the workflow then does is modelled  *)
(* by the modules that extend this one (FakePayout, RealPayout).            *)
(*                                                                          *)
(* Every operation of the code runs in one PostgreSQL transaction that      *)
(* locks the rows it reads (withWithdrawalTransaction), so every operation  *)
(* is one action.  A call that throws is rolled back and is no step.        *)
(***************************************************************************)
EXTENDS WithdrawalStates, Integers, FiniteSets, Functions

CONSTANTS
  Ids,            \* quotes; a unique index gives each at most one withdrawal
  Users,
  Owner,          \* [Ids -> Users]: the user who asked for the quote
  Gross,          \* [Ids -> Nat]: requested_amount_atomic
  Fee,            \* [Ids -> Nat]: fee_amount_atomic
  Deposit,        \* [Users -> Nat]: the available balance at the start
  Keys,           \* idempotency keys the clients use for creation
  DecisionStates, \* the expectedState values the callers of a decision pass
  Tags,           \* decision idempotency tags; they bound the decisions
  NoKey           \* not a key: the withdrawal does not exist

ASSUME IdsAssumption ==
  /\ IsFiniteSet(Ids)
  /\ Owner \in [Ids -> Users]
  /\ Gross \in [Ids -> Nat]
  /\ Fee \in [Ids -> Nat]
  /\ \A w \in Ids : Fee[w] < Gross[w]
  /\ Deposit \in [Users -> Nat]

ASSUME DomainAssumption ==
  /\ DecisionStates \subseteq States
  /\ NoKey \notin Keys

Decisions == { "APPROVE", "HOLD", "REJECT" }
RiskOutcomes == { "MANUAL_REVIEW", "HELD", "WITHDRAWAL_BLOCKED" }

VARIABLES
  quote,      \* quote[w]: status and lapsed (now is past expires_at)
  wd,         \* wd[w]: the withdrawals row
  ledger,     \* balances of the accounts a withdrawal moves money between
  approvals,  \* approvals[w][t]: decision recorded under tag t, or "NONE"
  nonpayment, \* nonpayment[w]: attempts with a DEFINITIVE_NONPAYMENT row
  outbox,     \* outbox[w]: status of the withdrawal.approved event
  workflow    \* workflow[w]: the Temporal execution with id withdrawal/{w}

rowVars == << quote, wd, ledger, approvals, nonpayment, outbox, workflow >>

-----------------------------------------------------------------------------
(* The rows.                                                               *)

QuoteStatuses == { "NONE", "OPEN", "CONSUMED", "CANCELLED", "EXPIRED" }

\* A withdrawals row: reserved, released and settled say whether the set-once
\* reservation_, release_ and settlement_ledger_tx_id columns are set.
Row == [ state    : States \cup { "NONE" },
         held     : BOOLEAN,
         key      : Keys \cup { NoKey },
         reserved : BOOLEAN,
         released : BOOLEAN,
         settled  : BOOLEAN ]

NoRow == [ state |-> "NONE", held |-> FALSE, key |-> NoKey,
           reserved |-> FALSE, released |-> FALSE, settled |-> FALSE ]

Created(w) == wd[w].state # "NONE"

Net(w) == Gross[w] - Fee[w]

TypeOK ==
  /\ quote \in [Ids -> [status : QuoteStatuses, lapsed : BOOLEAN]]
  /\ wd \in [Ids -> Row]
  /\ ledger \in [ available : [Users -> Int], reserved : [Users -> Int],
                  hot : Int, fees : Int ]
  /\ approvals \in [Ids -> [Tags -> Decisions \cup { "NONE" }]]
  /\ nonpayment \in [Ids -> SUBSET Nat]
  /\ outbox \in [Ids -> { "NONE", "PENDING", "DISPATCHED" }]
  /\ workflow \in [Ids -> { "NONE", "RUNNING", "COMPLETED" }]

-----------------------------------------------------------------------------
(* Ledger transactions: the entries each one posts.                        *)

\* Mutant: the net amount is reserved, not the gross.
ReservationPostingOfNet(l, w) ==
  [ l EXCEPT !.available[Owner[w]] = @ - Net(w),
             !.reserved[Owner[w]] = @ + Net(w) ]

ReservationPosting(l, w) ==
  [ l EXCEPT !.available[Owner[w]] = @ - Gross[w],
             !.reserved[Owner[w]] = @ + Gross[w] ]

\* Mutant: the fee is kept when the reservation is given back.
ReleasePostingLessFee(l, w) ==
  [ l EXCEPT !.reserved[Owner[w]] = @ - Gross[w],
             !.available[Owner[w]] = @ + Net(w) ]

ReleasePosting(l, w) ==
  [ l EXCEPT !.reserved[Owner[w]] = @ - Gross[w],
             !.available[Owner[w]] = @ + Gross[w] ]

SettlementPosting(l, w) ==
  [ l EXCEPT !.reserved[Owner[w]] = @ - Gross[w],
             !.hot = @ - Net(w),
             !.fees = @ + Fee[w] ]

\* releaseWithdrawalReservation does nothing when a release is already posted,
\* and throws (so the whole decision is rolled back) after a settlement.
Releasable(row) == row.released \/ (row.reserved /\ ~row.settled)

LedgerAfterRelease(w) ==
  IF wd[w].released THEN ledger ELSE ReleasePosting(ledger, w)

SumGross(W) == SumFunctionOnSet(Gross, W)

OwnedBy(u) == { w \in Ids : Owner[w] = u }

-----------------------------------------------------------------------------
(* Quotes: quotes.ts.                                                      *)

Init ==
  /\ quote = [w \in Ids |-> [status |-> "NONE", lapsed |-> FALSE]]
  /\ wd = [w \in Ids |-> NoRow]
  /\ ledger = [ available |-> Deposit, reserved |-> [u \in Users |-> 0],
                hot |-> 0, fees |-> 0 ]
  /\ approvals = [w \in Ids |-> [t \in Tags |-> "NONE"]]
  /\ nonpayment = [w \in Ids |-> {}]
  /\ outbox = [w \in Ids |-> "NONE"]
  /\ workflow = [w \in Ids |-> "NONE"]

\* Withdrawals under review with their reservations, where a payout starts; one
\* key each (the amounts are within the deposits).
UnderReview(key) ==
  [ state |-> "MANUAL_REVIEW", held |-> FALSE, key |-> key,
    reserved |-> TRUE, released |-> FALSE, settled |-> FALSE ]

ReviewInit ==
  /\ quote = [w \in Ids |-> [status |-> "CONSUMED", lapsed |-> FALSE]]
  /\ wd \in [Ids -> { UnderReview(key) : key \in Keys }]
  /\ \A v, w \in Ids : wd[v].key = wd[w].key => v = w
  /\ ledger = [ available |-> [u \in Users |-> Deposit[u] - SumGross(OwnedBy(u))],
                reserved  |-> [u \in Users |-> SumGross(OwnedBy(u))],
                hot |-> 0, fees |-> 0 ]
  /\ approvals = [w \in Ids |-> [t \in Tags |-> "NONE"]]
  /\ nonpayment = [w \in Ids |-> {}]
  /\ outbox = [w \in Ids |-> "NONE"]
  /\ workflow = [w \in Ids |-> "NONE"]

\* createWithdrawalQuote takes no money and no lock on the balance.
CreateQuote(w) ==
  /\ quote[w].status = "NONE"
  /\ quote' = [quote EXCEPT ![w].status = "OPEN"]
  /\ UNCHANGED << wd, ledger, approvals, nonpayment, outbox, workflow >>

\* The clock passes expires_at.
QuoteLapses(w) ==
  /\ quote[w].status = "OPEN" /\ ~quote[w].lapsed
  /\ quote' = [quote EXCEPT ![w].lapsed = TRUE]
  /\ UNCHANGED << wd, ledger, approvals, nonpayment, outbox, workflow >>

\* cancelWithdrawalQuote.  On a lapsed quote the code updates the status to
\* EXPIRED and then throws QUOTE_EXPIRED, which rolls the update back: no step.
CancelQuote(w) ==
  /\ quote[w].status = "OPEN" /\ ~quote[w].lapsed
  /\ quote' = [quote EXCEPT ![w].status = "CANCELLED"]
  /\ UNCHANGED << wd, ledger, approvals, nonpayment, outbox, workflow >>

\* expireWithdrawalQuote.
ExpireQuote(w) ==
  /\ quote[w].status = "OPEN" /\ quote[w].lapsed
  /\ quote' = [quote EXCEPT ![w].status = "EXPIRED"]
  /\ UNCHANGED << wd, ledger, approvals, nonpayment, outbox, workflow >>

-----------------------------------------------------------------------------
(* Creation: create.ts, with risk.ts in the same transaction.              *)

\* A withdrawal of the same user already answers to this idempotency key: the
\* call replays it or fails with IDEMPOTENCY_CONFLICT, and changes nothing.
KeyTaken(user, key) ==
  \E v \in Ids : Owner[v] = user /\ wd[v].key = key

\* The state applyV1RiskPolicy leaves a new withdrawal in; V1 never approves.
StateAfterRisk(outcome) ==
  CASE outcome = "WITHDRAWAL_BLOCKED" -> "REJECTED"
    [] outcome = "HELD"               -> "HELD"
    [] outcome = "MANUAL_REVIEW"      -> "MANUAL_REVIEW"

\* Mutant: the blocked account's release is posted but not recorded on the row.
NewRowUnreleased(key, outcome) ==
  [ state |-> StateAfterRisk(outcome), held |-> FALSE, key |-> key,
    reserved |-> TRUE, released |-> FALSE, settled |-> FALSE ]

NewRow(key, outcome) ==
  [ state    |-> StateAfterRisk(outcome),
    held     |-> FALSE,
    key      |-> key,
    reserved |-> TRUE,
    released |-> outcome = "WITHDRAWAL_BLOCKED",
    settled  |-> FALSE ]

\* createWithdrawalFromQuote: insert, reserve the gross amount (the ledger
\* refuses a negative available balance), consume the quote, decide the risk;
\* a blocked account is rejected and its reservation released at once.
CreateFromQuote(w, key, outcome) ==
  /\ ~KeyTaken(Owner[w], key)
  /\ quote[w].status = "OPEN" /\ ~quote[w].lapsed
  /\ ~Created(w)
  /\ ledger.available[Owner[w]] >= Gross[w]
  /\ wd' = [wd EXCEPT ![w] = NewRow(key, outcome)]
  /\ ledger' = IF outcome = "WITHDRAWAL_BLOCKED"
                 THEN ReleasePosting(ReservationPosting(ledger, w), w)
                 ELSE ReservationPosting(ledger, w)
  /\ quote' = [quote EXCEPT ![w].status = "CONSUMED"]
  /\ UNCHANGED << approvals, nonpayment, outbox, workflow >>

-----------------------------------------------------------------------------
(* The Owner's decision: decide.ts.                                        *)

DecisionTarget(decision) ==
  CASE decision = "APPROVE" -> "APPROVED"
    [] decision = "HOLD"    -> "HELD"
    [] decision = "REJECT"  -> "REJECTED"

\* A withdrawal held by a reconciliation is rejected only with a durable
\* DEFINITIVE_NONPAYMENT row and the caller's explicit acknowledgment.
RejectProven(w, ack) == wd[w].held => nonpayment[w] # {} /\ ack

\* The transition with its reject gate.
DecisionAllowed(w, decision, ack) ==
  /\ TransitionAllowed(wd[w].state, DecisionTarget(decision), wd[w].held, ack)
  /\ decision = "REJECT" => RejectProven(w, ack) /\ Releasable(wd[w])

\* insertWithdrawalOutboxEvent: ON CONFLICT (dedupe_key) DO NOTHING, and the
\* key of withdrawal.approved names the withdrawal alone.
ApprovedEventInserted(w) ==
  [outbox EXCEPT ![w] = IF @ = "NONE" THEN "PENDING" ELSE @]

\* decideWithdrawal.  expectedState is the state the caller saw; ack is the
\* definitiveNonpayment flag.  A tag already used replays its decision.
Decide(w, expectedState, decision, tag, ack) ==
  /\ Created(w)
  /\ approvals[w][tag] = "NONE"
  /\ wd[w].state = expectedState
  /\ DecisionAllowed(w, decision, ack)
  /\ wd' = [wd EXCEPT ![w].state = DecisionTarget(decision),
                      ![w].released = @ \/ decision = "REJECT"]
  /\ ledger' = IF decision = "REJECT" THEN LedgerAfterRelease(w) ELSE ledger
  /\ approvals' = [approvals EXCEPT ![w][tag] = decision]
  /\ outbox' = IF decision = "APPROVE" THEN ApprovedEventInserted(w) ELSE outbox
  /\ UNCHANGED << quote, nonpayment, workflow >>

-----------------------------------------------------------------------------
(* The outbox relay: outbox-relay.ts.                                      *)

\* startWithdrawalWorkflowFromOutbox: workflowIdReusePolicy REJECT_DUPLICATE
\* and conflict policy FAIL start one execution per withdrawal, for ever.
WorkflowStarted(w) ==
  [workflow EXCEPT ![w] = IF @ = "NONE" THEN "RUNNING" ELSE @]

\* Mutant: the event is marked before the workflow is started, and the relay
\* crashes in between.
RelayMarksFirst(w) ==
  /\ outbox[w] = "PENDING"
  /\ outbox' = [outbox EXCEPT ![w] = "DISPATCHED"]
  /\ UNCHANGED << quote, wd, ledger, approvals, nonpayment, workflow >>

\* A claimed event is dispatched: started now, or found already started.
RelayDispatch(w) ==
  /\ outbox[w] = "PENDING"
  /\ workflow' = WorkflowStarted(w)
  /\ outbox' = [outbox EXCEPT ![w] = "DISPATCHED"]
  /\ UNCHANGED << quote, wd, ledger, approvals, nonpayment >>

\* The relay crashes, or its transaction fails, after Temporal accepted the
\* start and before COMMIT: the event stays PENDING.
RelayStartThenCrash(w) ==
  /\ outbox[w] = "PENDING"
  /\ workflow' = WorkflowStarted(w)
  /\ UNCHANGED << quote, wd, ledger, approvals, nonpayment, outbox >>

-----------------------------------------------------------------------------

QuoteStep(w) ==
  CreateQuote(w) \/ QuoteLapses(w) \/ CancelQuote(w) \/ ExpireQuote(w)

CreateStep(w) ==
  \E key \in Keys, outcome \in RiskOutcomes : CreateFromQuote(w, key, outcome)

DecideStep(w) ==
  \E expected \in DecisionStates, decision \in Decisions, tag \in Tags,
     ack \in BOOLEAN : Decide(w, expected, decision, tag, ack)

RelayStep(w) == RelayDispatch(w) \/ RelayStartThenCrash(w)

Next ==
  \E w \in Ids : QuoteStep(w) \/ CreateStep(w) \/ DecideStep(w) \/ RelayStep(w)

Spec == Init /\ [][Next]_rowVars

-----------------------------------------------------------------------------
(* Properties.                                                             *)

\* The reservation of w is still open: neither released nor settled.
ReservationOpen(w) == wd[w].reserved /\ ~wd[w].released /\ ~wd[w].settled

\* What has become of the money of each withdrawal, if the chain has paid those
\* in Paid: the refinement mapping to PayoutPromise.
Fate(Paid) ==
  [ w \in Ids |->
      CASE wd[w].settled           -> "settled"
        [] ~wd[w].settled /\ w \in Paid -> "paid"
        [] wd[w].released /\ w \notin Paid -> "returned"
        [] ~Created(w)             -> "none"
        [] OTHER                   -> "reserved" ]

Promise == INSTANCE PayoutPromise WITH fate <- Fate({}), books <- ledger

\* Creation and decisions keep the promise: money is reserved at most once for
\* a withdrawal and at most once given back, and moves with nothing else.
PromiseKept == Promise!Spec

\* Every atomic unit is accounted for, whatever the order of creations,
\* decisions and settlements: a user's reserved balance is exactly the gross
\* of his open reservations, and his available balance is his deposit less
\* everything reserved and not given back; neither goes negative.
MoneyAccounted ==
  \A u \in Users :
    /\ ledger.reserved[u] = SumGross({ w \in OwnedBy(u) : ReservationOpen(w) })
    /\ ledger.available[u] =
         Deposit[u] - SumGross({ w \in OwnedBy(u) :
                                   wd[w].reserved /\ ~wd[w].released })
    /\ ledger.available[u] >= 0

\* What the row says about the money agrees with its state: a withdrawal that
\* exists holds a reservation, given back exactly when it is REJECTED, spent
\* only when it is CONFIRMED, and never both (release.ts, settlement.ts).
ReservationMatchesState ==
  \A w \in Ids :
    /\ Created(w) <=> wd[w].reserved
    /\ wd[w].released <=> wd[w].state = "REJECTED"
    /\ wd[w].settled => wd[w].state = "CONFIRMED"

\* Two quotes of one user never become withdrawals under one idempotency key,
\* and a withdrawal exists exactly for a consumed quote: a retried creation
\* can neither reserve twice nor resurrect a cancelled or expired quote.
OneWithdrawalPerRequest ==
  /\ \A v, w \in Ids :
       (Created(v) /\ Created(w) /\ Owner[v] = Owner[w] /\ wd[v].key = wd[w].key)
         => v = w
  /\ \A w \in Ids : Created(w) <=> quote[w].status = "CONSUMED"

\* The dual write of the approval is never half done: an APPROVED withdrawal
\* has its event still to be relayed or its workflow already started, and a
\* workflow exists only for a withdrawal the Owner approved once.
ApprovalReachesWorkflow ==
  \A w \in Ids :
    /\ wd[w].state = "APPROVED" => outbox[w] = "PENDING" \/ workflow[w] # "NONE"
    /\ workflow[w] # "NONE" => \E t \in Tags : approvals[w][t] = "APPROVE"

\* A rejection is final: after it the row, the decisions and the user's money
\* for it never move again, even while an event or a workflow of an earlier
\* approval is still on its way.
RejectionIsFinal ==
  [][\A w \in Ids : wd[w].state = "REJECTED" =>
        wd'[w] = wd[w] /\ approvals'[w] = approvals[w]]_rowVars

=============================================================================
