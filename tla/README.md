# A formal model of the ALEx Rewards engine

TLA+ modules, TLC configurations and TLAPS proofs for this repository: the parts
of ALEx Rewards that hold, owe and move money, and the rights on which they
depend.  Every definition is translated from the source; `PROJECT.json` (`map`)
names the lines each one stands for.

## 1. The system

A monorepo of packages over one PostgreSQL database, with an API, a bot, a
Temporal worker and a signer as processes.

| Component | State it keeps | Operations | What makes it correct |
| --- | --- | --- | --- |
| Withdrawal quotes (`quotes.ts`, `rules.ts`, `arithmetic.ts`) | `withdrawal_quotes` | create, cancel, expire, consume | one withdrawal per consumed quote |
| Withdrawal creation (`create.ts`, `risk.ts`, `wallet-gate.ts`) | `withdrawals`, ledger, volume periods | create under an idempotency key, reserve, risk outcome | the gross is reserved once; nothing is created without money |
| Volume limits (`volume.ts`) | `withdrawal_volume_periods`, reservations | lock periods, check the caps, reserve | the caps hold for concurrent requests |
| Owner decision (`decide.ts`, `release.ts`) | state, approvals, outbox | APPROVE, HOLD, REJECT | money returns exactly on REJECTED |
| Owner review (`control-center`, the bot) | publication, action tokens, review cases, outbox | deliver the card, press a button, resolve | one card's buttons work, one of them decides, the Owner is always asked |
| Outbox relay (`outbox-relay.ts`, `apps/worker/src/main.ts`) | `outbox_events` | claim, start workflow, mark, retry | an approval reaches its workflow, once |
| Attempts and broadcast gate (`attempts.ts`, `broadcast-gate.ts`) | `withdrawal_attempts` | create, persist evidence, mark submitted, results | no blind resend, nothing sent under a forgotten attempt |
| Dispatch lease (`hot-wallet-dispatch-lease.ts`) | one row per hot wallet | acquire, renew, take over, assert fence, release | one payout at a time; a fence names one owner |
| Seqno admission (`admit-wallet-seqno.ts`) | - | ask two providers | a seqno both agree on; a stale one costs nothing |
| Real payout pipeline (`real-payout-pipeline.ts`) | all of the above, the chain | a Temporal activity of many transactions | paid at most once, settled only when paid |
| Confirmation (`confirmation.ts`, the two providers) | - | search both providers for the payout | what both prove was credited |
| Canary recovery (`phase10-canary-signing-recovery.ts`) | state and lease | fail a withdrawal left in SIGNING | the same safety as without it |
| Chain history audit (`phase10-chain-history-collector.ts`) | - | page through two histories, compare | "nothing unexpected" is true of the chain |
| Fake payout and reconciliation (`pipeline.ts`, `reconcile.ts`, `fake-chain.ts`) | the withdrawal's rows, observations | dispatch, reconcile | unknown outcomes keep the money reserved |
| Ledger (`packages/ledger`) | transactions, entries, projections | post, reverse | balanced, idempotent, never negative |
| Rewards (`packages/rewards`) | rules, quotes, budgets, exposure, events | quote, expire, start, issue, mature | budgets are never overspent; a started reward stays funded |
| Sessions (`sessions.ts`, the API's guard) | `user_sessions` | login, refresh, logout, revoke all | one live session of a login; a login that "revoke all" counted is over |
| Founder memberships (`membership.ts`) | memberships, claim codes, the number sequence | issue, claim, expire, grant | a number is promised once, a grant works once |
| Wallets (`packages/wallets`) | proofs, primary wallet, cooldown | challenge, prove, change, confirm | a withdrawal only to a proved wallet, after the cooldown |
| Configuration, observability, migrations, key custody, HTTP and mini-app shells | files, environment | parse, log, encrypt, validate | not modelled (section 6) |

They interact through the database: `create.ts` reserves money in the ledger and
asks the wallet gate; `decide.ts` writes the approval and an outbox event in one
transaction; one relay starts a Temporal workflow for it, and another loop, of the
bot, turns `withdrawal.owner_review_required` into a card in a chat whose buttons
come back as callbacks.  The workflow runs an activity that calls the signer and the
TON providers between its transactions.  Rewards and withdrawals meet in the ledger
and in the membership of a user.

What is hard here: hardly anything that matters is one transaction.  Between two
transactions a process may stop; Temporal retries an activity that threw, and starts
it again when it timed out while the old run is still going; a lease expires; a
message to Telegram or to the chain may have arrived although the call failed; a
statement waits for a row lock and then acts on what it read before; two providers
answer from different moments of the chain.  `PROJECT.json` (`hazards`) lists each of
these at its line, with the properties that watch it.

## 2. The modules

| Module | Models | Role |
| --- | --- | --- |
| `WithdrawalStates` | `state-machine.ts` | the transition table |
| `PayoutPromise` | - | abstract specification: what becomes of a withdrawal's money |
| `Withdrawals` | quotes, creation, decision, relay, the postings | the rows, and every transaction outside the payout |
| `WithdrawalCreation` | `create.ts`, `quotes.ts`, `wallet-gate.ts`, `volume.ts` by statements | row locks and volume limits |
| `PayoutAttempts` | `attempts.ts`, `broadcast-gate.ts` | operators on attempt rows |
| `HotWalletLease` | `hot-wallet-dispatch-lease.ts` | operators on the lease row |
| `LeaseProtocol` | the lease's contract with its users | abstract specification: who may submit |
| `SeqnoAdmission` | `admit-wallet-seqno.ts` | operators: what an admission may come to |
| `RealPayout` | `real-payout-pipeline.ts`, worker activities, canary recovery, the chain | composes all of these |
| `PayoutProof` | the search of both providers, `confirmation.ts` | what a confirmation may conclude |
| `ChainHistory` | `phase10-chain-history-collector.ts`, the paging of both providers | the audit afterwards |
| `FakePayout` | `pipeline.ts`, `reconcile.ts`, `fake-chain.ts` | composes Withdrawals, attempts and lease |
| `OutboxHandover` | - | abstract specification: what the outbox promises |
| `OutboxRelay` | `outbox-relay.ts`, the poller of `main.ts` | implements `OutboxHandover` |
| `OwnerReview` | `packages/control-center`, the bot's loops, `decide.ts` as it is called there | the card and its buttons |
| `LedgerPosting` | `posting.ts`, `reverse.ts`, `reversal-guard.ts` | concurrent postings |
| `RewardRules`, `Rewards` | `packages/rewards` | rule versions and amounts; quotes, budgets, issuance |
| `Sessions`, `FounderMembership` | `packages/auth` | login sessions; founder numbers |
| `WalletOwnership` | `packages/wallets`, `wallet-gate.ts` | proofs, the primary wallet and its cooldown |
| `FiniteLemmas` | - | induction, extremes and sums over finite sets, for the proofs |
| `*_proofs` | - | theorems, see section 5 |
| `MC*` | - | instances for TLC |

The usual grain is the transaction: where it locks every row it decides on it is one action, and
where it does not, or where waiting for a lock is the point, each statement is one.

### Withdrawals

Each `w \in Ids` is a quote and the withdrawal that consumes it.  `quote[w]` is
the `withdrawal_quotes` row (status, and whether the clock has passed
`expires_at`), `wd[w]` the `withdrawals` row (state, `held_from_reconcile`,
idempotency key, and the three set-once ledger transaction columns as
booleans), `ledger` the balances that the three postings touch, `approvals` the
decisions by idempotency tag, `nonpayment` the durable DEFINITIVE_NONPAYMENT rows,
`outbox` the state of the `withdrawal.approved` event and `workflow` that of the
Temporal workflow with the withdrawal's ID.

A database transaction is one action, because each takes `FOR UPDATE` on the
rows it decides on: `CreateQuote`, `CancelQuote`, `ExpireQuote`,
`CreateFromQuote` (insert, reserve, consume the quote, risk outcome, and the
release for a blocked account), `Decide` (expected state, transition table,
reject gate, release, outbox event).  Errors roll back and are no step.  The relay is
`RelayDispatch` (start and mark) and `RelayStartThenCrash` (started, but the
COMMIT is lost: the event is claimed again and Temporal answers
already-started).

### WithdrawalCreation

The same creation, seen from inside: a session is a transaction of
`createWithdrawalQuote` or `createWithdrawalFromQuote`, and each statement that reads or
locks is an action.  `ReadKey` is the replay, `LockQuote` and `LockUser` the `FOR UPDATE` of
the quote and of the wallet gate, `LockPeriod` one turn of the loop over the four
volume periods (a row that is inserted waits for a concurrent insert just as a locked one does), and
`CommitQuote` and `CommitCreate` make visible what was written.  `consumed` is
`withdrawal_volume_periods.consumed_atomic`; `HourPasses` moves the clock, so that a
transaction may commit in another window than its `asOf`.  Everything else that can fail, the money
included, is `Rollback`.

### OutboxRelay

`due` holds the pending events whose `available_at` has passed, in its order; `batch[p]`
is the open transaction of worker p (the rows it has claimed, and which of them it has so far marked
dispatched or to be retried), `starts` the executions in Temporal.  `StartFails` covers a start that was accepted but
not answered.  `Retry` and `RetryOverflows` are the two outcomes of
`markOutboxRetry`, whose power of two is cast to a 32-bit integer before it is capped:
`Width` is 31 in the code.  The relay never gives an event up: DEAD_LETTER exists in the enum only.
The poller of `main.ts` runs one batch at a time per worker; several workers may run.

### OwnerReview

One withdrawal, the outbox event that asks for its review, and everything the card touches.
`sender[d]` is a batch of a bot process: it claims the event (a lease, no lock), reads the withdrawal
without a transaction, takes the publication's row, expires the tokens of earlier cards, issues new ones
with the live review case, sends with no lock held, and finalizes under the publication's lock.  A
*generation* is the set of buttons of one card; `shown` are the cards that reached the chat.  `press[p]` is a
callback handler: token, withdrawal, `decideWithdrawal`, consumption, the end of the sibling buttons and the
review case are a step each.  Around them `LeaseRunsOut`, `DeliveryFails`, `DelivererStops`,
`PressStops`, `TokensLapse` and a decision on another channel may come at any time.

### LedgerPosting

A session is a transaction that posts one command: `FindPrior` is the fast path by key,
`Lock` locks the next balance row, `InsertHeader` meets the three unique indexes in their
order and waits for concurrent duplicates, `InsertConflicts` is the recovery at the
savepoint, `Commit` the entries and the projections.  `history` is the committed
`ledger_transactions` with `posted_at`, which is the start of the transaction, so that it
may disagree with the order of the commits.

### RewardRules and Rewards

`RewardRules` has the versions of a rule family with their half-open validity
(`Disjoint` is the exclusion constraint `reward_rules_no_active_overlap`) and the arithmetic of an amount.
In `Rewards` a source has at most one quote.  A quote is four statements: the source's row and
the rule (`QuoteSource`), the base budget (`ValidateBudget`), the membership bonus with the budgets it
needs (`ResolveBonus`), and the reservations with the exposure limits (`CommitQuote`); expiry and
issuance are two each.  `counter` are the rows that count what is reserved and consumed:
budgets, bonus budgets and the exposure periods of a day.  Rules, memberships, pauses and
the clock change between any two statements.  Both postings of an issuance are one step; what a
posting is made of is in `LedgerPosting`.

### Sessions, FounderMembership, WalletOwnership

`Sessions`: a row of `user_sessions` stands for its refresh token and the access tokens issued with it.
`login` is carried from a session to its successor (a ghost: the code has no such column).  A refresh
locks the row and then exchanges it or dies; the guard reads and the request acts later; "revoke all" is
one UPDATE that waits for the rows others hold.  `FounderMembership`: claim codes that may
reserve a number, claims, expiry, and grants that look up their key (`ReadGrantKey`) before they lock.
`founder_number_seq` is not transactional: `NumberLost` and a rolled-back claim leave gaps.
`WalletOwnership`: `RequestChange` reads the clock before it waits for the user's row, every other
operation is one action behind that row; `quoted` is the wallet an open quote was made for.

### LeaseProtocol and HotWalletLease

`HotWalletLease` has the conditions and effects on the one lease row: owner, fencing token,
released, expired.  `LeaseProtocol` is what the lease promises its users:
attempts carry the fence they were created under, work becomes *unresolved* when its
message is persisted, *submitted* when `broadcast_submitted_at` is set, and a
takeover waits for the unresolved work of others.

### RealPayout, with SeqnoAdmission and the canary recovery

A run of the activity is a process with a program counter and the
locals it keeps across transactions (`runs`).  Every transaction, every read
outside one, every call to the signer, the providers and `sendBoc` is an action;
between any two of them `Fail` (throw or crash), `Timeout` (Temporal starts the
activity again while the old run goes on as a zombie), `LeaseExpires`, `Recover`, other
runs, the Owner and the chain may act.  `chain` holds the wallet's seqno, the
messages on their way and the payments made; `WalletExecutes` executes a message
whose seqno is current, and the transfer inside may bounce; `MessageLost` drops one at any time.
`StartRun`, `Finish`, `Fail` and `Timeout` are Temporal as the worker uses it:
retries without end, and completion with whatever the activity returns.

An admission comes to any seqno of `AdmittedSeqnos`: both providers may be behind in the same way and
agree on an old seqno.  The wallet then refuses the message, which nothing in the pipeline relies on.

`Recover` is the operator's command that takes a withdrawal out of SIGNING when its lease ran out before an
attempt was made.  That the workflow is terminated and the worker stopped is only attested to it, so
that in the model a run of that withdrawal may go on; and any withdrawal may be the one the command allows.

A message is persisted in the same transaction that moves SIGNING to BROADCASTING, and a
resume reads the attempt before the state: the branch of the code that catches up with a
message persisted while SIGNING (lines 700-709) cannot be reached and has no action.

### PayoutProof and ChainHistory

`PayoutProof` opens the two steps `Observe` and `Confirm` of `RealPayout`: the chain is a sequence of
transactions of three accounts, a provider has some prefix of it, and each request of a confirmation sees the
prefix of its own moment, TonCenter's only the newest `RecentLimit` transactions of an account.  A transfer is
`late` if its transaction at the sender's Jetton wallet is more than 120 seconds from the hot wallet's;
TonCenter's search skips it there (`Correlated`).  A confirmation that finds nothing because an answer lacks
what the search reads of it ends like one that fails, and is not recorded in `empty`.

`ChainHistory` is the campaign's audit: TonCenter's pages by offset move while the chain grows, TonAPI's go
back by logical time and are completed from event hints, either may end at a short page, past the window or at
the page cap, and the three multisets are compared.  A page is the set of the places of its rows: which rows
those are is a matter of how many rows of the query are newer (`PageOf`), whatever order they are listed in.
Nothing obliges the rows to be whole: a row may have no usable time, or lack a part that its transfer is
proven from, and TonAPI's rows may show any of their logical times, or none.  Both providers' code passes over
the first two with a warning, and takes a full page without a logical time for the end of the history;
`passed` and `blind` remember that it did.  What an enumeration has found is kept with the number of the page
it was on, so that a row that moved to the next page while the chain grew is counted twice, as it is by the
code.

### FakePayout

The LOCAL/TEST activity is a single transaction per outcome of the fake
chain (`FailBeforeBroadcast`, `BroadcastUnknown`, `BroadcastConfirmed`) or a
pause (`PauseDispatch`); it commits and then answers Temporal, and `AnswerLost` is
the crash in between.  `ReconcilePaid`, `ReconcileUnpaid` and
`ReconcileOtherwise` are the resolutions of an observation.  The chain is one
that stays for the whole test: what it has shown as settled does not change.

## 3. The runs

The amounts are as small as they can be and still tell gross, net, fee and bonus
apart.  Symmetry is used where the values are interchangeable, never in runs
with liveness properties.

| Run | Instance | Shows |
| --- | --- | --- |
| `withdrawals_and_ledger` | 3 withdrawals of one user who can afford two at most, 2 keys, 3 decision tags; 2 ledger sessions, 3 accounts, 9 commands that clash in every way, 2 instants | money follows the rows and implements `PayoutPromise`; one posting per key, reference and reversal, projections, no deadlock |
| `creation` | 2 sessions, 2 users, 3 quotes under 2 limit rules, 2 keys, 3 hours over 2 days | caps, keys, no deadlock |
| `payout_overlap` | 1 withdrawal, 2 overlapping runs, 2 attempts, 2 tokens, recovery | never paid twice, never paid and released, confirmed only when paid; implements `PayoutPromise` |
| `payout_pair` | 2 withdrawals on the wallet, 2 runs, no overlap of one activity | implements `LeaseProtocol`; `sendBoc` is called once |
| `payout_completes` | 1 withdrawal, 3 tokens, a wallet deployed before, fairness | every started workflow comes to a result |
| `lease_and_audit` | 3 owners and 4 tokens; 2 pages of 2 over 3 transactions, rows with and without their parts | one submission at a time; what an audit covers |
| `fake_and_proof` | 2 withdrawals, crashes, pauses, reconciliation, decisions again; 1 message among other traffic, 4 transactions | unknown outcomes keep the money reserved; what a proof proves, and what its absence says |
| `outbox_relay` | 2 workers, 3 events, batches of 2, 1 crash, fairness, an outage longer than the back-off's range | implements `OutboxHandover`; every event is dispatched in the end |
| `owner_review` | 2 bots, 2 callbacks, 3 cards, 2 failures, fairness | one card's buttons, one decision, the event is always handled |
| `rewards` | 2 sessions, 2 users, 2 sources, 2 rule versions, 3 memberships, 4 budgets, 2 limits, 2 days | budgets, caps, funded starts, debts |
| `accounts` | 3 requests on 4 sessions; 1 user, 2 addresses, 3 challenges; 2 users, 2 codes, 3 grants | sessions, the cooldown, founder numbers |
| `settled_blocks_wallet` | 1 withdrawal, paid and settled | the finding of section 4 |

Four runs put parts side by side that share no variable and no guard
(`MCWithdrawalsAndLedger`, `MCAccounts`, `MCLeaseAndAudit`, `MCFakeAndProof`): `part` is chosen in the
initial state, and a behaviour then exercises that part alone.  Every behaviour of all the parts together, seen at the
variables of one of them, is a behaviour of that part with stuttering, so nothing a property of one part could
see is lost.

Why the bounds are enough: a second attempt is the first place where an old
one could be forgotten, a second run the first that can overlap, a third owner the first
whose takeover can race another's, a token for every change of hands that two attempts and an
expiry need.  Two sessions, workers or bots are the first that can wait for each other or see
each other's half-done work; three requests on sessions let a revocation come between two refreshes; three
hours are the first with both an hour and a day boundary; a batch of two of three events the first that leaves one
behind.  A third card is the first that can replace a replacement.  In `fake_and_proof` a
recent list of one transaction is already too small for two; in `lease_and_audit` a page of two is the first
that can show one row whole and pass over the other, and three transactions are the first to push a row onto a
second page.  In `rewards` a budget of three holds a reward with its bonus but not two.  In
`outbox_relay` `Width` is 2 in place of 31, so that the overflow is reached after few
attempts.  `payout_pair` and `payout_overlap` begin with a wallet that is not deployed (`Executed` 0), and the payment of the
first withdrawal is what makes the second's admission possibly stale; `payout_completes` begins with a
deployed one, for which admissions can disagree from the start.  `MaxFailures` bounds the crashes, failed sends, lapses and
leases that run out under somebody in `owner_review`; the code itself has no such bound.

`DecisionStates` limits the states the Owner decides in: the control center issues cards for
MANUAL_REVIEW only.  The payout runs leave out RECONCILE_REQUIRED, for which see section 4.

Each property of a passing run has a mutant (`PROJECT.json`, `mutants`): a plausible
mistake in the code under which TLC finds the property violated.  The modules
define more invariants than the runs check, because those say on the way to what the checked
ones say in the end: the type invariants, `OneWithdrawalPerRequest`, `RejectionIsFinal`,
`OnlyTheFencedSubmit`, `CooldownOnlyGrows`, `SentIsRecorded`, `OneMessage`, `HistoryIsKept`, `HeldByProof`,
`OneUnresolved`, `VolumeIsReserved`, `DispatchedIsHandled` and `UndecidedIsQueued`, all of them proved
(section 5), and `AnswersAreTrue`, which holds on the same instance.

### Fairness

`payout_completes` assumes that a run which can take its next step does so, that a check
that fails throws, that Temporal starts again what failed
(`proxyActivities` in `workflows.ts` sets no retry limit) and that accidents
(crashes, lost calls) come to an end.  Nothing is assumed of the Owner, the clock or the
chain.  `outbox_relay` assumes that workers poll, that their batches end and that the clock
goes on (`setInterval` in `main.ts`); that Temporal stays reachable from some time on is the
premise of the property.  The bound on tokens is excused in the property itself.
`owner_review` assumes that some bot polls, that a batch and a callback go on unless they stop, and that a
lease runs out; the bound on failures makes them finite, so a send does succeed in the end.

## 4. Findings and remarks

| Run | What the code does |
| --- | --- |
| `settled_blocks_wallet` | Nothing under `src/` sets `settled_at`, so a settled payout blocks the wallet for every other withdrawal, against test 8 of `phase10-hot-wallet-dispatch-fence.test.ts`. |

Met while modelling, and part of the models without a run of their own:

*Payout.*  An activity that timed out and its retry may both send the same message
(DECISIONS.md says "No blind resend"; the seqno still pays once, `PaidAtMostOnce`).  The resume of a
SIGNING withdrawal persists its message without the fence that the comment of
`assertHotWalletDispatchFence` asks for.  HOLD of RECONCILE_REQUIRED does not set
`held_from_reconcile` (`decide.ts:158`; `docs/WITHDRAWALS.md:189`: "Reserved is never released on
ambiguity"), so that a REJECT that follows releases money that may be on its way: with
RECONCILE_REQUIRED among `DecisionStates`, `ReleasedIsNeverPaid` fails; the control center does not reach
it.  After a crash that follows the commit of the fake activity, every retry of it throws.

*Three overlapping runs.*  With a third run of one activity, the attempt that a resume reads (the latest) need not be
the one that was sent: a run that was slow submits attempt 1 after a later run has begun attempt 2 and closed it
FAILED_PRE_BROADCAST.  The resume then looks at attempt 2 only, never searches for the payment, and the
withdrawal stays RECONCILE_REQUIRED.  It is paid once all the same: no second message can be
persisted (`OneMessage`), which is what the proof rests on.

*Creation and relay.*  A retried creation that comes before the first
call commits waits for the quote and is told QUOTE_CONSUMED, where WITHDRAWALS.md says
"Exact retry recovers".  From the 32nd failed start on, `POWER(2, attempts)::int` overflows
(`outbox-relay.ts:181`) and the batch is rolled back instead of recording the failure, against the
comment at `outbox-relay.ts:245`; nothing is lost once Temporal is back.

*Review.*  Once the card is published, tokens that lapse are never issued again.  A late issue, a second press or
a crash between decision and resolution can leave a live review case for a withdrawal that is decided.  A
delivery that began earlier but commits later may meet the check on a token's time to live
(`0007`, line 196) and retries.  A delivery expires the open tokens of its own owner only.  Assigning and
escalating a case have no caller outside the tests; resolving one on the pool holds no lock, and
the check of `0010`, line 120, is what stands behind it.

*Accounts.*  `CountedLoginsEnd` is about the sessions that "revoke all" counts in its answer.  A refresh in
flight may exchange a session while the UPDATE waits for its row: the row is then revoked already and not
counted, the statement does not see the successor, and that login goes on.  A crash between the two commands
of the login throttle can leave its key without a time to live.  A grant's key is not tied to the user it is
for: `FounderAssumption` says that the caller sends one request under one key.

*Audit.*  The acceptance of chain-history evidence is a constant refusal
(`phase10-chain-history-evidence.ts:20`).  Nothing checks that an indexer has reached the end of the window,
so `ZeroUnexpectedIsTrue` is about what either provider had indexed when the collection began.  Nor does the
collector fail closed on every incomplete answer, as its header says: a row without a usable time, or without
a part its proof needs, is skipped with a warning (`toncenter-testnet-provider.ts:724`,
`tonapi-testnet-provider.ts:566`), a full TonAPI page without a logical time ends the search
(`tonapi-testnet-provider.ts:599`), and the window still counts as covered.  So `CoverageIsComplete` and
`ZeroUnexpectedIsTrue` are about the transfers that the answers showed readably (`Owed`); said of all of them
(`Due`), TLC refutes the second with a chain of two transfers, the unexpected one passed over by TonAPI and
not yet indexed by TonCenter.  TonAPI is taken to honour `before_lt`, so that its cursor never repeats.  A
transaction that TonAPI lists without its hash may be added once more from the event hints, which can only add
to its count and to disagreement; the model adds what was not found.  If TonAPI names another Jetton wallet
for the hot wallet, none of its rows is proven: all of them are passed over.

*Approvals.*  `ApprovalReachesWorkflow` is satisfied by a workflow that has completed.  After APPROVE, HOLD,
APPROVE the second event has the dedupe key of the first, and nothing is claimed of a workflow that ended in
between.

## 5. What is proved

Every theorem is about all sets of withdrawals, users, keys, accounts, sessions and runs, all amounts and all
bounds, from the assumptions that the modules name (`IdsAssumption`, `DomainAssumption`, `LedgerAssumption`,
`RelayAssumption` ...): finite sets, natural numbers, `None` not among the values.  Two are more than that.
`ReviewAssumption` of `RealPayout` and `FakePayout` leaves RECONCILE_REQUIRED out of the Owner's states, as
the control center does (section 4 says what happens otherwise), and `TablesAssumption` says that the windows
and scopes of two cap rules are told apart by their keys.  In each part one inductive invariant is shown to
hold initially and to be kept by every action; the theorems follow from it.

`FiniteLemmas` has what the other modules share: induction over a finite set, its least and greatest member (from
which no set of sessions waits in a circle where each waits for a row of a higher rank than all it holds), and what
`SumFunctionOnSet` of the community modules becomes when a summand changes, an element is added or the set
grows.  That function is recursive, so its recursion is first shown to have a solution (`SolutionExists`).

### Withdrawals_proofs

`IInv` is the types, `ReservationMatchesState` and `OneWithdrawalPerRequest`.  The first two alone are
not inductive, since a second creation on a consumed quote would overwrite a row.
`DecisionStep` says that a decision only leaves a state that is not terminal; from it follow
`RejectionStands` and, with the `Fate` lemmas, `PromiseHolds`: each creation, decision and relay step is a
step of `PayoutPromise` or a stutter.  `MoneyIsKept` needs the sum over the open reservations to move by exactly the
gross of the row that moves; `ApprovalsArrive` that there is an event only after an approval.

### RealPayout_proofs and FakePayout_proofs

`PayoutInv` counts *messages*.  `Message` says that a withdrawal has an attempt with a persisted message exactly in
the states from BROADCASTING on, and never a second one; `ChainInv` that what is on the chain was submitted; `Sound`
what a run relies on at each step, between its reads and its writes.  "Paid at most once"
alone is not inductive, because two runs of one activity may both be about to send, and neither is "the latest attempt
counts" (section 4).  From it: `PaidOnce`, `ConfirmedWasPaid`, `ReleasedWasNotPaid`, `SendingIsRecorded`, `MessageIsUnique`,
`HistoryStands`, and `PayoutKeepsPromise`, the refinement of `PayoutPromise` by leases, attempts, runs and
the chain together.  `NothingIsResent` adds `ResendInv` and the hypothesis `~Zombies`: where a run
ends before its successor begins, sendBoc is called once at most.  With zombies this is false (`payout_overlap`).

`LeaseIsFollowed` is the refinement of `LeaseProtocol`, again where no run outlives its activity: whatever
crashes, expires or is recovered, an attempt carries the fence its withdrawal was granted, and a submission
happens under the latest fence, while no other withdrawal has unresolved work.  `LeaseProtocol` sees only
owners with unresolved work; the pipeline asks a query over states, results and timestamps (`Unresolved`).
The proof is that the query finds exactly the withdrawals that have a persisted message (`WorkIsSeen`), and
that needs `LeaseInv`: a message is on the latest attempt, which has not failed, and only what has a message
has an ambiguous result (`Kept`); a run that signs or closes an attempt works on one without a message, and
one that persists works on the latest while it is PENDING (`Careful`).  Each step of the pipeline then is one
step of `LeaseProtocol` or leaves it alone (`PayoutIsRuled`). From the refinement follows `PayoutsTakeTurns`:
the hot wallet has one unresolved submission at a time, because only the owner of the lease row has one and
nobody takes the row over meanwhile.  (As long as nothing sets `settled_at`, section 4, and the pipeline
records no nonpayment, no submission is ever resolved, and the first withdrawal keeps its turn.) With
`Zombies` TLC finds a step that neither is one of `LeaseProtocol` nor leaves it alone: a run that was slow
persists its message on an attempt another run has closed meanwhile, a third run creates the next attempt
while the state is BROADCASTING already, and the query takes the attempt that was never signed for unresolved
work.  Nothing is paid twice for that (`PaidOnce` has no such hypothesis). `RunsAssumption` says, for this,
that no withdrawal goes by the name `NoOwner`, which stands for a missing lease row.

For the LOCAL/TEST payout `FakeInv` says that one attempt at most has not failed before the broadcast, that the state of
the row says what the chain shows for it, and that work which may have been broadcast keeps the wallet, whatever becomes
of the lease: `ReleasedWasNeverPaid`, `PaidAndSettledOnce`, `HoldsAreProven`, `WalletIsNotShared`.

### WithdrawalCreation_proofs

The key and the quote are checked in one statement and written in another, so the invariant says what keeps the
answer true in between: locks are exclusive, a creation that goes on holds its quote and its user, and
nothing committed has its quote or his key from the insert on (`QuotesAreConsumedOnce`).  `CapsAreRespected` rests
on `VolumesAreReserved`: each counter is the sum of the withdrawals of its window, and a transaction holds the counters it
checks from the check to the commit.  `CreatingNeverDeadlocks` gives each row a rank (quote, user, then
the periods in the order of the loop).

### LedgerAndReview_proofs

- *Sessions*: `OneSessionOfALogin`, `CountedLoginsStayOver`. The session a login began with is never unused
  again, so no new login takes its name; what a revocation in progress has seen exists. A login that was
  counted is over because the row that was counted was its only live one, and a refresh that inserts another
  revokes, under the lock, a row that still is live.
- *OwnerReview*: `OneCardWorks`, `PublishedWorks`, `OneButton`, `ReviewIsSafe`.  The invariant has a part
  for the locks and what their holders may rely on, one for the cards and the generations of their buttons, one for
  what a press has done so far, and one for the cases.
- *LedgerPosting*: `PostingIsIdempotent`, since what is inserted and not yet committed clashes neither with the history nor
  with another insert; `BucketsStayCovered`, since a posting holds every row it touches from its check to its commit
  and knows their balances; `ProjectionsAreRebuilt` and `EntriesNeverOverdraw`, which compare the projections with
  the sum of the committed entries; `PostingsNeverDeadlock`, since accounts are locked in one order.

### WalletsAndChain_proofs

- *OutboxRelay*: `EventsAreHandedOver`, the refinement of `OutboxHandover`.  What a batch has claimed stays
  pending and is claimed by no other, and what it has marked dispatched was started before.
- *LeaseProtocol*: `OnePayoutAtATime`, `FencesAreUnique`, `SubmitUnderFence`, `TokensGrow`.  Submitted work is
  unresolved, its owner still owns the lease row (nobody could take it since), and no fence is newer than the lease.
- *PayoutProof*: `ProvenIsDelivered`, `EmptySaysLittle`.  A provider has a prefix of the chain and the chain only
  grows, so a credit that was shown stays; and since the chain is causal, a credit that a provider has seen has its
  transactions at the sender and the hot wallet before it, which the search finds unless newer ones push them out or,
  at the sender's Jetton wallet only, the transaction is late.
- *ChainHistory*: `CoveredWindowIsComplete`, `CleanAuditIsTrue`, for any chain, window, page size and page
  cap. `HistoryInv` says of each enumeration that what its indexer had when the collection began is found or
  passed over, hidden by a blind stop, or still ahead (`Ahead`): of TonAPI, older than its cursor; of
  TonCenter, beyond its offset, since a row only ever moves towards a later page while the chain grows, and
  that page is still to be read (`NewerGrows` is the counting behind it). After a short page, or one past the
  start of the window, nothing is ahead. A clean result then is a statement about what was shown readably
  because two enumerations that agree in the count of each identity, and that miss nothing old of it, leave no
  room for a second payment of one payout.
- *WalletOwnership*: `WithdrawalsRespectCooldowns`, `CooldownsGrow`.  A change that waits read a clock that has passed,
  and while its challenge is open no later change of its user has been made: this is why the time it stores is
  never before the one that is there.

### RewardsAndMembership_proofs

- *FounderMembership*: `NumbersAreUnique`, `GrantsAreIdempotent`.  No number in use is above the sequence, and every
  audited grant is that of a request and of a user who has its number.
- *Rewards*: `BudgetsStayAccounted`, `UserCapsAreKept`, `StartedQuotesStayFunded`, `RewardsOwedAsIssued`, `RewardsTyped`, for
  any number of transactions, quotes, budgets, limits and rules, and any amounts.  None of these is inductive:
  a bonus and its cap are checked in one statement (`ResolveBonus`) and reserved in a later one (`CommitQuote`).
  `RewardInv` says what keeps the answer true in between: the rows a transaction has locked are its own (`SessionsInv`),
  the bonus it is about to reserve is still there and still within the cap (`AffordableInv`), and the budgets it has
  checked are among its locks, so that no other commit reserves in them.  `KeptInv` ties the rows of a source together (the
  state of its reservations to that of its quote, their amounts to what was quoted, its events to what was issued), `CapsInv`
  counts the use of each membership as `assertPerUserBonusCap` does, and `PostedInv` gives each issued quote its one key.
  The sums over all sources then move by exactly what one source's reservations or events move (`BudgetsFollow`,
  `OwedFollows`).  `TermsAssumption` is what the columns of `reward_rules` allow (natural numbers or NULL), and
  `RewardTablesAssumption` says that rows of different tables are different rows.

### Only model-checked

Every safety invariant, action property and refinement that a passing run checks is the property of a theorem above, two of
them (`NoBlindResend`, `LeaseRulesKept`) under `~Zombies`, as in the run.  Liveness (`payout_completes`, `outbox_relay`,
`owner_review`) is outside the prover's reach, and so is what SelectSeq computes, which is recursive (the order of `due` in
`OutboxRelay`; no safety property rests on it).

## 6. What is not modelled, and why

- Amounts, fees and limits of withdrawals are inputs; addresses, BOCs, hashes and cryptography are
  outside what the properties tell apart; the signer appears as the conditions under which it signs.
- `NOT_STARTED` outcomes of the fake chain need a scenario its type does not have.
- The other Phase 10 tools (acceptance gate, campaign plan, preflight, probes) read reports and rows and write a
  report; they change no state of the system.
- Budget periods are set up before a run of `Rewards` begins; their closing, and sources other than PROMOTION, have no
  effect on what is modelled.
- Views, searches, throttles and rate limits; topics, destinations and the other publications of the control
  center; disabling a wallet.
- Encrypted key custody, migrations and the guards of destructive tests, configuration, observability, HTTP and
  mini-app shells: no lasting state, or state that only cryptography tells apart.

`PROJECT.json` (`components`) lists every part with its status.

## 7. What would come next

1. A campaign of two withdrawals in the instance of `ChainHistory`, which has one (the proofs are for any number).
2. `SettledIsResolved` and RECONCILE_REQUIRED among the `DecisionStates`, once the code is changed.
