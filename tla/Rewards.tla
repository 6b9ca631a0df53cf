------------------------------ MODULE Rewards ------------------------------
(***************************************************************************)
(* Reward quotes, their budgets, issuance and maturity: packages/rewards.   *)
(* A quote for a simulated source reserves its base amount in a budget      *)
(* period, its membership bonus in every bonus budget that applies, and     *)
(* both in the exposure periods of the active limits; a quote that expires  *)
(* releases them, an issued one consumes them and posts to the ledger.      *)
(* Each call is a transaction of several statements, which takes its row    *)
(* locks (SELECT ... FOR UPDATE) as it goes and may be rolled back at any   *)
(* of them: the connection is lost, or it is a deadlock's victim.           *)
(* The rows of one statement are locked at once.                            *)
(***************************************************************************)
EXTENDS RewardRules, FiniteSetsExt

CONSTANTS
  Sessions, Users,
  Sources,      \* simulated sources; a source has at most one quote, named after it
  Binding,      \* Binding[s]: the user s is for, or None
  BaseBudgets,  \* reward_budget_periods
  Scope,        \* Scope[b]: type, reference and country group
  Provider,     \* the simulated provider
  Country,      \* Country[s]: the country group a quote for s is asked in, or None
  Memberships, Holder, Bps,
  BonusBudgets, \* membership_bonus_budget_periods
  BonusFor,     \* BonusFor[b]: the memberships that the scope of b matches
  UserCap,      \* UserCap[b]: per_user_cap_atomic, or None
  Limits,       \* economic_exposure_limits
  LimitOn,      \* LimitOn[l]: "base" or "bonus"
  Days,         \* Days[b]: the days that the period of a budget b covers
  Capacity,     \* Capacity[c]: budget_atomic, or limit_atomic
  Keys,         \* idempotency keys of issuance
  DayLength, QuoteTtl, Hold, MaxNow,
  MaxChanges    \* bound on the changes of rules, memberships and flags

Now == 0 .. MaxNow

Day(t) == t \div DayLength

ExposurePeriods == Limits \X { Day(t) : t \in Now }

\* The rows that count what is reserved and consumed.
Counters == BaseBudgets \cup BonusBudgets \cup ExposurePeriods

Policies == { "NO_BONUS", "BLOCK_QUOTE_BEFORE_START", "BASE_REWARD_ONLY" }

ASSUME RewardAssumption ==
  /\ Binding \in [Sources -> Users \cup { None }]
  /\ Holder \in [Memberships -> Users] /\ Bps \in [Memberships -> 0 .. BpsScale]
  /\ None \notin Users /\ None \notin Memberships /\ None \notin Sources
  /\ IsFiniteSet(Sources)
  /\ Capacity \in [Counters -> Nat \ { 0 }]
  /\ UserCap \in [BonusBudgets -> Nat \cup { None }]
  /\ DayLength \in Nat \ { 0 } /\ QuoteTtl \in Nat \ { 0 }
  /\ Hold \in Nat /\ MaxNow \in Nat /\ MaxNow <= Forever /\ MaxChanges \in Nat

\* Rows of different tables are different rows.
ASSUME RewardTablesAssumption ==
  /\ BaseBudgets \cap BonusBudgets = {}
  /\ ExposurePeriods \cap (BaseBudgets \cup BonusBudgets) = {}

VARIABLES
  now,
  source,     \* source[s]: CREATED, QUOTED or COMPLETED
  quote,      \* quote[s]: the quote of s
  held,       \* held[s]: the reservations of s: counter, amount and state
  counter,    \* counter[c]: reserved and consumed
  member,     \* the memberships that are ACTIVE
  paused,     \* the feature flags that are on
  event,      \* event[s][part]: the base and bonus reward event of s
  ledger,     \* ledger[u]: the pending and available liability to u
  postedFor,  \* postedFor[k]: the source that k's posting is for
  session,    \* session[p]: where the transaction of p stands
  changes     \* changes of rules, memberships and flags so far

vars == << now, rules, source, quote, held, counter, member, paused, event, ledger,
           postedFor, session, changes >>

Flags == { "GLOBAL_REWARDS_PAUSE", "MEMBERSHIP_BONUS_PAUSE" }

Parts == { "base", "bonus" }

NoQuote == [ status |-> "NONE", user |-> None, base |-> 0, bonus |-> 0,
             membership |-> None, expires |-> 0, started |-> None ]

NoEvent == [ state |-> "NONE", amount |-> 0, until |-> 0 ]

Idle == [ pc |-> "idle", source |-> None, user |-> None, budget |-> None, policy |-> None,
          key |-> None, asOf |-> 0, base |-> 0, bonus |-> 0, membership |-> None,
          rule |-> None, bonusBudgets |-> {}, locks |-> {} ]

RewardInit ==
  /\ now = 0
  /\ rules = [v \in Versions |-> NoRule]
  /\ source = [s \in Sources |-> "CREATED"]
  /\ quote = [s \in Sources |-> NoQuote]
  /\ held = [s \in Sources |-> {}]
  /\ counter = [c \in Counters |-> [ reserved |-> 0, consumed |-> 0 ]]
  /\ member = Memberships
  /\ paused = {}
  /\ event = [s \in Sources |-> [part \in Parts |-> NoEvent]]
  /\ ledger = [u \in Users |-> [ pending |-> 0, available |-> 0 ]]
  /\ postedFor = [k \in Keys |-> None]
  /\ session = [p \in Sessions |-> Idle]
  /\ changes = 0

-----------------------------------------------------------------------------
(* Transactions and their locks.                                           *)

At(p, pc) == session[p].pc = pc

SourceRow(s) == << "source", s >>

QuoteRow(s) == << "quote", s >>

Free(p, rows) == \A q \in Sessions \ { p } : rows \cap session[q].locks = {}

\* p locks the rows and goes on with what it has read.
Locks(p, rows, read) ==
  session' = [session EXCEPT ![p] = [ read EXCEPT !.locks = @ \cup rows ]]

Ends(p) == session' = [session EXCEPT ![p] = Idle]

Unwritten ==
  UNCHANGED << now, rules, source, quote, held, counter, member, paused, event, ledger,
               postedFor, changes >>

Rollback(p) == ~At(p, "idle") /\ Ends(p) /\ Unwritten

-----------------------------------------------------------------------------
(* Counters.                                                               *)

\* Mutant: what is reserved is still available.
RemainingUnreserved(c) == Capacity[c] - counter[c].consumed

Remaining(c) == Capacity[c] - counter[c].reserved - counter[c].consumed

\* A quote has at most one reservation in each of them.
AmountIn(rs, c) ==
  IF \E r \in rs : r.counter = c THEN (CHOOSE r \in rs : r.counter = c).amount ELSE 0

InState(rs, state) == { r \in rs : r.state = state }

Active(rs) == InState(rs, "ACTIVE")

Unreleased(rs) == { r \in rs : r.state # "RELEASED" }

\* The counters after the reservations rs, of the counters cs, are reserved.
Reserve(counts, rs, cs) ==
  [c \in Counters |->
    IF c \in cs THEN [ counts[c] EXCEPT !.reserved = @ + AmountIn(rs, c) ] ELSE counts[c]]

\* And after those that are ACTIVE are CONSUMED or RELEASED.
Settle(counts, rs, cs, state) ==
  [c \in Counters |->
    LET amount == AmountIn(Active(rs), c)
    IN IF c \notin cs THEN counts[c]
       ELSE [ reserved |-> counts[c].reserved - amount,
              consumed |-> counts[c].consumed + (IF state = "CONSUMED" THEN amount ELSE 0) ]]

ReserveRewardBudget(counts, rs) == Reserve(counts, rs, BaseBudgets)

ReserveBonusBudget(counts, rs) == Reserve(counts, rs, BonusBudgets)

ReserveExposure(counts, rs) == Reserve(counts, rs, ExposurePeriods)

SettleRewardBudget(counts, rs, state) == Settle(counts, rs, BaseBudgets, state)

SettleBonusBudget(counts, rs, state) == Settle(counts, rs, BonusBudgets, state)

SettleExposure(counts, rs, state) == Settle(counts, rs, ExposurePeriods, state)

Settled(rs, state) ==
  { IF r.state = "ACTIVE" THEN [ r EXCEPT !.state = state ] ELSE r : r \in rs }

-----------------------------------------------------------------------------
(* createRewardQuote, in four statements.                                  *)

\* assertSimulatedSourceEligibleForQuote
Eligible(s, u) == source[s] = "CREATED" /\ Binding[s] \in { u, None }

\* The source's row is locked and the rule is read.
QuoteSource(p, s, u, budget, policy) ==
  /\ At(p, "idle") /\ Free(p, { SourceRow(s) })
  /\ Eligible(s, u)
  /\ \E v \in Versions :
       /\ Matching(now) = { v } /\ QuotedReward(Terms[v]) > 0
       /\ Locks(p, { SourceRow(s) },
            [ Idle EXCEPT !.pc = "budget", !.source = s, !.user = u, !.budget = budget,
                          !.policy = policy, !.asOf = now, !.rule = v,
                          !.base = QuotedReward(Terms[v]) ])
  /\ Unwritten

CountryMatches(scope, s) == scope.country \in { None, Country[s] }

\* A budget pays for a source under a rule if its scope says so exactly.
InScope(scope, s, v) ==
  \/ scope.type = "GLOBAL" /\ scope.reference = None /\ scope.country = None
  \/ scope.type = "PROVIDER" /\ scope.reference = Provider /\ CountryMatches(scope, s)
  \/ /\ scope.type = "COUNTRY_GROUP" /\ scope.reference = None
     /\ scope.country # None /\ CountryMatches(scope, s)
  \/ scope.type = "REWARD_RULE" /\ scope.reference = v /\ CountryMatches(scope, s)

\* validateBaseBudgetPeriod: the caller only says where the budget is.
ValidateBudget(p) ==
  LET x == session[p] IN
  /\ At(p, "budget") /\ Free(p, { x.budget })
  /\ IF InScope(Scope[x.budget], x.source, x.rule) /\ Day(x.asOf) \in Days[x.budget]
       THEN Locks(p, { x.budget }, [ x EXCEPT !.pc = "bonus" ])
       ELSE Ends(p)
  /\ Unwritten

Candidates(u) == { m \in member : Holder[m] = u }

\* resolveApplicableBonusBudgetPeriods
Applicable(m, t) == { b \in BonusBudgets : m \in BonusFor[b] /\ Day(t) \in Days[b] }

Reservations == UNION { held[s] : s \in Sources }

QuotedWith(m) == { s \in Sources : quote[s].membership = m }

\* What a membership has reserved and consumed of a bonus budget.
UsedBy(m, b) ==
  SumFunctionOnSet([s \in Sources |-> AmountIn(Unreleased(held[s]), b)],
                   QuotedWith(m))

\* Mutant: what was issued is no longer counted.
CapAllowsReserved(m, b, amount) ==
  UserCap[b] # None =>
    SumFunctionOnSet([s \in Sources |-> AmountIn(Active(held[s]), b)], QuotedWith(m)) + amount
      <= UserCap[b]

\* assertPerUserBonusCap
CapAllows(m, b, amount) == UserCap[b] # None => UsedBy(m, b) + amount <= UserCap[b]

\* The bonus is neither paused, unfunded nor over a cap.
BonusAvailable(m, bs, amount) ==
  /\ "MEMBERSHIP_BONUS_PAUSE" \notin paused
  /\ bs # {}
  /\ \A b \in bs : amount <= Remaining(b) /\ CapAllows(m, b, amount)

\* resolveMembershipBonus: several candidates conflict; a bonus that is not
\* available blocks the quote, or leaves it with its base reward.
ResolveBonus(p) ==
  LET x == session[p] IN
  /\ At(p, "bonus")
  /\ \/ /\ x.policy = "NO_BONUS" \/ Candidates(x.user) = {}
        /\ Locks(p, {}, [ x EXCEPT !.pc = "guard" ])
     \/ /\ x.policy # "NO_BONUS" /\ \A m \in Candidates(x.user) : Candidates(x.user) # { m }
        /\ Candidates(x.user) # {} /\ Ends(p)
     \/ \E m \in Memberships :
          LET bs     == Applicable(m, x.asOf)
              amount == MembershipBonus(x.base, Bps[m])
              base   == [ x EXCEPT !.pc = "guard", !.membership = m ]
          IN /\ x.policy # "NO_BONUS" /\ Candidates(x.user) = { m } /\ Free(p, bs)
             /\ \/ amount > 0 /\ BonusAvailable(m, bs, amount)
                   /\ Locks(p, bs, [ base EXCEPT !.bonus = amount, !.bonusBudgets = bs ])
                \/ amount > 0 /\ ~BonusAvailable(m, bs, amount)
                   /\ IF x.policy = "BASE_REWARD_ONLY" THEN Locks(p, bs, base) ELSE Ends(p)
                \/ amount = 0
                   /\ IF "MEMBERSHIP_BONUS_PAUSE" \in paused /\ x.policy # "BASE_REWARD_ONLY"
                        THEN Ends(p) ELSE Locks(p, {}, base)
  /\ Unwritten

\* The exposure periods a quote counts in, and how much.
Exposures(x) ==
  { [ counter |-> << l, Day(x.asOf) >>,
      amount |-> IF LimitOn[l] = "base" THEN x.base ELSE x.bonus, state |-> "ACTIVE" ] :
      l \in { l \in Limits : LimitOn[l] = "base" \/ x.bonus > 0 } }

\* evaluateNewQuoteGuardrails
GuardrailsAllow(exposures) ==
  /\ "GLOBAL_REWARDS_PAUSE" \notin paused
  /\ \A r \in exposures : r.amount <= Remaining(r.counter)

NewReservations(x) ==
  { [ counter |-> x.budget, amount |-> x.base, state |-> "ACTIVE" ] }
    \cup { [ counter |-> b, amount |-> x.bonus, state |-> "ACTIVE" ] : b \in x.bonusBudgets }
    \cup Exposures(x)

\* The guardrails, the quote, and what it reserves.
CommitQuote(p) ==
  LET x  == session[p]
      rs == NewReservations(x)
  IN
  /\ At(p, "guard") /\ Free(p, { r.counter : r \in Exposures(x) })
  /\ IF GuardrailsAllow(Exposures(x)) /\ x.base <= Remaining(x.budget)
       THEN /\ quote' = [quote EXCEPT ![x.source] =
                 [ status |-> "OPEN", user |-> x.user, base |-> x.base, bonus |-> x.bonus,
                   membership |-> x.membership, expires |-> x.asOf + QuoteTtl, started |-> None ]]
            /\ source' = [source EXCEPT ![x.source] = "QUOTED"]
            /\ held' = [held EXCEPT ![x.source] = rs]
            /\ counter' = ReserveExposure(ReserveBonusBudget(ReserveRewardBudget(counter, rs), rs), rs)
       ELSE UNCHANGED << quote, source, held, counter >>
  /\ Ends(p)
  /\ UNCHANGED << now, rules, member, paused, event, ledger, postedFor, changes >>

-----------------------------------------------------------------------------
(* What becomes of a quote.                                                *)

CountersOf(s) == { r.counter : r \in held[s] }

\* expireRewardQuote, up to the lock of the quote.
ExpireQuote(p, s) ==
  /\ At(p, "idle") /\ Free(p, { QuoteRow(s) })
  /\ quote[s].status = "OPEN" /\ quote[s].started = None /\ quote[s].expires <= now
  /\ Locks(p, { QuoteRow(s) }, [ Idle EXCEPT !.pc = "release", !.source = s ])
  /\ Unwritten

CommitExpiry(p) ==
  LET s == session[p].source IN
  /\ At(p, "release") /\ Free(p, CountersOf(s))
  /\ quote' = [quote EXCEPT ![s].status = "EXPIRED"]
  /\ counter' = SettleExposure(SettleBonusBudget(
                  SettleRewardBudget(counter, held[s], "RELEASED"), held[s], "RELEASED"),
                  held[s], "RELEASED")
  /\ held' = [held EXCEPT ![s] = Settled(@, "RELEASED")]
  /\ Ends(p)
  /\ UNCHANGED << now, rules, source, member, paused, event, ledger, postedFor, changes >>

\* Mutant: the quote is read without its lock.
CompleteSourceUnlocked(p, s, completedAt) ==
  /\ At(p, "idle") /\ Free(p, { SourceRow(s) })
  /\ quote[s].status = "OPEN" /\ quote[s].started = None
  /\ completedAt <= quote[s].expires
  /\ quote' = [quote EXCEPT ![s].started = completedAt]
  /\ source' = [source EXCEPT ![s] = "COMPLETED"]
  /\ UNCHANGED << now, rules, held, counter, member, paused, event, ledger, postedFor, session,
                  changes >>

\* completeSimulatedRewardSource; the caller may say when it was completed.
CompleteSource(p, s, completedAt) ==
  /\ At(p, "idle") /\ Free(p, { QuoteRow(s), SourceRow(s) })
  /\ quote[s].status = "OPEN" /\ quote[s].started = None
  /\ completedAt <= quote[s].expires
  /\ quote' = [quote EXCEPT ![s].started = completedAt]
  /\ source' = [source EXCEPT ![s] = "COMPLETED"]
  /\ UNCHANGED << now, rules, held, counter, member, paused, event, ledger, postedFor, session,
                  changes >>

\* issueSimulatedReward, up to the lock of the quote.  A started quote may be
\* issued after it has expired.
IssueQuote(p, s, key) ==
  /\ At(p, "idle") /\ Free(p, { QuoteRow(s) })
  /\ quote[s].status = "OPEN" /\ quote[s].started # None
  /\ now > quote[s].expires => quote[s].started <= quote[s].expires
  /\ Locks(p, { QuoteRow(s) },
       [ Idle EXCEPT !.pc = "issue", !.source = s, !.key = key, !.asOf = now ])
  /\ Unwritten

\* Mutant: the bonus is not posted.
IssuedBaseOnly(s) == [ledger EXCEPT ![quote[s].user].pending = @ + quote[s].base]

\* Both postings credit the pending liability of the user.
Issued(s) == [ledger EXCEPT ![quote[s].user].pending = @ + quote[s].base + quote[s].bonus]

Quoted(q, part) == IF part = "base" THEN q.base ELSE q.bonus

PendingEvents(s, until) ==
  [part \in Parts |->
    IF Quoted(quote[s], part) = 0 THEN NoEvent
    ELSE [ state |-> "PENDING", amount |-> Quoted(quote[s], part), until |-> until ]]

\* The postings, the events and the reservations.  The ledger refuses a key
\* that has posted another reward, and a reward posted under another key.
CommitIssuance(p) ==
  LET x == session[p]
      s == x.source
  IN
  /\ At(p, "issue") /\ Free(p, CountersOf(s))
  /\ postedFor[x.key] = None /\ \A k \in Keys : postedFor[k] # s
  /\ \E r \in Active(held[s]) : r.counter \in BaseBudgets
  /\ quote' = [quote EXCEPT ![s].status = "CONSUMED"]
  /\ event' = [event EXCEPT ![s] = PendingEvents(s, x.asOf + Hold)]
  /\ ledger' = Issued(s)
  /\ postedFor' = [postedFor EXCEPT ![x.key] = s]
  /\ counter' = SettleExposure(SettleBonusBudget(
                  SettleRewardBudget(counter, held[s], "CONSUMED"), held[s], "CONSUMED"),
                  held[s], "CONSUMED")
  /\ held' = [held EXCEPT ![s] = Settled(@, "CONSUMED")]
  /\ Ends(p)
  /\ UNCHANGED << now, rules, source, member, paused, changes >>

\* matureRewardEvent, with the event's row locked.
Mature(s, part) ==
  LET e == event[s][part]
      u == quote[s].user
  IN
  /\ e.state = "PENDING" /\ e.until <= now
  /\ event' = [event EXCEPT ![s][part].state = "AVAILABLE"]
  /\ ledger' = [ledger EXCEPT ![u] = [ pending |-> @.pending - e.amount,
                                       available |-> @.available + e.amount ]]
  /\ UNCHANGED << now, rules, source, quote, held, counter, member, paused, postedFor, session,
                  changes >>

-----------------------------------------------------------------------------
(* The surroundings: rules, memberships and flags are changed by others.   *)

Changes == changes < MaxChanges /\ changes' = changes + 1

ChangeRules ==
  /\ Changes
  /\ \E v \in Versions :
       \/ \E activate \in BOOLEAN : CreateRule(v, activate, now)
       \/ ActivateRule(v, now)
       \/ SupersedeRule(v, now)
  /\ UNCHANGED << now, source, quote, held, counter, member, paused, event, ledger, postedFor,
                  session >>

MembershipEnds(m) ==
  /\ m \in member /\ Changes
  /\ member' = member \ { m }
  /\ UNCHANGED << now, rules, source, quote, held, counter, paused, event, ledger, postedFor,
                  session >>

Pause(flag) ==
  /\ flag \notin paused /\ Changes
  /\ paused' = paused \cup { flag }
  /\ UNCHANGED << now, rules, source, quote, held, counter, member, event, ledger, postedFor,
                  session >>

Tick ==
  /\ now < MaxNow
  /\ now' = now + 1
  /\ UNCHANGED << rules, source, quote, held, counter, member, paused, event, ledger, postedFor,
                  session, changes >>

Statement(p) ==
  \/ ValidateBudget(p) \/ ResolveBonus(p) \/ CommitQuote(p)
  \/ CommitExpiry(p) \/ CommitIssuance(p) \/ Rollback(p)

Call(p) ==
  \E s \in Sources :
    \/ \E u \in Users, b \in BaseBudgets, policy \in Policies : QuoteSource(p, s, u, b, policy)
    \/ ExpireQuote(p, s)
    \/ \E t \in { now, quote[s].expires } : CompleteSource(p, s, t)
    \/ \E key \in Keys : IssueQuote(p, s, key)

Next ==
  \/ \E p \in Sessions : Call(p) \/ Statement(p)
  \/ \E s \in Sources, part \in Parts : Mature(s, part)
  \/ ChangeRules
  \/ \E m \in Memberships : MembershipEnds(m)
  \/ \E flag \in Flags : Pause(flag)
  \/ Tick

RewardSpec == RewardInit /\ [][Next]_vars

-----------------------------------------------------------------------------
(* Properties.                                                             *)

Quote == [ status : { "NONE", "OPEN", "CONSUMED", "EXPIRED" }, user : Users \cup { None },
           base : Nat, bonus : Nat, membership : Memberships \cup { None }, expires : Nat,
           started : Nat \cup { None } ]

Reservation == [ counter : Counters, amount : Nat, state : { "ACTIVE", "CONSUMED", "RELEASED" } ]

Event == [ state : { "NONE", "PENDING", "AVAILABLE" }, amount : Nat, until : Nat ]

Rows == Counters \cup { SourceRow(s) : s \in Sources } \cup { QuoteRow(s) : s \in Sources }

Session == [ pc : { "idle", "budget", "bonus", "guard", "release", "issue" },
             source : Sources \cup { None }, user : Users \cup { None },
             budget : BaseBudgets \cup { None }, policy : Policies \cup { None },
             key : Keys \cup { None }, asOf : Now, base : Nat, bonus : Nat,
             membership : Memberships \cup { None }, rule : Versions \cup { None },
             bonusBudgets : SUBSET BonusBudgets, locks : SUBSET Rows ]

\* The rows, the transactions and the clock keep their types: what is counted,
\* reserved or owed never becomes negative.
RewardTypeOK ==
  /\ RuleTypeOK
  /\ now \in Now /\ changes \in Nat
  /\ source \in [Sources -> { "CREATED", "QUOTED", "COMPLETED" }]
  /\ quote \in [Sources -> Quote]
  /\ held \in [Sources -> SUBSET Reservation]
  /\ counter \in [Counters -> [ reserved : Nat, consumed : Nat ]]
  /\ member \subseteq Memberships /\ paused \subseteq Flags
  /\ event \in [Sources -> [Parts -> Event]]
  /\ ledger \in [Users -> [ pending : Nat, available : Nat ]]
  /\ postedFor \in [Keys -> Sources \cup { None }]
  /\ session \in [Sessions -> Session]

HeldIn(state, c) ==
  SumFunctionOnSet([s \in Sources |-> AmountIn(InState(held[s], state), c)], Sources)

\* Whichever transactions quote, expire and issue at once, every budget and
\* exposure period counts exactly the reservations that are active and the
\* rewards that were issued from it, and is never exceeded.
BudgetsAccounted ==
  \A c \in Counters :
    /\ counter[c] = [ reserved |-> HeldIn("ACTIVE", c), consumed |-> HeldIn("CONSUMED", c) ]
    /\ HeldIn("ACTIVE", c) + HeldIn("CONSUMED", c) <= Capacity[c]

\* A membership's use of a bonus budget is within the cap per user, though the
\* cap is checked two statements before the reservation.
UserCapsHold ==
  \A b \in BonusBudgets, m \in Memberships :
    UserCap[b] # None =>
      SumFunctionOnSet([s \in Sources |-> quote[s].bonus],
                       { s \in QuotedWith(m) : /\ quote[s].status \in { "OPEN", "CONSUMED" }
                                              /\ b \in CountersOf(s) }) <= UserCap[b]

\* A quote whose source was started in time keeps all its reservations until it
\* is issued: neither expiry nor a pause, a rule or a membership that ends takes
\* them away.  Until it is issued it has earned nothing.
StartedStaysFunded ==
  \A s \in Sources :
    /\ quote[s].started # None => quote[s].status \in { "OPEN", "CONSUMED" }
                                   /\ quote[s].started <= quote[s].expires
    /\ quote[s].status = "OPEN" =>
         /\ \A r \in held[s] : r.state = "ACTIVE"
         /\ \A part \in Parts : event[s][part] = NoEvent
         /\ AmountIn(held[s], CHOOSE b \in BaseBudgets : b \in CountersOf(s)) = quote[s].base
         /\ quote[s].bonus > 0 =>
              \E b \in BonusBudgets : AmountIn(held[s], b) = quote[s].bonus

\* What the events of a quote in a state owe, and what they owe to a user.
Owed(state, q, ev) ==
  SumFunctionOnSet([part \in Parts |-> IF ev[part].state = state THEN Quoted(q, part) ELSE 0],
                   Parts)

OwedTo(state, u) ==
  SumFunctionOnSet([s \in Sources |-> Owed(state, quote[s], event[s])],
                   { s \in Sources : quote[s].user = u })

\* What the platform owes a user is what the events of his quotes say, pending
\* or available, and each source was rewarded under one key at most.
OwedAsIssued ==
  /\ \A u \in Users :
       ledger[u] = [ pending |-> OwedTo("PENDING", u), available |-> OwedTo("AVAILABLE", u) ]
  /\ \A s \in Sources :
       Cardinality({ k \in Keys : postedFor[k] = s }) = (IF quote[s].status = "CONSUMED" THEN 1 ELSE 0)

=============================================================================
