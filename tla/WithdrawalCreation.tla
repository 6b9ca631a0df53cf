------------------------- MODULE WithdrawalCreation -------------------------
(***************************************************************************)
(* Creating quotes and withdrawals, statement by statement: create.ts,      *)
(* quotes.ts, wallet-gate.ts and volume.ts of packages/withdrawals.         *)
(* Withdrawals takes each of them for one step; here every database         *)
(* transaction is a session that acquires its row locks one after the       *)
(* other (the quote, the user, then four volume periods), READ COMMITTED,   *)
(* while the clock passes from one hour and one UTC day to the next.        *)
(* Whatever else can fail in a transaction (the account is blocked or in    *)
(* its cooldown, the primary wallet changed, the ledger refuses the         *)
(* reservation, the connection is lost) is Rollback.  The gross amounts are *)
(* limited, and the fee never counts.                                       *)
(***************************************************************************)
EXTENDS Integers, FiniteSetsExt

CONSTANTS
  Sessions,     \* database sessions
  Quotes,       \* withdrawal quotes
  Keys,         \* idempotency keys
  Owner,        \* Owner[q]: the user of quote q
  Gross,        \* Gross[q]: the requested amount
  Cap,          \* Cap[q][scope]: the limit rule frozen on q
  HotWallet,    \* the one eligible hot wallet
  NoQuote, NoKey,
  HoursPerDay,  \* 24
  MaxHour       \* bound on the clock

Users == { Owner[q] : q \in Quotes }

\* volume.ts locks the periods in this order.
Scopes == << "USER_HOURLY", "USER_UTC_DAY", "HOT_WALLET_HOURLY", "HOT_WALLET_UTC_DAY" >>

ScopeNames == { Scopes[n] : n \in 1 .. 4 }

ASSUME CreationAssumption ==
  /\ HotWallet \notin Users
  /\ NoQuote \notin Quotes /\ NoKey \notin Keys
  /\ Gross \in [Quotes -> Nat \ { 0 }]
  /\ Cap \in [Quotes -> [ScopeNames -> Nat]]
  /\ HoursPerDay \in Nat \ { 0 } /\ MaxHour \in Nat

VARIABLES
  hour,         \* the clock, in hours
  status,       \* status[q]: the quote; LAPSED is OPEN or EXPIRED after expires_at
  withdrawals,  \* the committed withdrawals: quote, key and asOf
  consumed,     \* consumed[p]: withdrawal_volume_periods.consumed_atomic
  session       \* session[s]: where the transaction of s stands

vars == << hour, status, withdrawals, consumed, session >>

Hours == 0 .. MaxHour

\* The window of a scope that an instant falls in, by its start.
Window(scope, asOf) ==
  IF scope \in { "USER_HOURLY", "HOT_WALLET_HOURLY" }
    THEN asOf ELSE asOf - (asOf % HoursPerDay)

Subject(scope, q) == IF scope \in { "USER_HOURLY", "USER_UTC_DAY" } THEN Owner[q] ELSE HotWallet

Period(scope, q, asOf) ==
  [ scope |-> scope, of |-> Subject(scope, q), start |-> Window(scope, asOf) ]

Periods == { Period(scope, q, h) : scope \in ScopeNames, q \in Quotes, h \in Hours }

PeriodsOf(q, asOf) == { Period(scope, q, asOf) : scope \in ScopeNames }

\* Rows of different tables are different rows.
ASSUME TablesAssumption ==
  Quotes \cap Users = {} /\ (Quotes \cup Users) \cap Periods = {}

Statuses == { "NONE", "OPEN", "LAPSED", "CONSUMED", "CANCELLED" }

Pcs == { "idle", "key", "quote", "user", "insert", "volume", "commit" }

Answers == { "none", "quoted", "created", "recovered", "IDEMPOTENCY_CONFLICT",
             "QUOTE_CONSUMED", "QUOTE_NOT_OPEN", "LIMIT_EXCEEDED" }

CreationTypeOK ==
  /\ hour \in Hours
  /\ status \in [Quotes -> Statuses]
  /\ withdrawals \subseteq [ q : Quotes, key : Keys, asOf : Hours ]
  /\ consumed \in [Periods -> Nat]
  /\ \A s \in Sessions :
       /\ session[s].held \subseteq Quotes \cup Users \cup Periods
       /\ [ session[s] EXCEPT !.held = {} ] \in
            [ pc : Pcs, call : { "quote", "create" }, q : Quotes \cup { NoQuote },
              key : Keys \cup { NoKey }, asOf : Hours, n : 1 .. 5,
              held : { {} }, answer : Answers ]

Idle == [ pc |-> "idle", call |-> "quote", q |-> NoQuote, key |-> NoKey, asOf |-> 0,
          n |-> 1, held |-> {}, answer |-> "none" ]

Init ==
  /\ hour = 0
  /\ status = [q \in Quotes |-> "NONE"]
  /\ withdrawals = {}
  /\ consumed = [p \in Periods |-> 0]
  /\ session = [s \in Sessions |-> Idle]

-----------------------------------------------------------------------------

At(s, pc) == session[s].pc = pc

Quote(s) == session[s].q

Free(row) == \A t \in Sessions : row \notin session[t].held

\* Locked(s, row, pc): s gets the lock of the row and goes on at pc.
Locked(s, row, pc) ==
  /\ Free(row)
  /\ session' = [session EXCEPT ![s] = [ @ EXCEPT !.pc = pc, !.held = session[s].held \cup { row } ]]

\* The transaction ends and frees its locks.
Ends(s, answer) ==
  session' = [session EXCEPT ![s] =
    [ @ EXCEPT !.pc = "idle", !.asOf = 0, !.n = 1, !.held = {}, !.answer = answer ]]

Unwritten == UNCHANGED << hour, status, withdrawals, consumed >>

\* createWithdrawalQuote.
CallQuote(s, q) ==
  /\ At(s, "idle") /\ status[q] = "NONE"
  /\ \A t \in Sessions : ~At(t, "idle") => Quote(t) # q
  /\ session' = [session EXCEPT ![s] = [ Idle EXCEPT !.pc = "user", !.q = q ]]
  /\ Unwritten

\* createWithdrawalFromQuote.
CallCreate(s, q, key) ==
  /\ At(s, "idle") /\ status[q] # "NONE"
  /\ session' = [session EXCEPT ![s] =
       [ Idle EXCEPT !.pc = "key", !.call = "create", !.q = q, !.key = key ]]
  /\ Unwritten

\* The committed withdrawals of the caller under his key.
UnderKey(s) ==
  { w \in withdrawals : Owner[w.q] = Owner[Quote(s)] /\ w.key = session[s].key }

\* The replay.
ReadKey(s) ==
  /\ At(s, "key")
  /\ IF UnderKey(s) = {}
       THEN session' = [session EXCEPT ![s].pc = "quote"]
       ELSE Ends(s, IF \A w \in UnderKey(s) : w.q = Quote(s)
                      THEN "recovered" ELSE "IDEMPOTENCY_CONFLICT")
  /\ Unwritten

\* SELECT the quote FOR UPDATE: what is read is what its last holder committed.
LockQuote(s) ==
  /\ At(s, "quote") /\ Free(Quote(s))
  /\ CASE status[Quote(s)] = "OPEN"     -> Locked(s, Quote(s), "user")
       [] status[Quote(s)] = "CONSUMED" -> Ends(s, "QUOTE_CONSUMED")
       [] OTHER                         -> Ends(s, "QUOTE_NOT_OPEN")
  /\ Unwritten

\* requireEligiblePrimaryWallet locks the user; asOf is taken after that.
LockUser(s) ==
  /\ At(s, "user") /\ Free(Owner[Quote(s)])
  /\ session' = [session EXCEPT ![s] =
       [ @ EXCEPT !.held = session[s].held \cup { Owner[Quote(s)] },
                  !.asOf = hour,
                  !.pc = IF session[s].call = "create" THEN "insert" ELSE "volume" ]]
  /\ Unwritten

\* Mutant: the insert does not fail on the key.
InsertUnderAnyKey(s) ==
  /\ At(s, "insert")
  /\ session' = [session EXCEPT ![s].pc = "volume"]
  /\ Unwritten

\* INSERT INTO withdrawals, with unique keys and quotes.  The lock of the user
\* keeps other inserts of his away.  A duplicate key aborts the transaction, so that the SELECTs that
\* follow, meant to recover the withdrawal, fail as well.
Insert(s) ==
  /\ At(s, "insert")
  /\ IF UnderKey(s) = {} /\ \A w \in withdrawals : w.q # Quote(s)
       THEN session' = [session EXCEPT ![s].pc = "volume"]
       ELSE Ends(s, "none")
  /\ Unwritten

\* Mutant: quoting locks the periods in the opposite order.
NextPeriodEitherWay(s) ==
  Period(Scopes[IF session[s].call = "quote" THEN 5 - session[s].n ELSE session[s].n],
         Quote(s), session[s].asOf)

\* The period that s locks next.
NextPeriod(s) == Period(Scopes[session[s].n], Quote(s), session[s].asOf)

\* Mutant: the period is read without FOR UPDATE.
LockPeriodUnawaited(s) ==
  /\ At(s, "volume")
  /\ IF consumed[NextPeriod(s)] + Gross[Quote(s)] > Cap[Quote(s)][Scopes[session[s].n]]
       THEN Ends(s, "LIMIT_EXCEEDED")
       ELSE session' = [session EXCEPT ![s] =
              [ @ EXCEPT !.held = session[s].held \cup { NextPeriod(s) },
                         !.n = session[s].n + 1,
                         !.pc = IF session[s].n = 4 THEN "commit" ELSE "volume" ]]
  /\ Unwritten

\* lockOrCreatePeriod, and the check against the cap.  To insert a row that
\* another session has inserted waits for its end, as its lock does.
LockPeriod(s) ==
  /\ At(s, "volume") /\ Free(NextPeriod(s))
  /\ IF consumed[NextPeriod(s)] + Gross[Quote(s)] > Cap[Quote(s)][Scopes[session[s].n]]
       THEN Ends(s, "LIMIT_EXCEEDED")
       ELSE session' = [session EXCEPT ![s] =
              [ @ EXCEPT !.held = session[s].held \cup { NextPeriod(s) },
                         !.n = session[s].n + 1,
                         !.pc = IF session[s].n = 4 THEN "commit" ELSE "volume" ]]
  /\ Unwritten

CommitQuote(s) ==
  /\ At(s, "commit") /\ session[s].call = "quote"
  /\ status' = [status EXCEPT ![Quote(s)] = "OPEN"]
  /\ Ends(s, "quoted")
  /\ UNCHANGED << hour, withdrawals, consumed >>

\* The periods with the reservations of q.
Reserved(q, asOf) ==
  [p \in Periods |-> consumed[p] + (IF p \in PeriodsOf(q, asOf) THEN Gross[q] ELSE 0)]

\* What createWithdrawalFromQuote wrote is committed: the withdrawal, its
\* volume, and the CONSUMED quote.
CommitCreate(s) ==
  /\ At(s, "commit") /\ session[s].call = "create"
  /\ withdrawals' = withdrawals \cup
       { [ q |-> Quote(s), key |-> session[s].key, asOf |-> session[s].asOf ] }
  /\ status' = [status EXCEPT ![Quote(s)] = "CONSUMED"]
  /\ consumed' = Reserved(Quote(s), session[s].asOf)
  /\ Ends(s, "created")
  /\ UNCHANGED hour

Rollback(s) ==
  /\ ~At(s, "idle")
  /\ Ends(s, "none")
  /\ Unwritten

\* cancelWithdrawalQuote, which locks nothing but the quote.
CancelQuote(q) ==
  /\ status[q] = "OPEN" /\ Free(q)
  /\ status' = [status EXCEPT ![q] = "CANCELLED"]
  /\ UNCHANGED << hour, withdrawals, consumed, session >>

\* The clock passes expires_at; a session that has read the quote goes on.
QuoteLapses(q) ==
  /\ status[q] = "OPEN"
  /\ status' = [status EXCEPT ![q] = "LAPSED"]
  /\ UNCHANGED << hour, withdrawals, consumed, session >>

HourPasses ==
  /\ hour < MaxHour
  /\ hour' = hour + 1
  /\ UNCHANGED << status, withdrawals, consumed, session >>

Statement(s) ==
  \/ ReadKey(s) \/ LockQuote(s) \/ LockUser(s) \/ Insert(s) \/ LockPeriod(s)
  \/ CommitQuote(s) \/ CommitCreate(s) \/ Rollback(s)

Next ==
  \/ \E s \in Sessions, q \in Quotes :
       CallQuote(s, q) \/ \E key \in Keys : CallCreate(s, q, key)
  \/ \E s \in Sessions : Statement(s)
  \/ \E q \in Quotes : CancelQuote(q) \/ QuoteLapses(q)
  \/ HourPasses

Spec == Init /\ [][Next]_vars

-----------------------------------------------------------------------------
(* Properties.                                                             *)

Within(p) == { w \in withdrawals : p \in PeriodsOf(w.q, w.asOf) }

Requested == [w \in withdrawals |-> Gross[w.q]]

Volume(p) == SumFunctionOnSet(Requested, Within(p))

\* However many transactions create withdrawals at once, what was requested in
\* an hour or a UTC day, by a user or through the hot wallet, is within the cap
\* of one of the limit rules it was requested under.
CapsRespected ==
  \A p \in Periods : Within(p) # {} =>
    \E w \in Within(p) : Volume(p) <= Cap[w.q][p.scope]

\* The counters are the sums of the withdrawals whose asOf lies in their window.
VolumeIsReserved == \A p \in Periods : consumed[p] = Volume(p)

\* A quote is consumed by one withdrawal, a user's key names one withdrawal, and
\* a quote is CONSUMED exactly if it has one.
OneWithdrawalEach ==
  /\ \A v, w \in withdrawals :
       v.q = w.q \/ (Owner[v.q] = Owner[w.q] /\ v.key = w.key) => v = w
  /\ \A q \in Quotes : status[q] = "CONSUMED" <=> \E w \in withdrawals : w.q = q

\* The row that s is about to lock.
Awaited(s) ==
  CASE At(s, "quote")  -> Quote(s)
    [] At(s, "user")   -> Owner[Quote(s)]
    [] At(s, "volume") -> NextPeriod(s)

WaitsFor(s, t) ==
  s # t /\ session[s].pc \in { "quote", "user", "volume" } /\ Awaited(s) \in session[t].held

\* Quoting and creating never wait for each other in a circle.
NoCircularWait ==
  \A S \in SUBSET Sessions : S # {} => \E s \in S : \A t \in S : ~WaitsFor(s, t)

=============================================================================
