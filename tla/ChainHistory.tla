---------------------------- MODULE ChainHistory ----------------------------
(***************************************************************************)
(* The audit of a hot wallet's outgoing Jetton transfers over a campaign:  *)
(* the payouts the database says were made, the history as TonCenter pages *)
(* it by offset and TonAPI pages it by logical time, and the comparison of *)
(* the three.  The two enumerations run side by side, page by page, while  *)
(* the chain grows and each indexer follows it at its own pace.            *)
(* Time is in ticks; a transaction's logical time is its place in history. *)
(***************************************************************************)
EXTENDS Naturals, Sequences, FiniteSets, FiniteSetsExt

CONSTANTS
  Keys,              \* economic identities: query id, amount, recipient, master
  NoTransfer,        \* of a transaction that is no outgoing transfer, or aborted
  Withdrawals,       \* the campaign's withdrawals
  WindowStart, WindowEnd,
  PageSize,
  MaxPages,          \* ENUMERATE_HISTORY_MAX_PAGES
  MaxTime,           \* bound: times
  OldLength,         \* bound: transactions before the collection,
  MaxLength          \* and with those that come while it reads

ASSUME HistoryAssumption ==
  /\ {WindowStart, WindowEnd, PageSize, MaxPages} \subseteq Nat
  /\ {MaxTime, OldLength, MaxLength} \subseteq Nat
  /\ NoTransfer \notin Keys
  /\ PageSize > 0 /\ MaxPages > 0

Providers == {"toncenter", "tonapi"}

VARIABLES
  chain,             \* transactions of the hot wallet's Jetton wallet, oldest first
  indexed,           \* [Providers -> how much of it each indexer has]
  begun,             \* the same when the collection began
  payouts,           \* [Withdrawals -> what the database says of each]
  collector,         \* "idle", "reading", "refused", "failed" or the result
  reader,            \* [Providers -> one enumeration]
  filters            \* does TonCenter honour start_utime and end_utime?

chainVars == <<chain, indexed>>
historyVars == <<chain, indexed, begun, payouts, collector, reader, filters>>

Transaction == [time: 0..MaxTime, key: Keys \cup {NoTransfer}]
InWindow(time) == time \in WindowStart..WindowEnd

\* A reader that has fetched nothing yet.  It will keep what it finds, each
\* transfer with the number of the page it was on, the rows it passes over, and
\* whether it had to stop blind.
Fresh == [pages |-> 0, cursor |-> 0, found |-> {}, passed |-> {},
          exhausted |-> FALSE, past |-> FALSE, blind |-> FALSE, done |-> FALSE]

\* No collection yet.
HistoryRest ==
  /\ begun = indexed /\ payouts = <<>> /\ filters = TRUE
  /\ collector = "idle"
  /\ reader = [p \in Providers |-> Fresh]

HistoryInit ==
  /\ \E n \in 0..OldLength: chain \in [1..n -> Transaction]
  /\ \A i, j \in DOMAIN chain: i <= j => chain[i].time <= chain[j].time
  /\ indexed \in [Providers -> 0..Len(chain)]
  /\ HistoryRest

----------------------------------------------------------------------------
\* The chain and the indexers.  They start anywhere, and go on for as long as an
\* enumeration is looking.

Reading(p) == collector = "reading" /\ ~reader[p].done

Extend ==
  /\ Len(chain) < MaxLength
  /\ \E p \in Providers: Reading(p)
  /\ \E t \in Transaction:
       /\ \A i \in DOMAIN chain: chain[i].time <= t.time
       /\ chain' = Append(chain, t)
  /\ UNCHANGED <<indexed, begun, payouts, collector, reader, filters>>

Index(p) ==
  /\ Reading(p) /\ indexed[p] < Len(chain)
  /\ indexed' = [indexed EXCEPT ![p] = @ + 1]
  /\ UNCHANGED <<chain, begun, payouts, collector, reader, filters>>

----------------------------------------------------------------------------
\* The expected payouts.

Expected == {payouts[w].key: w \in DOMAIN payouts}

\* What the database has of a withdrawal: its economic identity, whether there is
\* a durable proof of the payout, and when it was sent: the submission, else the
\* broadcast, else the chain's own time, else unknown.
Unknown == MaxTime + 1
Row == [key: Keys, proven: BOOLEAN, at: 0..MaxTime \cup {Unknown}]

\* No withdrawal of the campaign is left out and none goes by another time.
Loadable(rows) == \A w \in Withdrawals: rows[w].proven /\ rows[w].at # Unknown

\* Every withdrawal lies in the window and has an economic identity of its own.
Usable(rows) ==
  /\ \A w \in Withdrawals: InWindow(rows[w].at)
  /\ \A v, w \in Withdrawals: v # w => rows[v].key # rows[w].key

Begin ==
  /\ collector = "idle"
  /\ payouts' \in [Withdrawals -> Row]
  /\ IF Loadable(payouts') /\ Usable(payouts')
     THEN collector' = "reading" /\ filters' \in BOOLEAN
     ELSE collector' = "refused" /\ UNCHANGED filters
  /\ begun' = indexed
  /\ UNCHANGED <<chain, indexed, reader>>

----------------------------------------------------------------------------
\* One page.

\* How many of S come after x, and the page of S, newest first as both
\* interfaces sort, that leaves out the n newest: the places of its rows.
Newer(S, x) == Cardinality({y \in S: y > x})
PageOf(S, n) == {x \in S: Newer(S, x) \in n..(n + PageSize - 1)}

\* What the queries are for: TonCenter's rows from an offset on, TonAPI's before
\* a logical time.
TonCenterQuery == {i \in 1..indexed["toncenter"]: filters => InWindow(chain[i].time)}
TonCenterRows == PageOf(TonCenterQuery, reader["toncenter"].cursor)

TonApiQuery == {i \in 1..indexed["tonapi"]:
                  reader["tonapi"].cursor # 0 => i < reader["tonapi"].cursor}
TonApiRows == PageOf(TonApiQuery, 0)

Page(p) == IF p = "toncenter" THEN TonCenterRows ELSE TonApiRows

\* An outgoing transfer of the window.
Outgoing(i) == chain[i].key # NoTransfer /\ InWindow(chain[i].time)

\* Nothing in an answer obliges its rows to be whole.  Some have a usable time;
\* some of these map to the transfer they are, because they have all it is proven
\* from, among it the Jetton wallet that TonAPI resolves; and the least logical
\* time that TonAPI's rows show may be that of any of them, or unusable (0).
Mapped(timed) == SUBSET {i \in timed: Outgoing(i)}
Oldest(p, timed) == IF p = "toncenter" THEN {0} ELSE timed \cup {0}

\* TonCenter's offset grows by a page; TonAPI's before_lt is the page's oldest.
NextCursor(p, oldest) == IF p = "toncenter" THEN reader[p].cursor + PageSize
                         ELSE oldest

\* Mutant: the second that opens the window is taken for one before it.
PastStartEarly(time) == time <= WindowStart

PastStart(time) == time < WindowStart

\* The enumeration after a page: it ends past the window's start, at a short or
\* empty page, and at the page cap; TonAPI's also at a page that leaves it no
\* before_lt, which it takes for the end of the history.  Rows without a usable
\* time are skipped, others map to nothing; neither stops it.
AfterPage(p, rows, timed, mapped, oldest) ==
  LET r == reader[p]
      past == \E i \in timed: PastStart(chain[i].time)
      short == Cardinality(rows) < PageSize
      blind == p = "tonapi" /\ oldest = 0 /\ ~past /\ ~short
      exhausted == ~past /\ (short \/ blind)
  IN  [pages |-> r.pages + 1,
       cursor |-> IF past \/ exhausted THEN r.cursor ELSE NextCursor(p, oldest),
       found |-> r.found \cup {<<r.pages + 1, i>>: i \in mapped},
       passed |-> r.passed \cup {i \in rows \ mapped: Outgoing(i)},
       exhausted |-> exhausted, past |-> past, blind |-> blind,
       done |-> past \/ exhausted \/ r.pages + 1 = MaxPages]

\* At its end TonAPI looks up what its event history suggests, which is any part
\* of what it has indexed, and adds what it had not found and can prove.
Suggested(found) == SUBSET {i \in 1..indexed["tonapi"]:
                              Outgoing(i) /\ \A f \in found: f[2] # i}
Discovered(hints) == {<<0, i>>: i \in hints}

TakesIn(p, after) ==
  IF p = "tonapi" /\ after.done
  THEN \E hints \in Suggested(after.found):
         reader' = [reader EXCEPT ![p] = [after EXCEPT !.found = @ \cup Discovered(hints)]]
  ELSE reader' = [reader EXCEPT ![p] = after]

ReadPage(p) ==
  /\ Reading(p)
  /\ \E timed \in SUBSET Page(p):
     \E mapped \in Mapped(timed): \E oldest \in Oldest(p, timed):
       TakesIn(p, AfterPage(p, Page(p), timed, mapped, oldest))
  /\ UNCHANGED <<chain, indexed, begun, payouts, collector, filters>>

\* A request fails, or its answer has no list of rows or a row that is no object,
\* or an amount or a logical time that is no number: the enumeration throws, and
\* the collection with it, and all it had found.
ReadFails(p) ==
  /\ Reading(p)
  /\ collector' = "failed"
  /\ reader' = [q \in Providers |-> Fresh]
  /\ UNCHANGED <<chain, indexed, begun, payouts, filters>>

----------------------------------------------------------------------------
\* The comparison.

Covered(r) == r.exhausted \/ r.past

Count(p, key) == Cardinality({f \in reader[p].found: chain[f[2]].key = key})

\* Mutant: the providers agree when the same identities occur.
AgreementOfKeys == \A k \in Keys: Count("toncenter", k) > 0 <=> Count("tonapi", k) > 0

Agreement == \A k \in Keys: Count("toncenter", k) = Count("tonapi", k)

Result ==
  CASE \E p \in Providers: ~Covered(reader[p]) -> "INCOMPLETE"
    [] ~Agreement -> "PROVIDER_DISAGREEMENT"
    [] \E k \in Expected: Count("toncenter", k) > 1 -> "DUPLICATE_PAYOUT"
    [] \E k \in Expected: Count("toncenter", k) = 0 -> "EXPECTED_MISSING"
    [] \E k \in Keys \ Expected: Count("toncenter", k) > 0 -> "UNEXPECTED_OUTGOING"
    [] OTHER -> "ZERO_UNEXPECTED"

Compare ==
  /\ collector = "reading"
  /\ \A p \in Providers: reader[p].done
  /\ collector' = Result
  /\ UNCHANGED <<chain, indexed, begun, payouts, reader, filters>>

HistoryNext ==
  \/ Extend \/ Begin \/ Compare
  \/ \E p \in Providers: Index(p) \/ ReadPage(p) \/ ReadFails(p)

HistorySpec == HistoryInit /\ [][HistoryNext]_historyVars

----------------------------------------------------------------------------
\* The transfers of the window that provider p had when the collection began.
Due(p) == {i \in 1..begun[p]: Outgoing(i)}

\* Those that its answers still owe: it showed none of them as a row that was
\* passed over, and did not leave TonAPI's search blind.
Owed(p) == {i \in Due(p): i \notin reader[p].passed /\ ~reader[p].blind}

\* An enumeration that calls the window covered has found every transfer its
\* provider had indexed when the collection began, although the chain grew and
\* the rows moved between its pages, pages overlap and before_lt may lag behind
\* them; only a row shown without its time or its parts, or a full TonAPI page
\* without a usable logical time, goes missing in silence
\* (finalizeWindowCoverage and both loops).
CoverageIsComplete ==
  \A p \in Providers:
    reader[p].done /\ Covered(reader[p]) =>
      \A i \in Owed(p): \E f \in reader[p].found: f[2] = i

\* ZERO_UNEXPECTED is a statement about the chain: whatever either provider had
\* indexed when the collection began and showed readably is one payout of the
\* campaign, none of them was paid twice, and each was paid, although one
\* provider may leave a transfer out and the other list it twice
\* (coordinateDualProviderEnumeration).
ZeroUnexpectedIsTrue ==
  collector = "ZERO_UNEXPECTED" =>
    /\ \A p \in Providers: \A i \in Owed(p):
         /\ chain[i].key \in Expected
         /\ \A j \in Owed(p): chain[j].key = chain[i].key => i = j
    /\ \A k \in Expected: \E i \in DOMAIN chain:
         chain[i].key = k /\ InWindow(chain[i].time)

=============================================================================
