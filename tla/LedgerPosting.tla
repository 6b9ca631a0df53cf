--------------------------- MODULE LedgerPosting ---------------------------
(***************************************************************************)
(* Posting to the ledger: packages/ledger/src/posting.ts and reverse.ts.    *)
(* A session is a database transaction that posts one command: it checks    *)
(* for an earlier posting under the idempotency key, locks the balance rows *)
(* of its accounts in order, inserts the header under three unique indexes  *)
(* and then its entries and the projections, READ COMMITTED.  What a        *)
(* session has written the others see when it commits; until then they see  *)
(* its row locks, and an insert that would duplicate an index entry of it   *)
(* waits.  A session may be rolled back at any point, by an error of its    *)
(* caller or a lost connection, and be retried with the same command.       *)
(***************************************************************************)
EXTENDS Integers, Sequences, FiniteSetsExt

CONSTANTS
  Sessions,   \* database sessions
  Accounts,   \* ledger accounts, in the order their rows are locked
  Normal,     \* Normal[a]: 1 for a DEBIT-normal account, -1 for a CREDIT-normal one
  Protected,  \* the user buckets that must not become negative
  Commands,   \* the commands callers post
  Key,        \* Key[c]: idempotency scope and key
  Ref,        \* Ref[c]: transaction type and business reference
  Debit,      \* Debit[c][a]: what c debits (or, negative, credits) to a
  Reverses,   \* Reverses[c]: the command whose transaction c reverses
  NoCommand,  \* no command
  MaxTime     \* bound on the clock

ASSUME LedgerAssumption ==
  /\ Accounts \subseteq Nat /\ IsFiniteSet(Accounts)
  /\ Protected \subseteq Accounts
  /\ Normal \in [Accounts -> { -1, 1 }]
  /\ Debit \in [Commands -> [Accounts -> Int]]
  /\ Reverses \in [Commands -> Commands \cup { NoCommand }]
  /\ NoCommand \notin Commands
  /\ MaxTime \in Nat

VARIABLES
  clock,    \* now(), which is the start of the transaction
  history,  \* the committed ledger_transactions, in the order of their commits
  balance,  \* balance[a]: the projection of a: balance, version and last transaction
  session   \* session[s]: where the transaction of s stands

ledgerVars == << clock, history, balance, session >>

Pcs == { "idle", "check", "lock", "insert", "update" }

Answers == { "none", "posted", "recovered", "refused" }

\* seen[a]: the balance of a that was read under its lock; answer: what became
\* of the last command.
Session == [ pc : Pcs, cmd : Commands \cup { NoCommand }, at : 0 .. MaxTime,
             held : SUBSET Accounts, seen : [Accounts -> Int], answer : Answers ]

Projection == [ atomic : Int, version : Nat, last : Nat ]

LedgerTypeOK ==
  /\ clock \in 0 .. MaxTime
  /\ history \in Seq([ cmd : Commands, at : 0 .. MaxTime ])
  /\ balance \in [Accounts -> Projection]
  /\ session \in [Sessions -> Session]

Zero == [a \in Accounts |-> 0]

LedgerInit ==
  /\ clock = 0
  /\ history = << >>
  /\ balance = [a \in Accounts |-> [ atomic |-> 0, version |-> 0, last |-> 0 ]]
  /\ session = [s \in Sessions |->
       [ pc |-> "idle", cmd |-> NoCommand, at |-> 0, held |-> {}, seen |-> Zero,
         answer |-> "none" ]]

-----------------------------------------------------------------------------
(* Commands.                                                               *)

Touches(c) == { a \in Accounts : Debit[c][a] # 0 }

\* What c adds to the balance of a, by the normal side of a.
Delta(c, a) == Normal[a] * Debit[c][a]

Balanced(c) ==
  /\ SumFunctionOnSet(Debit[c], Accounts) = 0
  /\ Touches(c) # {}

\* The financial identity of a command: everything but its key.
SameIntent(c, d) ==
  Ref[c] = Ref[d] /\ Debit[c] = Debit[d] /\ Reverses[c] = Reverses[d]

\* A linked reversal swaps exactly the entries of a posted original.
ExactReversal(c) ==
  Reverses[c] # NoCommand =>
    /\ \E i \in DOMAIN history : history[i].cmd = Reverses[c]
    /\ \A a \in Accounts : Debit[c][a] = - Debit[Reverses[c]][a]

\* The unique indexes of ledger_transactions, in the order in which an insert
\* meets them: idempotency key, business reference, one reversal per original.
Indexes == 1 .. 3

Clash(n, c, d) ==
  CASE n = 1 -> Key[c] = Key[d]
    [] n = 2 -> Ref[c] = Ref[d]
    [] n = 3 -> Reverses[c] = Reverses[d] /\ Reverses[c] # NoCommand

-----------------------------------------------------------------------------
(* A session.                                                              *)

Cmd(s) == session[s].cmd

At(s, pc) == session[s].pc = pc

\* What is committed, and what t has inserted, that clashes with s on index n.
Clashing(n, s) == { i \in DOMAIN history : Clash(n, history[i].cmd, Cmd(s)) }

Inserted(t, n, s) == t # s /\ At(t, "update") /\ Clash(n, Cmd(t), Cmd(s))

\* The insert of s passes the indexes before n.
Passes(n, s) ==
  \A m \in 1 .. n - 1 : Clashing(m, s) = {} /\ \A t \in Sessions : ~Inserted(t, m, s)

Goto(s, pc) == session' = [session EXCEPT ![s].pc = pc]

\* The transaction of s ends and gives up its locks.
Ends(s, answer) ==
  session' = [session EXCEPT ![s] =
    [ @ EXCEPT !.pc = "idle", !.held = {}, !.seen = Zero, !.at = 0, !.answer = answer ]]

\* BEGIN; the posting checks its entries.
Begin(s, c) ==
  /\ At(s, "idle")
  /\ Balanced(c)
  /\ session' = [session EXCEPT ![s] =
       [ @ EXCEPT !.pc = "check", !.cmd = c, !.at = clock, !.answer = "none" ]]
  /\ UNCHANGED << clock, history, balance >>

\* recoverByIdempotency, recoverByBusinessReference: transaction i answers, if
\* it has the same financial intent; else it is a conflict.
Recover(s, i) ==
  /\ Ends(s, IF SameIntent(history[i].cmd, Cmd(s)) THEN "recovered" ELSE "refused")
  /\ UNCHANGED << clock, history, balance >>

\* reverseLedgerTransaction found a reversal under another key, or the proposed
\* entries do not reverse the original.
CannotReverse(s) ==
  \/ ~ExactReversal(Cmd(s))
  \/ Clashing(3, s) \ Clashing(1, s) # {}

RefuseReversal(s) ==
  /\ At(s, "check") /\ CannotReverse(s)
  /\ Ends(s, "refused")
  /\ UNCHANGED << clock, history, balance >>

\* The fast path: the key was posted before.
FindPrior(s) ==
  /\ At(s, "check") /\ ~CannotReverse(s)
  /\ \E i \in Clashing(1, s) : Recover(s, i)

StartLocking(s) ==
  /\ At(s, "check") /\ ~CannotReverse(s)
  /\ Clashing(1, s) = {}
  /\ Goto(s, "lock")
  /\ UNCHANGED << clock, history, balance >>

Unlocked(a) == \A t \in Sessions : a \notin session[t].held

\* Mutant: SELECT without FOR UPDATE.
LockUnawaited(s, a) ==
  /\ At(s, "lock") /\ a \in Touches(Cmd(s)) \ session[s].held
  /\ \A b \in Touches(Cmd(s)) \ session[s].held : a <= b
  /\ session' = [session EXCEPT ![s].held = @ \cup { a },
                                ![s].seen[a] = balance[a].atomic]
  /\ UNCHANGED << clock, history, balance >>

\* Mutant: the rows are locked in the order of the entries.
LockAnyOrder(s, a) ==
  /\ At(s, "lock") /\ a \in Touches(Cmd(s)) \ session[s].held
  /\ Unlocked(a)
  /\ session' = [session EXCEPT ![s].held = @ \cup { a },
                                ![s].seen[a] = balance[a].atomic]
  /\ UNCHANGED << clock, history, balance >>

\* SELECT ... FOR UPDATE of the next balance row, which waits for its holder
\* and then reads what he committed.
Lock(s, a) ==
  /\ At(s, "lock") /\ a \in Touches(Cmd(s)) \ session[s].held
  /\ \A b \in Touches(Cmd(s)) \ session[s].held : a <= b
  /\ Unlocked(a)
  /\ session' = [session EXCEPT ![s].held = @ \cup { a },
                                ![s].seen[a] = balance[a].atomic]
  /\ UNCHANGED << clock, history, balance >>

After(s, a) == session[s].seen[a] + Delta(Cmd(s), a)

Overdraws(s) == \E a \in Touches(Cmd(s)) \cap Protected : After(s, a) < 0

\* NEGATIVE_PROTECTED_BALANCE.
RefuseOverdraft(s) ==
  /\ At(s, "lock") /\ session[s].held = Touches(Cmd(s)) /\ Overdraws(s)
  /\ Ends(s, "refused")
  /\ UNCHANGED << clock, history, balance >>

AllLocked(s) ==
  /\ At(s, "lock") /\ session[s].held = Touches(Cmd(s)) /\ ~Overdraws(s)
  /\ Goto(s, "insert")
  /\ UNCHANGED << clock, history, balance >>

\* Mutant: there is no index but the one on the key.
InsertByKey(s) ==
  /\ At(s, "insert") /\ Passes(2, s)
  /\ Goto(s, "update")
  /\ UNCHANGED << clock, history, balance >>

\* An insert waits for a session that has inserted a duplicate to end.
InsertHeader(s) ==
  /\ At(s, "insert") /\ Passes(4, s)
  /\ Goto(s, "update")
  /\ UNCHANGED << clock, history, balance >>

\* The first index with a duplicate fails the insert: back to the savepoint, and
\* recover by that index.  REVERSAL_CONFLICT is not recovered.
InsertConflicts(s) ==
  /\ At(s, "insert")
  /\ \E n \in Indexes : Passes(n, s) /\ \E i \in Clashing(n, s) :
       \/ n < 3 /\ Recover(s, i)
       \/ n = 3 /\ Ends(s, "refused") /\ UNCHANGED << clock, history, balance >>

\* Mutant: the last committer is taken for the last transaction.
ProjectedByCommit(a, s) ==
  [ atomic |-> After(s, a), version |-> balance[a].version + 1, last |-> Len(history) + 1 ]

\* The projection of a after the transaction of s; last follows posted_at, not
\* the order of the commits.
Projected(a, s) ==
  LET old == balance[a]
  IN  [ atomic  |-> After(s, a),
        version |-> old.version + 1,
        last    |-> IF old.last = 0 \/ session[s].at >= history[old.last].at
                      THEN Len(history) + 1 ELSE old.last ]

\* The entries and projections are written, and COMMIT.
Commit(s) ==
  /\ At(s, "update")
  /\ history' = Append(history, [ cmd |-> Cmd(s), at |-> session[s].at ])
  /\ balance' = [a \in Accounts |->
                   IF a \in Touches(Cmd(s)) THEN Projected(a, s) ELSE balance[a]]
  /\ Ends(s, "posted")
  /\ UNCHANGED clock

\* The caller's transaction fails, or the connection is lost.
Rollback(s) ==
  /\ ~At(s, "idle")
  /\ Ends(s, "none")
  /\ UNCHANGED << clock, history, balance >>

Tick ==
  /\ clock < MaxTime
  /\ clock' = clock + 1
  /\ UNCHANGED << history, balance, session >>

LedgerNext ==
  \/ \E s \in Sessions :
       \/ \E c \in Commands : Begin(s, c)
       \/ RefuseReversal(s) \/ FindPrior(s) \/ StartLocking(s)
       \/ \E a \in Accounts : Lock(s, a)
       \/ RefuseOverdraft(s) \/ AllLocked(s) \/ InsertHeader(s) \/ InsertConflicts(s)
       \/ Commit(s) \/ Rollback(s)
  \/ Tick

LedgerSpec == LedgerInit /\ [][LedgerNext]_ledgerVars

-----------------------------------------------------------------------------
(* Properties.                                                             *)

Touching(a) == { i \in DOMAIN history : a \in Touches(history[i].cmd) }

Moves(a) == [i \in DOMAIN history |-> Delta(history[i].cmd, a)]

Rebuilt(a) == SumFunctionOnSet(Moves(a), Touching(a))

\* The projections are what projection.ts rebuilds from the entries alone: the
\* sum, the number of transactions, and a last one that nothing was posted after.
ProjectionIsHistory ==
  \A a \in Accounts :
    /\ balance[a].atomic = Rebuilt(a)
    /\ balance[a].version = Cardinality(Touching(a))
    /\ Touching(a) # {} =>
         /\ balance[a].last \in Touching(a)
         /\ \A i \in Touching(a) : history[i].at <= history[balance[a].last].at

\* However callers race and retry, one transaction is posted for a key, for a
\* business reference, and as the reversal of an original.
PostedOnce ==
  \A i, j \in DOMAIN history :
    (\E n \in Indexes : Clash(n, history[i].cmd, history[j].cmd)) => i = j

\* By the entries themselves no user bucket is ever overdrawn, and the books
\* balance.
NeverOverdrawn ==
  /\ \A a \in Protected : Rebuilt(a) >= 0
  /\ SumFunctionOnSet([a \in Accounts |-> Normal[a] * Rebuilt(a)], Accounts) = 0

\* A caller who is told that his command is posted finds its financial intent
\* in the ledger, whoever posted it.
AnswersAreTrue ==
  \A s \in Sessions : session[s].answer \in { "posted", "recovered" } =>
    \E i \in DOMAIN history : SameIntent(history[i].cmd, Cmd(s))

\* s waits for t: for the next row it locks, or for the end of its insert.
WaitsFor(s, t) ==
  \/ /\ At(s, "lock") /\ session[s].held # Touches(Cmd(s))
     /\ Min(Touches(Cmd(s)) \ session[s].held) \in session[t].held
  \/ /\ At(s, "insert")
     /\ \E n \in Indexes : Passes(n, s) /\ Clashing(n, s) = {} /\ Inserted(t, n, s)

\* Postings that share accounts, keys and references never wait in a circle:
\* of any set of sessions, one waits for none of the others.
NoDeadlock ==
  \A S \in SUBSET Sessions : S # {} => \E s \in S : \A t \in S : ~WaitsFor(s, t)

=============================================================================
