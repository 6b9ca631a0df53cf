---------------------------- MODULE PayoutProof ----------------------------
(***************************************************************************)
(* How a payout is confirmed from two providers: the external message at   *)
(* the hot wallet, the transfer at its Jetton wallet, the credit at the    *)
(* recipient's, each a transaction of its own at its own time.  TonCenter  *)
(* is asked for the newest transactions of one account after the other;    *)
(* TonAPI for one message and then for its trace.  Each answer is of a      *)
(* later moment than the one before, and of a provider that may lag.       *)
(***************************************************************************)
EXTENDS Naturals, Sequences, FiniteSets

CONSTANTS
  Messages,          \* external messages, one of each attempt: its query id is unique
  Foreign,           \* of a transaction that no message of ours caused
  RecentLimit,       \* the 50 transactions of getTransactions
  MaxEvents          \* bound: transactions

ASSUME ProofAssumption ==
  /\ {RecentLimit, MaxEvents} \subseteq Nat /\ RecentLimit > 0
  /\ Foreign \notin Messages

Sources == {"toncenter", "tonapi"}
Accounts == {"hot", "sender", "recipient"}

VARIABLES
  events,            \* transactions of the three accounts, in their order
  followed,          \* [Sources -> how many of them the provider has]
  look,              \* the confirmation under way
  confirmed,         \* messages whose payout both providers have proven
  empty              \* the confirmation that ended last, if it proved nothing

proofVars == <<events, followed, look, confirmed, empty>>

Idle == [message |-> Foreign, source |-> "toncenter", stage |-> "idle",
         second |-> FALSE, since |-> [s \in Sources |-> 0]]

ProofInit ==
  /\ events = <<>> /\ followed = [s \in Sources |-> 0]
  /\ look = Idle /\ confirmed = {} /\ empty = Idle

----------------------------------------------------------------------------
\* The chain: each transaction succeeds or fails, and a transfer whose credit
\* fails comes back to the sender's Jetton wallet.  A transfer is late if its
\* transaction at the sender's Jetton wallet is more than 120 seconds from the
\* hot wallet's, each by its own block's clock.

Has(account, m, ok) == \E i \in DOMAIN events:
  /\ events[i].account = account /\ events[i].message = m
  /\ events[i].ok = ok /\ ~events[i].bounced

Done(account, m) == Has(account, m, TRUE) \/ Has(account, m, FALSE)

\* What may happen next to m, and the transaction that does.
Enabled(account, m) ==
  /\ ~Done(account, m)
  /\ account = "sender" => Has("hot", m, TRUE)
  /\ account = "recipient" => Has("sender", m, TRUE)

Returns(m) == /\ Has("recipient", m, FALSE)
              /\ \A i \in DOMAIN events: events[i].message = m => ~events[i].bounced

Transact ==
  /\ Len(events) < MaxEvents
  /\ \E m \in Messages \cup {Foreign}, account \in Accounts, ok, bounced, late \in BOOLEAN:
       /\ \/ m = Foreign /\ ok /\ ~bounced
          \/ m # Foreign /\ Enabled(account, m) /\ ~bounced
          \/ m # Foreign /\ Returns(m) /\ account = "sender" /\ ok /\ bounced
       /\ late => m # Foreign /\ account = "sender" /\ ~bounced
       /\ events' = Append(events, [account |-> account, message |-> m,
                                    ok |-> ok, bounced |-> bounced, late |-> late])
  /\ UNCHANGED <<followed, look, confirmed, empty>>

Follow(s) ==
  /\ followed[s] < Len(events)
  /\ followed' = [followed EXCEPT ![s] = @ + 1]
  /\ UNCHANGED <<events, look, confirmed, empty>>

----------------------------------------------------------------------------
\* What a provider answers.

Of(s, account) == {i \in 1..followed[s]: events[i].account = account}

\* The newest RecentLimit transactions of an account.
Recent(s, account) == {i \in Of(s, account):
  Cardinality({j \in Of(s, account): j > i}) < RecentLimit}

\* Mutant: any transaction of the message will do.
ShowsAny(S, m) == \E i \in S: events[i].message = m

\* A successful transaction, not a bounce, that carries m's transfer.
Shows(S, m) == \E i \in S: /\ events[i].message = m
                           /\ events[i].ok /\ ~events[i].bounced

\* Mutant: TonAPI's answer is searched among the newest transactions as well.
ReadsRecent(s, stage, m) == Shows(Recent(s, stage), m)

\* At the sender's Jetton wallet TonCenter's search skips a transaction that is
\* late, at the other accounts none is.
Correlated(i) == ~events[i].late

\* TonCenter's three requests, TonAPI's first.
Reads(s, stage, m) ==
  Shows(IF s = "toncenter" THEN {i \in Recent(s, stage): Correlated(i)} ELSE Of(s, stage), m)

\* TonAPI's second request returns the trace with what of it there is.
ReadsTrace(m) == \A account \in {"sender", "recipient"}: Shows(Of("tonapi", account), m)

----------------------------------------------------------------------------
\* The confirmation asks the primary provider and, when that has the proof, the
\* other one; either may be configured as the primary.

Confirm(m, primary) ==
  /\ look.stage = "idle" /\ m \notin confirmed
  /\ look' = [message |-> m, source |-> primary, stage |-> "hot",
              second |-> FALSE, since |-> followed]
  /\ empty' = Idle
  /\ UNCHANGED <<events, followed, confirmed>>

\* Nothing was proven: the withdrawal waits in RECONCILE_REQUIRED.
ComesBackEmpty ==
  /\ look' = Idle
  /\ empty' = look
  /\ UNCHANGED confirmed

\* The proof is COMPLETE: on to the other provider, or done.
Completes ==
  IF look.second
  THEN look' = Idle /\ confirmed' = confirmed \cup {look.message} /\ UNCHANGED empty
  ELSE /\ \E other \in Sources \ {look.source}:
            look' = [look EXCEPT !.source = other, !.stage = "hot", !.second = TRUE]
       /\ UNCHANGED <<confirmed, empty>>

AskTonCenter ==
  /\ look.stage # "idle" /\ look.source = "toncenter"
  /\ IF ~Reads("toncenter", look.stage, look.message)
     THEN ComesBackEmpty
     ELSE \/ look.stage = "recipient" /\ Completes
          \/ /\ look.stage # "recipient"
             /\ look' = [look EXCEPT !.stage = IF @ = "hot" THEN "sender" ELSE "recipient"]
             /\ UNCHANGED <<confirmed, empty>>
  /\ UNCHANGED <<events, followed>>

AskTonApi ==
  /\ look.stage # "idle" /\ look.source = "tonapi"
  /\ \/ look.stage = "hot" /\ Reads("tonapi", "hot", look.message)
        /\ look' = [look EXCEPT !.stage = "trace"] /\ UNCHANGED <<confirmed, empty>>
     \/ look.stage = "hot" /\ ~Reads("tonapi", "hot", look.message) /\ ComesBackEmpty
     \/ look.stage = "trace" /\ ReadsTrace(look.message) /\ Completes
     \/ look.stage = "trace" /\ ~ReadsTrace(look.message) /\ ComesBackEmpty
  /\ UNCHANGED <<events, followed>>

\* A request fails: the activity throws, and Temporal starts it again.  Or an
\* answer lacks what the search reads of it, a message's body or the Jetton wallet
\* of an account: the search finds nothing, and `empty` does not say so.
AskFails ==
  /\ look.stage # "idle"
  /\ look' = Idle
  /\ UNCHANGED <<events, followed, confirmed, empty>>

ProofNext ==
  \/ Transact \/ AskTonCenter \/ AskTonApi \/ AskFails
  \/ \E s \in Sources: Follow(s)
  \/ \E m \in Messages, s \in Sources: Confirm(m, s)

ProofSpec == ProofInit /\ [][ProofNext]_proofVars

----------------------------------------------------------------------------
Credited(m) == Has("recipient", m, TRUE)

\* A payout both providers have proven was credited to its recipient, though the
\* requests saw different moments of the chain and a transfer may have come back
\* (findTransactionsByQueryId of both, confirmAndSettle).
ProofIsDelivered == \A m \in confirmed: Credited(m)

\* Was m credited among the first n transactions?
CreditedBy(n, m) == \E i \in 1..n:
  events[i].account = "recipient" /\ events[i].message = m /\ events[i].ok

\* A confirmation that proves nothing, with whole answers, says little: the
\* provider it failed at had not seen the credit when it began; or it is
\* TonCenter, and has at least RecentLimit newer transactions of an account, or
\* stopped at the sender's Jetton wallet, where the transfer was late
\* (findTransactionsByQueryId of both; the one with 50 rows and 120 seconds).
EmptyMeansUnseen ==
  empty.stage # "idle" =>
    \/ ~CreditedBy(empty.since[empty.source], empty.message)
    \/ /\ empty.source = "toncenter"
       /\ \E i \in DOMAIN events:
            /\ events[i].message = empty.message
            /\ Cardinality({j \in DOMAIN events:
                 j > i /\ events[j].account = events[i].account}) >= RecentLimit
    \/ /\ empty.source = "toncenter" /\ empty.stage = "sender"
       /\ \E i \in DOMAIN events: events[i].message = empty.message /\ events[i].late

=============================================================================
