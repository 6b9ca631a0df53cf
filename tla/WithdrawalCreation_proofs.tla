--------------------- MODULE WithdrawalCreation_proofs ---------------------
(***************************************************************************)
(* However the transactions of createWithdrawalQuote and                    *)
(* createWithdrawalFromQuote interleave, a quote is consumed by one          *)
(* withdrawal and a user's key names one, the volumes are within the caps,   *)
(* and no circle of transactions waits for each other: for any number of     *)
(* sessions, users, quotes and keys, any limits and any length of time.      *)
(***************************************************************************)
EXTENDS WithdrawalCreation, FiniteLemmas

USE CreationAssumption

-----------------------------------------------------------------------------
(* The inductive invariant.                                                *)

Rows == Quotes \cup Users \cup
        { Period(Scopes[n], q, h) : n \in Nat, q \in Quotes, h \in Nat }

Transaction ==
  [ pc : Pcs, call : { "quote", "create" }, q : Quotes \cup { NoQuote },
    key : Keys \cup { NoKey }, asOf : Nat, n : Nat, held : SUBSET Rows,
    answer : Answers ]

TypeOK ==
  /\ hour \in Nat
  /\ status \in [Quotes -> Statuses]
  /\ withdrawals \subseteq [ q : Quotes, key : Keys, asOf : Nat ]
  /\ session \in [Sessions -> Transaction]

Running(x) == x.pc # "idle"

Creating(x, pcs) == x.call = "create" /\ x.pc \in pcs

\* A transaction in progress has its arguments, and a creation holds the quote
\* from its read on and the user from the wallet gate on.
Proper(x) ==
  /\ Running(x) => x.q \in Quotes
  /\ Running(x) /\ x.call = "create" => x.key \in Keys
  /\ x.call = "quote" => x.pc \in { "idle", "user", "volume", "commit" }
  /\ Creating(x, { "user", "insert", "volume", "commit" }) => x.q \in x.held
  /\ Creating(x, { "insert", "volume", "commit" }) => Owner[x.q] \in x.held

\* After its insert, no committed withdrawal has its quote or its user's key.
Fresh(x) ==
  Creating(x, { "volume", "commit" }) =>
    \A w \in withdrawals : w.q # x.q /\ ~(Owner[w.q] = Owner[x.q] /\ w.key = x.key)

\* A quote that is being created does not exist for anybody else.
Unquoted(x) == Running(x) /\ x.call = "quote" => status[x.q] = "NONE"

\* Row locks are exclusive.
Apart(x, y) ==
  /\ x.held \cap y.held = {}
  /\ Running(x) /\ Running(y) /\ (x.call = "quote" \/ y.call = "quote") => x.q # y.q

SessionInv ==
  \A s \in Sessions :
    /\ Proper(session[s]) /\ Fresh(session[s]) /\ Unquoted(session[s])
    /\ \A t \in Sessions : t # s => Apart(session[s], session[t])

CreationInv == TypeOK /\ SessionInv /\ OneWithdrawalEach

-----------------------------------------------------------------------------
(* The next state of one session.                                          *)

LEMMA ApartIsSymmetric ==
  ASSUME NEW x, NEW y, Apart(x, y) PROVE Apart(y, x)
  BY DEF Apart

\* A step that moves one session and writes nothing.
LEMMA Moves ==
  ASSUME CreationInv, UNCHANGED << status, withdrawals >>, hour' \in Nat,
         NEW s \in Sessions, NEW x \in Transaction, session' = [session EXCEPT ![s] = x],
         Proper(x), Fresh(x), Unquoted(x),
         \A t \in Sessions : t # s => Apart(x, session[t])
  PROVE  CreationInv'
<1>1. TypeOK'
  BY DEF CreationInv, TypeOK
<1>2. session'[s] = x /\ \A t \in Sessions : t # s => session'[t] = session[t]
  BY DEF CreationInv, TypeOK
<1>3. ASSUME NEW t \in Sessions
      PROVE  /\ Proper(session'[t]) /\ Fresh(session[t])' /\ Unquoted(session[t])'
             /\ \A r \in Sessions : r # t => Apart(session'[t], session'[r])
  <2>1. CASE t = s
    BY <1>2, <2>1 DEF Fresh, Unquoted
  <2>2. CASE t # s
    <3>1. Proper(session[t]) /\ Fresh(session[t]) /\ Unquoted(session[t])
      BY DEF CreationInv, SessionInv
    <3>2. Apart(session[t], x)
      BY <2>2, ApartIsSymmetric
    <3>3. \A r \in Sessions : r # t => Apart(session'[t], session'[r])
      BY <1>2, <2>2, <3>2 DEF CreationInv, SessionInv
    <3> QED
      BY <1>2, <2>2, <3>1, <3>3 DEF Fresh, Unquoted
  <2> QED
    BY <2>1, <2>2
<1>4. SessionInv'
  BY <1>3 DEF SessionInv, Proper, Fresh, Unquoted, Apart, Running, Creating
<1>5. OneWithdrawalEach'
  BY DEF CreationInv, OneWithdrawalEach
<1> QED
  BY <1>1, <1>4, <1>5 DEF CreationInv

\* The transaction goes on with its arguments, and locks at most a free row.
LEMMA GoesOn ==
  ASSUME CreationInv, UNCHANGED << hour, status, withdrawals >>,
         NEW s \in Sessions, Running(session[s]),
         NEW x \in Transaction, session' = [session EXCEPT ![s] = x],
         x.q = session[s].q, x.call = session[s].call,
         Proper(x), Fresh(x), NEW row,
         x.held \subseteq session[s].held \cup { row }, Free(row) \/ x.held = session[s].held
  PROVE  CreationInv'
<1>1. Unquoted(x)
  BY DEF CreationInv, SessionInv, Unquoted, Running
<1>2. ASSUME NEW t \in Sessions, t # s PROVE Apart(x, session[t])
  <2>1. Apart(session[s], session[t])
    BY <1>2 DEF CreationInv, SessionInv
  <2>2. x.held \cap session[t].held = {}
    BY <2>1 DEF Free, Apart
  <2> QED
    BY <2>1, <2>2 DEF Apart, Running
<1>3. hour' \in Nat
  BY DEF CreationInv, TypeOK
<1> QED
  BY <1>1, <1>2, <1>3, Moves

\* The session after its transaction.
Ended(s, answer) ==
  [ session[s] EXCEPT !.pc = "idle", !.asOf = 0, !.n = 1, !.held = {}, !.answer = answer ]

LEMMA EndedIsIdle ==
  ASSUME TypeOK, NEW s \in Sessions, NEW answer \in Answers
  PROVE  /\ Ended(s, answer) \in Transaction
         /\ Ended(s, answer).pc = "idle" /\ Ended(s, answer).held = {}
<1> DEFINE w == [ session[s] EXCEPT !.pc = "idle" ]
           x == [ w EXCEPT !.asOf = 0 ]
           y == [ x EXCEPT !.n = 1 ]
           z == [ y EXCEPT !.held = {} ]
<1>1. w \in Transaction /\ w.pc = "idle"
  <2>1. session[s] \in Transaction
    BY DEF TypeOK
  <2> QED
    BY <2>1 DEF Transaction, Pcs
<1>2. Ended(s, answer) = [ z EXCEPT !.answer = answer ]
  BY DEF Ended
<1> HIDE DEF w
<1>3. x \in Transaction /\ x.pc = "idle"
  BY <1>1 DEF Transaction
<1> HIDE DEF x
<1>4. y \in Transaction /\ y.pc = "idle"
  BY <1>3 DEF Transaction
<1> HIDE DEF y
<1>5. z \in Transaction /\ z.pc = "idle" /\ z.held = {}
  BY <1>4 DEF Transaction
<1> HIDE DEF z
<1> QED
  BY <1>2, <1>5 DEF Transaction

\* What an idle session without locks is to the invariant: nothing.
LEMMA IdleIsNothing ==
  ASSUME NEW x \in Transaction, x.pc = "idle", x.held = {}
  PROVE  /\ Proper(x) /\ Fresh(x) /\ Fresh(x)' /\ Unquoted(x) /\ Unquoted(x)'
         /\ \A y : Apart(x, y)
  BY DEF Proper, Fresh, Unquoted, Apart, Running, Creating

LEMMA EndKeeps ==
  ASSUME CreationInv, NEW s \in Sessions, NEW answer \in Answers, Ends(s, answer), Unwritten
  PROVE  CreationInv'
<1>1. session' = [session EXCEPT ![s] = Ended(s, answer)]
  BY DEF Ends, Ended
<1>2. /\ Ended(s, answer) \in Transaction
      /\ Ended(s, answer).pc = "idle" /\ Ended(s, answer).held = {}
  BY EndedIsIdle DEF CreationInv
<1>3. UNCHANGED << status, withdrawals >> /\ hour' \in Nat
  BY DEF Unwritten, CreationInv, TypeOK
<1> HIDE DEF Ended
<1> QED
  BY <1>1, <1>2, <1>3, IdleIsNothing, Moves

-----------------------------------------------------------------------------
(* The statements.                                                         *)

LEMMA CallKeeps ==
  ASSUME CreationInv, NEW s \in Sessions, NEW q \in Quotes,
         CallQuote(s, q) \/ \E key \in Keys : CallCreate(s, q, key)
  PROVE  CreationInv'
<1>1. Idle \in Transaction /\ Idle.pc = "idle" /\ Idle.call = "quote" /\ Idle.held = {}
  BY DEF Idle, Transaction, Pcs, Answers
<1>2. UNCHANGED << status, withdrawals >> /\ hour' \in Nat
  BY DEF CallQuote, CallCreate, Unwritten, CreationInv, TypeOK
<1>3. CASE CallQuote(s, q)
  <2> DEFINE x == [ Idle EXCEPT !.pc = "user", !.q = q ]
  <2>1. /\ x \in Transaction /\ x.pc = "user" /\ x.q = q /\ x.call = "quote"
        /\ x.held = {}
    BY <1>1 DEF Transaction, Pcs
  <2>2. session' = [session EXCEPT ![s] = x]
    BY <1>3 DEF CallQuote
  <2> HIDE DEF x
  <2>3. Proper(x) /\ Fresh(x) /\ Unquoted(x)
    BY <1>3, <2>1 DEF CallQuote, Proper, Fresh, Unquoted, Running, Creating
  <2>4. \A t \in Sessions : t # s => Apart(x, session[t])
    BY <1>3, <2>1 DEF CallQuote, Apart, Running, At, Quote
  <2> QED
    BY <1>2, <2>1, <2>2, <2>3, <2>4, Moves
<1>4. ASSUME NEW key \in Keys, CallCreate(s, q, key) PROVE CreationInv'
  <2> DEFINE y == [ Idle EXCEPT !.pc = "key", !.call = "create" ]
             z == [ y EXCEPT !.q = q ]
             x == [ z EXCEPT !.key = key ]
  <2>1. y \in Transaction /\ y.pc = "key" /\ y.call = "create" /\ y.held = {}
    BY <1>1 DEF Transaction, Pcs
  <2>2. session' = [session EXCEPT ![s] = x]
    BY <1>4 DEF CallCreate
  <2> HIDE DEF y
  <2>3. z \in Transaction /\ z.pc = "key" /\ z.call = "create" /\ z.q = q /\ z.held = {}
    BY <2>1 DEF Transaction
  <2> HIDE DEF z
  <2>4. /\ x \in Transaction /\ x.pc = "key" /\ x.call = "create" /\ x.q = q
        /\ x.key = key /\ x.held = {}
    BY <2>3 DEF Transaction
  <2> HIDE DEF x
  <2>5. Proper(x) /\ Fresh(x) /\ Unquoted(x)
    BY <2>4 DEF Proper, Fresh, Unquoted, Running, Creating
  <2>6. \A t \in Sessions : t # s => Apart(x, session[t])
    BY <1>4, <2>4 DEF CallCreate, CreationInv, SessionInv, Unquoted, Apart, Running
  <2> QED
    BY <1>2, <2>2, <2>4, <2>5, <2>6, Moves
<1> QED
  BY <1>3, <1>4

\* A statement that only moves on: the replay and the insert that find nothing.
LEMMA PcKeeps ==
  ASSUME CreationInv, NEW s \in Sessions, NEW pc \in Pcs, Unwritten,
         session' = [session EXCEPT ![s].pc = pc],
         \/ At(s, "key") /\ pc = "quote"
         \/ /\ At(s, "insert") /\ pc = "volume"
            /\ UnderKey(s) = {} /\ \A w \in withdrawals : w.q # Quote(s)
  PROVE  CreationInv'
<1> DEFINE x == [ session[s] EXCEPT !.pc = pc ]
<1>1. session[s] \in Transaction /\ Proper(session[s])
  BY DEF CreationInv, TypeOK, SessionInv
<1>2. /\ x \in Transaction /\ x.pc = pc /\ x.q = session[s].q
      /\ x.call = session[s].call /\ x.key = session[s].key /\ x.held = session[s].held
  BY <1>1 DEF Transaction
<1>3. session' = [session EXCEPT ![s] = x]
  OBVIOUS
<1> HIDE DEF x
<1>4. Proper(x)
  BY <1>1, <1>2 DEF Proper, Running, Creating, At
<1>5. Fresh(x)
  BY <1>2 DEF Fresh, Creating, UnderKey, Quote
<1>6. UNCHANGED << hour, status, withdrawals >> /\ Running(session[s])
  BY DEF Unwritten, At, Running
<1> QED
  BY <1>2, <1>3, <1>4, <1>5, <1>6, GoesOn

LEMMA LockQuoteKeeps ==
  ASSUME CreationInv, NEW s \in Sessions, LockQuote(s) PROVE CreationInv'
<1>1. CASE Locked(s, Quote(s), "user")
  <2> DEFINE y == [ session[s] EXCEPT !.pc = "user" ]
             x == [ y EXCEPT !.held = session[s].held \cup { Quote(s) } ]
  <2>1. /\ session[s] \in Transaction /\ Proper(session[s]) /\ At(s, "quote")
        /\ Free(Quote(s))
    BY DEF LockQuote, CreationInv, TypeOK, SessionInv
  <2>2. Quote(s) \in Quotes /\ session[s].call = "create" /\ session[s].key \in Keys
    BY <2>1 DEF Proper, Running, At, Transaction, Quote
  <2>3. session' = [session EXCEPT ![s] = x]
    BY <1>1 DEF Locked
  <2>4. /\ y \in Transaction /\ y.pc = "user" /\ y.q = Quote(s)
        /\ y.call = "create" /\ y.key = session[s].key
    BY <2>1, <2>2 DEF Transaction, Pcs, Quote
  <2> HIDE DEF y
  <2>5. session[s].held \cup { Quote(s) } \subseteq Rows
    BY <2>1, <2>2 DEF Transaction, Rows
  <2>6. /\ x \in Transaction /\ x.pc = "user" /\ x.q = Quote(s)
        /\ x.call = "create" /\ x.key = session[s].key
        /\ x.held = session[s].held \cup { Quote(s) }
    BY <2>4, <2>5 DEF Transaction
  <2> HIDE DEF x
  <2>7. Proper(x) /\ Fresh(x)
    BY <2>2, <2>6 DEF Proper, Fresh, Running, Creating
  <2>8. UNCHANGED << hour, status, withdrawals >> /\ Running(session[s])
    BY <2>1 DEF LockQuote, Unwritten, At, Running
  <2> QED
    BY <2>1, <2>2, <2>3, <2>6, <2>7, <2>8, GoesOn DEF Quote
<1>2. CASE \E answer \in Answers : Ends(s, answer)
  BY <1>2, EndKeeps DEF LockQuote
<1> QED
  BY <1>1, <1>2 DEF LockQuote, Answers

LEMMA LockUserKeeps ==
  ASSUME CreationInv, NEW s \in Sessions, LockUser(s) PROVE CreationInv'
<1> DEFINE user == Owner[Quote(s)]
           pc == IF session[s].call = "create" THEN "insert" ELSE "volume"
           z == [ session[s] EXCEPT !.held = session[s].held \cup { user } ]
           y == [ z EXCEPT !.asOf = hour ]
           x == [ y EXCEPT !.pc = pc ]
<1>1. session[s] \in Transaction /\ Proper(session[s]) /\ At(s, "user") /\ Free(user)
  BY DEF LockUser, CreationInv, TypeOK, SessionInv
<1>2. session' = [session EXCEPT ![s] = x]
  BY DEF LockUser
<1>3. Quote(s) \in Quotes /\ user \in Rows
  BY <1>1 DEF Proper, Running, At, Quote, Rows, Users
<1>4. /\ pc \in Pcs /\ hour \in Nat
      /\ session[s].call = "create" => pc = "insert"
      /\ session[s].call = "quote" => pc = "volume"
  BY DEF Pcs, CreationInv, TypeOK
<1> HIDE DEF user, pc
<1>5. /\ z \in Transaction /\ z.q = Quote(s) /\ z.call = session[s].call
      /\ z.key = session[s].key /\ z.held = session[s].held \cup { user }
  BY <1>1, <1>3 DEF Transaction, Quote
<1> HIDE DEF z
<1>6. /\ y \in Transaction /\ y.q = Quote(s) /\ y.call = session[s].call
      /\ y.key = session[s].key /\ y.held = session[s].held \cup { user }
  BY <1>4, <1>5 DEF Transaction
<1> HIDE DEF y
<1>7. /\ x \in Transaction /\ x.q = Quote(s) /\ x.call = session[s].call /\ x.pc = pc
      /\ x.key = session[s].key /\ x.held = session[s].held \cup { user }
  BY <1>4, <1>6 DEF Transaction
<1> HIDE DEF x
<1>8. Proper(x) /\ Fresh(x)
  BY <1>1, <1>3, <1>4, <1>7
  DEF Proper, Fresh, Running, Creating, At, Quote, user, Transaction
<1>9. UNCHANGED << hour, status, withdrawals >> /\ Running(session[s])
  BY <1>1 DEF LockUser, Unwritten, At, Running
<1> QED
  BY <1>1, <1>2, <1>7, <1>8, <1>9, GoesOn DEF Quote

LEMMA LockPeriodKeeps ==
  ASSUME CreationInv, NEW s \in Sessions, LockPeriod(s) PROVE CreationInv'
<1> DEFINE pc == IF session[s].n = 4 THEN "commit" ELSE "volume"
           period == NextPeriod(s)
           z == [ session[s] EXCEPT !.held = session[s].held \cup { period } ]
           y == [ z EXCEPT !.n = session[s].n + 1 ]
           x == [ y EXCEPT !.pc = pc ]
<1>1. /\ session[s] \in Transaction /\ Proper(session[s]) /\ Fresh(session[s])
      /\ At(s, "volume") /\ Free(period)
  BY DEF LockPeriod, CreationInv, TypeOK, SessionInv
<1>2. CASE Ends(s, "LIMIT_EXCEEDED")
  BY <1>2, EndKeeps DEF LockPeriod, Answers
<1>3. CASE session' = [session EXCEPT ![s] = x]
  <2>1. Quote(s) \in Quotes /\ session[s].n \in Nat /\ session[s].asOf \in Nat
    BY <1>1 DEF Proper, Running, At, Quote, Transaction
  <2>2. period \in Rows
    BY <2>1 DEF NextPeriod, Rows
  <2>3. pc \in { "commit", "volume" } /\ pc \in Pcs
    BY DEF Pcs
  <2> HIDE DEF pc, period
  <2>4. /\ z \in Transaction /\ z.q = Quote(s) /\ z.call = session[s].call
        /\ z.key = session[s].key /\ z.held = session[s].held \cup { period }
    BY <1>1, <2>2 DEF Transaction, Quote
  <2> HIDE DEF z
  <2>5. /\ y \in Transaction /\ y.q = Quote(s) /\ y.call = session[s].call
        /\ y.key = session[s].key /\ y.held = session[s].held \cup { period }
    BY <2>1, <2>4 DEF Transaction
  <2> HIDE DEF y
  <2>6. /\ x \in Transaction /\ x.q = Quote(s) /\ x.call = session[s].call /\ x.pc = pc
        /\ x.key = session[s].key /\ x.held = session[s].held \cup { period }
    BY <2>3, <2>5 DEF Transaction
  <2> HIDE DEF x
  <2>7. Proper(x)
    BY <1>1, <2>1, <2>3, <2>6 DEF Proper, Running, Creating, At, Quote
  <2>8. Fresh(x)
    BY <1>1, <2>3, <2>6 DEF Fresh, Creating, At, Quote
  <2>9. UNCHANGED << hour, status, withdrawals >> /\ Running(session[s])
    BY <1>1 DEF LockPeriod, Unwritten, At, Running
  <2> QED
    BY <1>1, <1>3, <2>6, <2>7, <2>8, <2>9, GoesOn DEF Quote
<1> QED
  BY <1>2, <1>3 DEF LockPeriod

-----------------------------------------------------------------------------
(* The commits, and what others do to a quote.                             *)

\* The commit of s: its locks are gone and its quote has another status.
LEMMA CommitKeeps ==
  ASSUME CreationInv, NEW s \in Sessions, CommitQuote(s) \/ CommitCreate(s)
  PROVE  CreationInv'
<1> DEFINE q == Quote(s)
<1>1. /\ session[s] \in Transaction /\ Proper(session[s]) /\ Fresh(session[s])
      /\ Unquoted(session[s]) /\ At(s, "commit") /\ q \in Quotes
  BY DEF CommitQuote, CommitCreate, CreationInv, TypeOK, SessionInv, Proper, Running, At, Quote
<1>2. PICK answer \in Answers : session' = [session EXCEPT ![s] = Ended(s, answer)]
  BY DEF CommitQuote, CommitCreate, Ends, Ended, Answers
<1>3. /\ Ended(s, answer) \in Transaction
      /\ Ended(s, answer).pc = "idle" /\ Ended(s, answer).held = {}
  BY EndedIsIdle DEF CreationInv
<1>4. /\ session'[s] = Ended(s, answer)
      /\ \A t \in Sessions : t # s => session'[t] = session[t]
  BY <1>2 DEF CreationInv, TypeOK
<1>5. PICK to \in { "OPEN", "CONSUMED" } : status' = [status EXCEPT ![q] = to]
  BY DEF CommitQuote, CommitCreate
<1> HIDE DEF Ended
<1>6. TypeOK'
  <2>1. session' \in [Sessions -> Transaction] /\ status' \in [Quotes -> Statuses]
    BY <1>1, <1>2, <1>3, <1>5 DEF CreationInv, TypeOK, Statuses
  <2>2. hour' = hour
    BY DEF CommitQuote, CommitCreate
  <2>3. withdrawals' \subseteq [ q : Quotes, key : Keys, asOf : Nat ]
    <3>1. CASE CommitQuote(s)
      BY <3>1 DEF CommitQuote, CreationInv, TypeOK
    <3>2. CASE CommitCreate(s)
      <4>1. session[s].key \in Keys /\ session[s].asOf \in Nat
        BY <1>1, <3>2 DEF CommitCreate, Proper, Running, At, Transaction
      <4> QED
        BY <1>1, <3>2, <4>1 DEF CommitCreate, CreationInv, TypeOK
    <3> QED
      BY <3>1, <3>2
  <2> QED
    BY <2>1, <2>2, <2>3 DEF CreationInv, TypeOK
<1>7. ASSUME NEW t \in Sessions, t # s
      PROVE  Unquoted(session[t])' /\ Fresh(session[t])'
  <2>1. /\ session'[t] = session[t] /\ Apart(session[s], session[t])
        /\ Proper(session[t]) /\ Fresh(session[t]) /\ Unquoted(session[t])
    BY <1>4, <1>7 DEF CreationInv, SessionInv
  <2>2. Unquoted(session[t])'
    <3>1. Running(session[t]) /\ session[t].call = "quote" => session[t].q # q
      BY <1>1, <2>1 DEF Apart, Running, At, Quote
    <3>2. Running(session[t]) => session[t].q \in Quotes
      BY <2>1 DEF Proper
    <3> QED
      BY <1>5, <2>1, <3>1, <3>2 DEF Unquoted, Running, CreationInv, TypeOK
  <2>3. Fresh(session[t])'
    <3>1. CASE CommitQuote(s)
      BY <2>1, <3>1 DEF CommitQuote, Fresh, Creating
    <3>2. CASE CommitCreate(s)
      <4>1. q \in session[s].held /\ Owner[q] \in session[s].held
        BY <1>1, <3>2 DEF CommitCreate, Proper, Creating, At, Quote
      <4>2. Creating(session[t], { "volume", "commit" }) =>
              session[t].q # q /\ Owner[session[t].q] # Owner[q]
        BY <2>1, <4>1 DEF Proper, Creating, Apart
      <4>3. \A w \in withdrawals' : w \in withdrawals \/ w.q = q
        BY <3>2 DEF CommitCreate
      <4> QED
        BY <2>1, <4>2, <4>3 DEF Fresh, Creating
    <3> QED
      BY <3>1, <3>2
  <2> QED
    BY <2>2, <2>3
<1>8. SessionInv'
  <2>1. ASSUME NEW t \in Sessions
        PROVE  /\ Proper(session'[t]) /\ Fresh(session[t])' /\ Unquoted(session[t])'
               /\ \A r \in Sessions : r # t => Apart(session'[t], session'[r])
    <3>1. CASE t = s
      BY <1>3, <1>4, <3>1, IdleIsNothing
    <3>2. CASE t # s
      <4>1. Proper(session'[t])
        BY <1>4, <3>2 DEF CreationInv, SessionInv
      <4>2. Fresh(session[t])' /\ Unquoted(session[t])'
        BY <1>4, <1>7, <3>2 DEF Fresh, Unquoted, Creating, Running
      <4>3. ASSUME NEW r \in Sessions, r # t PROVE Apart(session'[t], session'[r])
        <5>1. CASE r = s
          BY <1>3, <1>4, <5>1, IdleIsNothing, ApartIsSymmetric
        <5>2. CASE r # s
          BY <1>4, <3>2, <4>3, <5>2 DEF CreationInv, SessionInv
        <5> QED
          BY <5>1, <5>2
      <4> QED
        BY <4>1, <4>2, <4>3
    <3> QED
      BY <3>1, <3>2
  <2> QED
    BY <2>1 DEF SessionInv, Proper, Fresh, Unquoted, Apart, Running, Creating
<1>9. OneWithdrawalEach'
  <2>1. CASE CommitQuote(s)
    <3>1. status[q] = "NONE" /\ withdrawals' = withdrawals
      BY <1>1, <2>1 DEF CommitQuote, Unquoted, Running, At, Quote
    <3>2. status' = [status EXCEPT ![q] = "OPEN"]
      BY <2>1 DEF CommitQuote
    <3> QED
      BY <1>1, <3>1, <3>2 DEF CreationInv, TypeOK, OneWithdrawalEach
  <2>2. CASE CommitCreate(s)
    <3> DEFINE new == [ q |-> Quote(s), key |-> session[s].key, asOf |-> session[s].asOf ]
    <3>1. /\ withdrawals' = withdrawals \cup { new }
          /\ status' = [status EXCEPT ![q] = "CONSUMED"]
      BY <2>2 DEF CommitCreate
    <3>2. new.q = q /\ new.key = session[s].key
      OBVIOUS
    <3> HIDE DEF new
    <3>3. \A w \in withdrawals : /\ w.q # new.q
                                 /\ ~(Owner[w.q] = Owner[new.q] /\ w.key = new.key)
      BY <1>1, <2>2, <3>2 DEF CommitCreate, Fresh, Creating, At, Quote
    <3>4. \A v, w \in withdrawals' :
            v.q = w.q \/ (Owner[v.q] = Owner[w.q] /\ v.key = w.key) => v = w
      BY <3>1, <3>3 DEF CreationInv, OneWithdrawalEach
    <3>5. ASSUME NEW p \in Quotes
          PROVE  status'[p] = "CONSUMED" <=> \E w \in withdrawals' : w.q = p
      <4>1. CASE p = q
        BY <1>1, <3>1, <3>2, <4>1 DEF CreationInv, TypeOK
      <4>2. CASE p # q
        BY <1>1, <3>1, <3>2, <4>2 DEF CreationInv, TypeOK, OneWithdrawalEach
      <4> QED
        BY <4>1, <4>2
    <3> QED
      BY <3>4, <3>5 DEF OneWithdrawalEach
  <2> QED
    BY <2>1, <2>2
<1> QED
  BY <1>6, <1>8, <1>9 DEF CreationInv

LEMMA QuoteEndsKeeps ==
  ASSUME CreationInv, NEW q \in Quotes, CancelQuote(q) \/ QuoteLapses(q)
  PROVE  CreationInv'
<1>1. /\ status[q] = "OPEN" /\ UNCHANGED << hour, withdrawals, session >>
      /\ \E to \in { "CANCELLED", "LAPSED" } : status' = [status EXCEPT ![q] = to]
  BY DEF CancelQuote, QuoteLapses
<1>2. TypeOK'
  BY <1>1 DEF CreationInv, TypeOK, Statuses
<1>3. SessionInv'
  BY <1>1
  DEF CreationInv, TypeOK, SessionInv, Proper, Fresh, Unquoted, Apart, Running, Creating
<1>4. OneWithdrawalEach'
  BY <1>1 DEF CreationInv, TypeOK, OneWithdrawalEach
<1> QED
  BY <1>2, <1>3, <1>4 DEF CreationInv

-----------------------------------------------------------------------------
LEMMA InitHolds == Init => CreationInv
<1> SUFFICES ASSUME Init PROVE CreationInv
  OBVIOUS
<1>1. Idle \in Transaction /\ Idle.pc = "idle" /\ Idle.held = {}
  BY DEF Idle, Transaction, Pcs, Answers
<1>2. \A s \in Sessions : session[s] = Idle
  BY DEF Init
<1> HIDE DEF Idle
<1>3. TypeOK
  BY <1>1 DEF Init, TypeOK, Statuses
<1>4. SessionInv
  BY <1>1, <1>2, IdleIsNothing DEF SessionInv
<1>5. OneWithdrawalEach
  BY DEF Init, OneWithdrawalEach
<1> QED
  BY <1>3, <1>4, <1>5 DEF CreationInv

LEMMA StepKeeps == CreationInv /\ [Next]_vars => CreationInv'
<1> SUFFICES ASSUME CreationInv, [Next]_vars PROVE CreationInv'
  OBVIOUS
<1>1. CASE UNCHANGED << hour, status, withdrawals, session >> \/ HourPasses
  <2>1. hour' \in Nat /\ UNCHANGED << status, withdrawals, session >>
    BY <1>1 DEF HourPasses, CreationInv, TypeOK
  <2> QED
    BY <2>1 DEF CreationInv, TypeOK, SessionInv, OneWithdrawalEach, Proper, Fresh,
                Unquoted, Apart, Running, Creating
<1>2. ASSUME NEW s \in Sessions, NEW q \in Quotes,
             CallQuote(s, q) \/ \E key \in Keys : CallCreate(s, q, key)
      PROVE  CreationInv'
  BY <1>2, CallKeeps
<1>3. ASSUME NEW s \in Sessions, ReadKey(s) PROVE CreationInv'
  <2>1. CASE \E answer \in Answers : Ends(s, answer)
    BY <1>3, <2>1, EndKeeps DEF ReadKey
  <2>2. CASE session' = [session EXCEPT ![s].pc = "quote"]
    BY <1>3, <2>2, PcKeeps DEF ReadKey, Pcs
  <2> QED
    BY <1>3, <2>1, <2>2 DEF ReadKey, Answers
<1>4. ASSUME NEW s \in Sessions, Insert(s) PROVE CreationInv'
  <2>1. CASE \E answer \in Answers : Ends(s, answer)
    BY <1>4, <2>1, EndKeeps DEF Insert
  <2>2. CASE /\ session' = [session EXCEPT ![s].pc = "volume"]
             /\ UnderKey(s) = {} /\ \A w \in withdrawals : w.q # Quote(s)
    BY <1>4, <2>2, PcKeeps DEF Insert, Pcs
  <2> QED
    BY <1>4, <2>1, <2>2 DEF Insert, Answers
<1>5. ASSUME NEW s \in Sessions, Rollback(s) PROVE CreationInv'
  BY <1>5, EndKeeps DEF Rollback, Answers
<1>6. ASSUME NEW s \in Sessions, Statement(s) PROVE CreationInv'
  BY <1>3, <1>4, <1>5, <1>6, LockQuoteKeeps, LockUserKeeps, LockPeriodKeeps, CommitKeeps
  DEF Statement
<1>7. ASSUME NEW q \in Quotes, CancelQuote(q) \/ QuoteLapses(q) PROVE CreationInv'
  BY <1>7, QuoteEndsKeeps
<1> QED
  BY <1>1, <1>2, <1>6, <1>7 DEF Next, vars

-----------------------------------------------------------------------------
(* Volumes, and the order of the locks.                                    *)

\* The period that x locks as the m-th.
PeriodAt(x, m) == Period(Scopes[m], x.q, x.asOf)

\* The periods that are locked before the n-th.
Below(n) == { p \in Periods : \E m \in 1 .. n - 1 : p.scope = Scopes[m] }

\* What a transaction holds, by how far it is, and that the periods it holds have
\* room for its amount.
Placed(x) ==
  /\ x.asOf \in Hours
  /\ x.pc \in { "idle", "key", "quote", "user", "insert" } => x.n = 1
  /\ x.pc \in { "idle", "key", "quote" } => x.held = {}
  /\ x.pc = "user" => x.held \subseteq Quotes
  /\ x.pc = "insert" => x.held \subseteq Quotes \cup Users
  /\ x.pc = "volume" => x.n \in 1 .. 4 /\ x.held \subseteq Quotes \cup Users \cup Below(x.n)
  /\ x.pc = "commit" => x.n = 5
  /\ x.pc \in { "volume", "commit" } =>
       \A m \in 1 .. x.n - 1 :
         /\ PeriodAt(x, m) \in x.held
         /\ consumed[PeriodAt(x, m)] + Gross[x.q] <= Cap[x.q][Scopes[m]]

Counted ==
  /\ hour \in Hours
  /\ IsFiniteSet(withdrawals)
  /\ \A w \in withdrawals : w.asOf \in Hours
  /\ consumed \in [Periods -> Nat]
  /\ VolumeIsReserved
  /\ CapsRespected

VolumeInv ==
  /\ CreationInv
  /\ \A s \in Sessions : Placed(session[s])
  /\ Counted

\* A step that moves one session and commits nothing.
LEMMA PlacedMoves ==
  ASSUME VolumeInv, CreationInv', UNCHANGED << withdrawals, consumed >>, hour' \in Hours,
         NEW s \in Sessions, NEW x, session' = [session EXCEPT ![s] = x], Placed(x)
  PROVE  VolumeInv'
<1>1. \A t \in Sessions : session'[t] = IF t = s THEN x ELSE session[t]
  BY DEF VolumeInv, CreationInv, TypeOK
<1>2. ASSUME NEW t \in Sessions PROVE Placed(session[t])'
  BY <1>1 DEF VolumeInv, Placed
<1>3. Counted'
  BY DEF VolumeInv, Counted, VolumeIsReserved, CapsRespected, Volume, Within, Requested
<1> QED
  BY <1>2, <1>3 DEF VolumeInv

\* A step that moves no session and commits no withdrawal.
LEMMA PlacedStays ==
  ASSUME VolumeInv, CreationInv', UNCHANGED << withdrawals, consumed, session >>,
         hour' \in Hours
  PROVE  VolumeInv'
<1>1. Counted'
  BY DEF VolumeInv, Counted, VolumeIsReserved, CapsRespected, Volume, Within, Requested
<1>2. \A s \in Sessions : Placed(session[s])'
  BY DEF VolumeInv, Placed
<1> QED
  BY <1>1, <1>2 DEF VolumeInv

LEMMA HourZero == 0 \in Hours
  BY DEF Hours

LEMMA PlacedEnds ==
  ASSUME VolumeInv, CreationInv', NEW s \in Sessions, NEW answer \in Answers,
         Ends(s, answer), UNCHANGED << hour, withdrawals, consumed >>
  PROVE  VolumeInv'
<1> DEFINE x == Ended(s, answer)
<1>1. session[s] \in Transaction
  BY DEF VolumeInv, CreationInv, TypeOK
<1>2. x.pc = "idle" /\ x.asOf = 0 /\ x.n = 1 /\ x.held = {}
  BY <1>1 DEF Ended, Transaction
<1>3. session' = [session EXCEPT ![s] = x]
  BY DEF Ends, Ended
<1> HIDE DEF x
<1>4. Placed(x)
  BY <1>2, HourZero DEF Placed
<1>5. hour' \in Hours
  BY DEF VolumeInv, Counted
<1> QED
  BY <1>3, <1>4, <1>5, PlacedMoves

LEMMA PlacedCalls ==
  ASSUME VolumeInv, CreationInv', NEW s \in Sessions, NEW q \in Quotes,
         CallQuote(s, q) \/ \E key \in Keys : CallCreate(s, q, key)
  PROVE  VolumeInv'
<1>1. UNCHANGED << withdrawals, consumed >> /\ hour' \in Hours
  BY DEF CallQuote, CallCreate, Unwritten, VolumeInv, Counted
<1>2. \E x : /\ session' = [session EXCEPT ![s] = x]
             /\ x.pc \in { "key", "user" } /\ x.held = {} /\ x.n = 1 /\ x.asOf = 0
  <2>1. CASE CallQuote(s, q)
    <3> DEFINE x == [ Idle EXCEPT !.pc = "user", !.q = q ]
    <3>1. x.pc = "user" /\ x.held = {} /\ x.n = 1 /\ x.asOf = 0
      BY DEF Idle
    <3>2. session' = [session EXCEPT ![s] = x]
      BY <2>1 DEF CallQuote
    <3> HIDE DEF x
    <3> QED
      BY <3>1, <3>2
  <2>2. ASSUME NEW key \in Keys, CallCreate(s, q, key)
        PROVE  \E x : /\ session' = [session EXCEPT ![s] = x]
                      /\ x.pc \in { "key", "user" } /\ x.held = {} /\ x.n = 1 /\ x.asOf = 0
    <3> DEFINE x == [ Idle EXCEPT !.pc = "key", !.call = "create", !.q = q, !.key = key ]
    <3>1. x.pc = "key" /\ x.held = {} /\ x.n = 1 /\ x.asOf = 0
      BY DEF Idle
    <3>2. session' = [session EXCEPT ![s] = x]
      BY <2>2 DEF CallCreate
    <3> HIDE DEF x
    <3> QED
      BY <3>1, <3>2
  <2> QED
    BY <2>1, <2>2
<1>3. PICK x : /\ session' = [session EXCEPT ![s] = x]
               /\ x.pc \in { "key", "user" } /\ x.held = {} /\ x.n = 1 /\ x.asOf = 0
  BY <1>2
<1>4. Placed(x)
  BY <1>3, HourZero DEF Placed
<1> QED
  BY <1>1, <1>3, <1>4, PlacedMoves

\* ReadKey, LockQuote, LockUser and Insert, when they go on.
LEMMA PlacedReads ==
  ASSUME VolumeInv, CreationInv', NEW s \in Sessions, Unwritten,
         At(s, "key"), session' = [session EXCEPT ![s].pc = "quote"]
  PROVE  VolumeInv'
<1> DEFINE x == [ session[s] EXCEPT !.pc = "quote" ]
<1>1. session[s] \in Transaction /\ Placed(session[s])
  BY DEF VolumeInv, CreationInv, TypeOK
<1>2. /\ x.pc = "quote" /\ x.held = session[s].held /\ x.n = session[s].n
      /\ x.asOf = session[s].asOf /\ session' = [session EXCEPT ![s] = x]
  BY <1>1 DEF Transaction
<1> HIDE DEF x
<1>3. Placed(x)
  BY <1>1, <1>2 DEF Placed, At
<1>4. hour' \in Hours /\ UNCHANGED << withdrawals, consumed >>
  BY DEF VolumeInv, Counted, Unwritten
<1> QED
  BY <1>2, <1>3, <1>4, PlacedMoves

LEMMA PlacedLocksQuote ==
  ASSUME VolumeInv, CreationInv', NEW s \in Sessions, Unwritten,
         At(s, "quote"), Locked(s, Quote(s), "user")
  PROVE  VolumeInv'
<1> DEFINE x == [ session[s] EXCEPT !.pc = "user", !.held = session[s].held \cup { Quote(s) } ]
<1>1. session[s] \in Transaction /\ Placed(session[s]) /\ Proper(session[s])
  BY DEF VolumeInv, CreationInv, TypeOK, SessionInv
<1>2. /\ x.pc = "user" /\ x.held = session[s].held \cup { Quote(s) } /\ x.n = session[s].n
      /\ x.asOf = session[s].asOf
  BY <1>1 DEF Transaction
<1>3. session' = [session EXCEPT ![s] = x]
  BY DEF Locked
<1> HIDE DEF x
<1>4. Placed(x)
  BY <1>1, <1>2 DEF Placed, At, Proper, Running, Quote
<1>5. hour' \in Hours /\ UNCHANGED << withdrawals, consumed >>
  BY DEF VolumeInv, Counted, Unwritten
<1> QED
  BY <1>3, <1>4, <1>5, PlacedMoves

LEMMA PlacedLocksUser ==
  ASSUME VolumeInv, CreationInv', NEW s \in Sessions, LockUser(s)
  PROVE  VolumeInv'
<1> DEFINE user == Owner[Quote(s)]
           pc == IF session[s].call = "create" THEN "insert" ELSE "volume"
           x == [ session[s] EXCEPT !.held = session[s].held \cup { user },
                                    !.asOf = hour, !.pc = pc ]
<1>1. session[s] \in Transaction /\ Placed(session[s]) /\ Proper(session[s]) /\ At(s, "user")
  BY DEF VolumeInv, CreationInv, TypeOK, SessionInv, LockUser
<1>2. /\ x.pc = pc /\ x.held = session[s].held \cup { user } /\ x.n = session[s].n
      /\ x.asOf = hour
  BY <1>1 DEF Transaction
<1>3. session' = [session EXCEPT ![s] = x]
  BY DEF LockUser
<1>4. user \in Users
  BY <1>1 DEF Proper, Running, At, Quote, Users
<1> HIDE DEF x, user
<1>5. hour \in Hours /\ hour' \in Hours /\ UNCHANGED << withdrawals, consumed >>
  BY DEF VolumeInv, Counted, Unwritten, LockUser
<1>6. session[s].held \subseteq Quotes /\ session[s].n = 1
  BY <1>1 DEF Placed, At
<1>7. Placed(x)
  BY <1>2, <1>4, <1>5, <1>6 DEF Placed
<1> QED
  BY <1>3, <1>5, <1>7, PlacedMoves

LEMMA PlacedInserts ==
  ASSUME VolumeInv, CreationInv', NEW s \in Sessions, Unwritten,
         At(s, "insert"), session' = [session EXCEPT ![s].pc = "volume"]
  PROVE  VolumeInv'
<1> DEFINE x == [ session[s] EXCEPT !.pc = "volume" ]
<1>1. session[s] \in Transaction /\ Placed(session[s])
  BY DEF VolumeInv, CreationInv, TypeOK
<1>2. /\ x.pc = "volume" /\ x.held = session[s].held /\ x.n = session[s].n
      /\ x.asOf = session[s].asOf /\ session' = [session EXCEPT ![s] = x]
  BY <1>1 DEF Transaction
<1> HIDE DEF x
<1>3. Placed(x)
  BY <1>1, <1>2 DEF Placed, At
<1>4. hour' \in Hours /\ UNCHANGED << withdrawals, consumed >>
  BY DEF VolumeInv, Counted, Unwritten
<1> QED
  BY <1>2, <1>3, <1>4, PlacedMoves

LEMMA ScopeTypes ==
  /\ \A n \in 1 .. 4 : Scopes[n] \in ScopeNames
  /\ \A scope \in ScopeNames : \E n \in 1 .. 4 : scope = Scopes[n]
  /\ \A m, n \in 1 .. 4 : Scopes[m] = Scopes[n] => m = n
  BY DEF Scopes, ScopeNames

\* A period of a quote at an hour of the clock is one of Periods.
LEMMA PeriodType ==
  ASSUME NEW x, x.q \in Quotes, x.asOf \in Hours, NEW m \in 1 .. 4
  PROVE  PeriodAt(x, m) \in Periods /\ PeriodAt(x, m).scope = Scopes[m]
<1>1. Scopes[m] \in ScopeNames
  BY ScopeTypes
<1>2. PeriodAt(x, m) = Period(Scopes[m], x.q, x.asOf)
  BY DEF PeriodAt
<1>3. Period(Scopes[m], x.q, x.asOf).scope = Scopes[m]
  BY DEF Period
<1> HIDE DEF Period, Scopes
<1> QED
  BY <1>1, <1>2, <1>3 DEF Periods

LEMMA PlacedLocksPeriod ==
  ASSUME VolumeInv, CreationInv', NEW s \in Sessions, LockPeriod(s), ~Ends(s, "LIMIT_EXCEEDED")
  PROVE  VolumeInv'
<1> DEFINE y == session[s]
           period == NextPeriod(s)
           pc == IF session[s].n = 4 THEN "commit" ELSE "volume"
           x == [ session[s] EXCEPT !.held = session[s].held \cup { period },
                                    !.n = session[s].n + 1, !.pc = pc ]
<1>1. y \in Transaction /\ Placed(y) /\ Proper(y) /\ y.pc = "volume"
  BY DEF VolumeInv, CreationInv, TypeOK, SessionInv, LockPeriod, At
<1>2. /\ x.pc = pc /\ x.held = y.held \cup { period } /\ x.n = y.n + 1
      /\ x.asOf = y.asOf /\ x.q = y.q
  BY <1>1 DEF Transaction
<1>3. session' = [session EXCEPT ![s] = x]
  BY DEF LockPeriod
<1>4. /\ y.n \in 1 .. 4 /\ y.held \subseteq Quotes \cup Users \cup Below(y.n)
      /\ y.q \in Quotes /\ y.asOf \in Hours
      /\ \A m \in 1 .. y.n - 1 :
           /\ PeriodAt(y, m) \in y.held
           /\ consumed[PeriodAt(y, m)] + Gross[y.q] <= Cap[y.q][Scopes[m]]
  BY <1>1 DEF Placed, Proper, Running
<1>5. /\ period = PeriodAt(y, y.n)
      /\ ~(consumed[period] + Gross[y.q] > Cap[y.q][Scopes[y.n]])
  BY DEF LockPeriod, NextPeriod, PeriodAt, Quote
<1>6. period \in Periods /\ period.scope = Scopes[y.n]
  BY <1>4, <1>5, PeriodType
<1>7. consumed[period] + Gross[y.q] <= Cap[y.q][Scopes[y.n]]
  <2>1. /\ consumed[period] \in Nat /\ Gross[y.q] \in Nat
        /\ Cap[y.q][Scopes[y.n]] \in Nat
    BY <1>4, <1>6, ScopeTypes DEF VolumeInv, Counted
  <2> QED
    BY <1>5, <2>1
<1> HIDE DEF x, period, y
<1>8. \A m \in 1 .. x.n - 1 :
        /\ PeriodAt(x, m) \in x.held
        /\ consumed[PeriodAt(x, m)] + Gross[x.q] <= Cap[x.q][Scopes[m]]
  <2> TAKE m \in 1 .. x.n - 1
  <2>1. PeriodAt(x, m) = PeriodAt(y, m)
    BY <1>2 DEF PeriodAt
  <2>2. m = y.n \/ m \in 1 .. y.n - 1
    BY <1>2, <1>4
  <2> QED
    BY <1>2, <1>4, <1>5, <1>7, <2>1, <2>2
<1>9. x.held \subseteq Quotes \cup Users \cup Below(x.n)
  <2>1. Below(y.n) \subseteq Below(x.n)
    BY <1>2, <1>4 DEF Below
  <2>2. period \in Below(x.n)
    BY <1>2, <1>4, <1>6 DEF Below
  <2> QED
    BY <1>2, <1>4, <2>1, <2>2
<1>10. /\ pc \in { "volume", "commit" } /\ (pc = "commit" <=> y.n = 4)
  BY DEF y
<1> HIDE DEF pc
<1>11. Placed(x)
  BY <1>2, <1>4, <1>8, <1>9, <1>10 DEF Placed
<1>12. hour' \in Hours /\ UNCHANGED << withdrawals, consumed >>
  BY DEF VolumeInv, Counted, Unwritten, LockPeriod
<1> QED
  BY <1>3, <1>11, <1>12, PlacedMoves

\* A committed withdrawal adds its amount to its four periods and to no other.
LEMMA PlacedCommits ==
  ASSUME VolumeInv, CreationInv', NEW s \in Sessions, CommitCreate(s)
  PROVE  VolumeInv'
<1> DEFINE y == session[s]
           new == [ q |-> Quote(s), key |-> session[s].key, asOf |-> session[s].asOf ]
           its == PeriodsOf(y.q, y.asOf)
<1>1. y \in Transaction /\ Placed(y) /\ Proper(y) /\ Fresh(y) /\ y.pc = "commit" /\ y.call = "create"
  BY DEF VolumeInv, CreationInv, TypeOK, SessionInv, CommitCreate, At
<1>2. /\ y.q \in Quotes /\ y.asOf \in Hours /\ Gross[y.q] \in Nat
      /\ \A m \in 1 .. 4 :
           /\ PeriodAt(y, m) \in y.held
           /\ consumed[PeriodAt(y, m)] + Gross[y.q] <= Cap[y.q][Scopes[m]]
  BY <1>1 DEF Placed, Proper, Running
<1>3. /\ withdrawals' = withdrawals \cup { new } /\ hour' = hour
      /\ consumed' = Reserved(y.q, y.asOf)
  BY DEF CommitCreate, Quote
<1>4. new.q = y.q /\ new.asOf = y.asOf
  BY DEF Quote
<1> HIDE DEF new, y
<1>5. new \notin withdrawals
  BY <1>1, <1>4 DEF Fresh, Creating
<1>6. ASSUME NEW p \in its
      PROVE  \E m \in 1 .. 4 : p = PeriodAt(y, m) /\ p \in Periods /\ p.scope = Scopes[m]
  <2>1. PICK scope \in ScopeNames : p = Period(scope, y.q, y.asOf)
    BY <1>6 DEF PeriodsOf
  <2>2. PICK m \in 1 .. 4 : scope = Scopes[m]
    BY ScopeTypes
  <2>3. p = PeriodAt(y, m)
    BY <2>1, <2>2 DEF PeriodAt
  <2> QED
    BY <1>2, <2>3, PeriodType
<1>7. ASSUME NEW p PROVE Within(p)' = Within(p) \cup IF p \in its THEN { new } ELSE {}
  BY <1>3, <1>4 DEF Within
<1> HIDE DEF its
<1>8. Requested \in [withdrawals -> Nat] /\ Requested' \in [withdrawals' -> Nat]
  BY DEF Requested, VolumeInv, CreationInv, TypeOK
<1>9. /\ \A w \in withdrawals : Requested'[w] = Requested[w]
      /\ Requested'[new] = Gross[y.q]
  BY <1>3, <1>4 DEF Requested
<1>10. IsFiniteSet(withdrawals)
  BY DEF VolumeInv, Counted
<1>11. ASSUME NEW p \in Periods
       PROVE  Volume(p)' = Volume(p) + IF p \in its THEN Gross[y.q] ELSE 0
  <2>1. IsFiniteSet(Within(p)) /\ Within(p) \subseteq withdrawals
    BY <1>10, FS_Subset DEF Within
  <2>2. \A w \in Within(p) : Requested[w] \in Int /\ Requested'[w] = Requested[w]
    BY <1>8, <1>9, <2>1
  <2>3. SumFunctionOnSet(Requested', Within(p)) = Volume(p)
    BY <2>1, <2>2, SumAgree DEF Volume, Sum
  <2>4. CASE p \in its
    <3>1. new \notin Within(p) /\ Within(p)' = Within(p) \cup { new }
      BY <1>5, <1>7, <2>1, <2>4
    <3>2. \A w \in Within(p) \cup { new } : Requested'[w] \in Int
      BY <1>2, <1>9, <2>2
    <3>3. Sum(Requested', Within(p)) \in Int
      BY <2>1, <3>2, SumType
    <3>4. Sum(Requested', Within(p) \cup { new }) = Requested'[new] + Sum(Requested', Within(p))
      <4> DEFINE f == Requested'
                 W == Within(p)
      <4>1. IsFiniteSet(W) /\ new \notin W /\ \A w \in W \cup { new } : f[w] \in Int
        BY <2>1, <3>1, <3>2
      <4> HIDE DEF f, W
      <4>2. Sum(f, W \cup { new }) = f[new] + Sum(f, W)
        BY <4>1, SumAdd
      <4> QED
        BY <4>2 DEF f, W
    <3> QED
      BY <1>2, <1>9, <2>3, <2>4, <3>1, <3>3, <3>4 DEF Volume, Sum
  <2>5. CASE p \notin its
    <3>1. Within(p)' = Within(p)
      BY <1>7, <2>5
    <3>2. Volume(p) \in Int
      BY <2>1, <2>2, SumType DEF Volume, Sum
    <3> QED
      BY <2>3, <2>5, <3>1, <3>2 DEF Volume
  <2> QED
    BY <2>4, <2>5
<1>12. ASSUME NEW p \in Periods
       PROVE  consumed'[p] = consumed[p] + IF p \in its THEN Gross[y.q] ELSE 0
  BY <1>3 DEF Reserved, its
<1>13. CapsRespected'
  <2> SUFFICES ASSUME NEW p \in Periods, Within(p)' # {}
               PROVE  \E w \in Within(p)' : Volume(p)' <= Cap[w.q][p.scope]
    BY DEF CapsRespected
  <2>1. CASE p \in its
    <3>1. PICK m \in 1 .. 4 : p = PeriodAt(y, m) /\ p.scope = Scopes[m]
      BY <1>6, <2>1
    <3>2. Volume(p)' = consumed[p] + Gross[y.q]
      BY <1>11, <2>1 DEF VolumeInv, Counted, VolumeIsReserved
    <3>3. new \in Within(p)' /\ new.q = y.q
      BY <1>4, <1>7, <2>1
    <3> QED
      BY <1>2, <3>1, <3>2, <3>3
  <2>2. CASE p \notin its
    <3>1. Within(p)' = Within(p)
      BY <1>7, <2>2
    <3>2. Volume(p) \in Nat
      BY DEF VolumeInv, Counted, VolumeIsReserved
    <3>3. Volume(p)' = Volume(p)
      BY <1>11, <2>2, <3>2
    <3> QED
      BY <3>1, <3>3 DEF VolumeInv, Counted, CapsRespected
  <2> QED
    BY <2>1, <2>2
<1>14. Counted'
  <2>1. hour' \in Hours /\ \A w \in withdrawals' : w.asOf \in Hours
    BY <1>2, <1>3, <1>4 DEF VolumeInv, Counted
  <2>2. IsFiniteSet(withdrawals')
    BY <1>3, <1>10, FS_AddElement
  <2>3. consumed' \in [Periods -> Nat]
    BY <1>2, <1>3 DEF Reserved, VolumeInv, Counted
  <2>4. VolumeIsReserved'
    BY <1>11, <1>12 DEF VolumeInv, Counted, VolumeIsReserved
  <2> QED
    BY <1>13, <2>1, <2>2, <2>3, <2>4 DEF Counted, Hours
<1>15. ASSUME NEW t \in Sessions PROVE Placed(session[t])'
  <2>1. CASE t = s
    <3> DEFINE x == Ended(s, "created")
    <3>1. x.pc = "idle" /\ x.asOf = 0 /\ x.n = 1 /\ x.held = {}
      BY <1>1 DEF y, Ended, Transaction
    <3>2. session'[t] = x
      BY <2>1 DEF CommitCreate, Ends, Ended, VolumeInv, CreationInv, TypeOK
    <3> HIDE DEF x
    <3> QED
      BY <3>1, <3>2, HourZero DEF Placed, Hours
  <2>2. CASE t # s
    <3> DEFINE z == session[t]
    <3>1. session'[t] = z /\ Placed(z) /\ z \in Transaction /\ Proper(z) /\ Apart(y, z)
      BY <2>2 DEF CommitCreate, Ends, VolumeInv, CreationInv, TypeOK, SessionInv, y
    <3> HIDE DEF z
    <3>2. CASE z.pc \in { "volume", "commit" }
      <4>1. z.n \in 1 .. 5 /\ z.q \in Quotes /\ z.asOf \in Hours
        BY <3>1, <3>2 DEF Placed, Proper, Running
      <4>2. ASSUME NEW m \in 1 .. z.n - 1
            PROVE  consumed'[PeriodAt(z, m)] = consumed[PeriodAt(z, m)]
        <5>1. m \in 1 .. 4 /\ PeriodAt(z, m) \in z.held
          BY <3>1, <3>2, <4>1 DEF Placed
        <5>2. PeriodAt(z, m) \in Periods
          BY <4>1, <5>1, PeriodType
        <5>3. PeriodAt(z, m) \notin its
          BY <1>2, <1>6, <3>1, <5>1 DEF Apart
        <5>4. consumed[PeriodAt(z, m)] \in Nat
          BY <5>2 DEF VolumeInv, Counted
        <5> QED
          BY <1>12, <5>2, <5>3, <5>4
      <4> QED
        BY <3>1, <3>2, <4>2 DEF Placed, PeriodAt
    <3>3. CASE z.pc \notin { "volume", "commit" }
      BY <3>1, <3>3 DEF Placed
    <3> QED
      BY <3>2, <3>3
  <2> QED
    BY <2>1, <2>2
<1> QED
  BY <1>14, <1>15 DEF VolumeInv

LEMMA VolumeInit == Init => VolumeInv
<1> SUFFICES ASSUME Init PROVE VolumeInv
  OBVIOUS
<1>1. \A s \in Sessions : session[s] = Idle
  BY DEF Init
<1>2. Idle.pc = "idle" /\ Idle.asOf = 0 /\ Idle.n = 1 /\ Idle.held = {}
  BY DEF Idle
<1> HIDE DEF Idle
<1>3. Placed(Idle)
  BY <1>2, HourZero DEF Placed
<1>4. \A p : Within(p) = {}
  BY DEF Init, Within
<1>5. \A p : Volume(p) = 0
  BY <1>4, SumEmpty DEF Volume, Sum
<1>6. Counted
  <2>1. IsFiniteSet(withdrawals)
    BY FS_EmptySet DEF Init
  <2>2. VolumeIsReserved /\ CapsRespected
    BY <1>4, <1>5 DEF Init, VolumeIsReserved, CapsRespected
  <2> QED
    BY <2>1, <2>2, HourZero DEF Init, Counted
<1> QED
  BY <1>1, <1>3, <1>6, InitHolds DEF VolumeInv

LEMMA VolumeStep == VolumeInv /\ [Next]_vars => VolumeInv'
<1> SUFFICES ASSUME VolumeInv, [Next]_vars PROVE VolumeInv'
  OBVIOUS
<1>1. CreationInv'
  BY StepKeeps DEF VolumeInv
<1>2. hour \in Hours
  BY DEF VolumeInv, Counted
<1>3. CASE UNCHANGED vars
  BY <1>1, <1>2, <1>3, PlacedStays DEF vars
<1>4. CASE HourPasses
  <2>1. hour' \in Hours
    BY <1>2, <1>4 DEF HourPasses, Hours
  <2> QED
    BY <1>1, <1>4, <2>1, PlacedStays DEF HourPasses
<1>5. ASSUME NEW q \in Quotes, CancelQuote(q) \/ QuoteLapses(q) PROVE VolumeInv'
  BY <1>1, <1>2, <1>5, PlacedStays DEF CancelQuote, QuoteLapses
<1>6. ASSUME NEW s \in Sessions, NEW q \in Quotes,
             CallQuote(s, q) \/ \E key \in Keys : CallCreate(s, q, key)
      PROVE  VolumeInv'
  BY <1>1, <1>6, PlacedCalls
<1>7. ASSUME NEW s \in Sessions, Statement(s) PROVE VolumeInv'
  <2>1. ASSUME NEW answer \in Answers, Ends(s, answer),
               UNCHANGED << hour, withdrawals, consumed >>
        PROVE  VolumeInv'
    BY <1>1, <2>1, PlacedEnds
  <2>2. CASE ReadKey(s)
    BY <1>1, <2>1, <2>2, PlacedReads DEF ReadKey, Unwritten, Answers
  <2>3. CASE LockQuote(s)
    BY <1>1, <2>1, <2>3, PlacedLocksQuote DEF LockQuote, Unwritten, Answers
  <2>4. CASE LockUser(s)
    BY <1>1, <2>4, PlacedLocksUser
  <2>5. CASE Insert(s)
    BY <1>1, <2>1, <2>5, PlacedInserts DEF Insert, Unwritten, Answers
  <2>6. CASE LockPeriod(s)
    BY <1>1, <2>1, <2>6, PlacedLocksPeriod DEF LockPeriod, Unwritten, Answers
  <2>7. CASE CommitQuote(s)
    BY <2>1, <2>7 DEF CommitQuote, Answers
  <2>8. CASE CommitCreate(s)
    BY <1>1, <2>8, PlacedCommits
  <2>9. CASE Rollback(s)
    BY <2>1, <2>9 DEF Rollback, Unwritten, Answers
  <2> QED
    BY <1>7, <2>2, <2>3, <2>4, <2>5, <2>6, <2>7, <2>8, <2>9 DEF Statement
<1> QED
  BY <1>3, <1>4, <1>5, <1>6, <1>7 DEF Next

-----------------------------------------------------------------------------
(* The order of the locks: a transaction only waits for a row that comes    *)
(* after all that it holds.                                                *)

\* The place of the awaited row in the order: the quote, the user, the periods.
Rank(x) == CASE x.pc = "quote" -> 1 [] x.pc = "user" -> 2 [] x.pc = "volume" -> 2 + x.n

Waiting(x) == x.pc \in { "quote", "user", "volume" }

LEMMA HigherIsHeld ==
  ASSUME VolumeInv, NEW s \in Sessions, NEW t \in Sessions, Waiting(session[s]),
         Waiting(session[t]), Awaited(s) \in session[t].held
  PROVE  Rank(session[s]) < Rank(session[t])
<1> DEFINE x == session[s]
           y == session[t]
<1>1. Placed(x) /\ Proper(x) /\ Placed(y)
  BY DEF VolumeInv, CreationInv, SessionInv
<1>2. /\ x.pc = "quote" => Awaited(s) = x.q
      /\ x.pc = "user" => Awaited(s) = Owner[x.q]
      /\ x.pc = "volume" => Awaited(s) = PeriodAt(x, x.n)
  BY DEF Awaited, At, Quote, NextPeriod, PeriodAt
<1>3. Waiting(x) /\ Waiting(y) /\ Awaited(s) \in y.held
  OBVIOUS
<1> HIDE DEF x, y
<1>4. x.q \in Quotes /\ x.asOf \in Hours
  BY <1>1, <1>3 DEF Proper, Placed, Running, Waiting
<1>5. /\ y.pc # "quote"
      /\ y.pc = "user" => Rank(y) = 2 /\ y.held \subseteq Quotes
      /\ y.pc = "volume" => /\ y.n \in 1 .. 4 /\ Rank(y) = 2 + y.n
                            /\ y.held \subseteq Quotes \cup Users \cup Below(y.n)
  BY <1>1, <1>3 DEF Placed, Rank
<1>6. CASE x.pc = "quote"
  <2>1. Rank(x) = 1
    BY <1>6 DEF Rank
  <2> QED
    BY <1>3, <1>5, <2>1 DEF Waiting, x, y
<1>7. CASE x.pc = "user"
  <2>1. Rank(x) = 2 /\ Awaited(s) \in Users
    BY <1>2, <1>4, <1>7 DEF Rank, Users
  <2>2. y.pc # "user"
    BY <1>3, <1>5, <2>1, TablesAssumption
  <2> QED
    BY <1>3, <1>5, <2>1, <2>2 DEF Waiting, x, y
<1>8. CASE x.pc = "volume"
  <2>1. x.n \in 1 .. 4 /\ Rank(x) = 2 + x.n
    BY <1>1, <1>8 DEF Placed, Rank
  <2>2. Awaited(s) \in Periods /\ Awaited(s).scope = Scopes[x.n]
    BY <1>2, <1>4, <1>8, <2>1, PeriodType
  <2>3. y.pc # "user"
    BY <1>3, <1>5, <2>2, TablesAssumption
  <2>4. y.pc = "volume" /\ Awaited(s) \in Below(y.n)
    BY <1>3, <1>5, <2>2, <2>3, TablesAssumption DEF Waiting
  <2>5. PICK m \in 1 .. y.n - 1 : Scopes[x.n] = Scopes[m]
    BY <2>2, <2>4 DEF Below
  <2>6. m = x.n
    BY <1>5, <2>1, <2>4, <2>5, ScopeTypes
  <2> QED
    BY <1>5, <2>1, <2>4, <2>6 DEF x, y
<1> QED
  BY <1>3, <1>6, <1>7, <1>8 DEF Waiting

LEMMA RankType ==
  ASSUME VolumeInv, NEW s \in Sessions, Waiting(session[s])
  PROVE  Rank(session[s]) \in 1 .. 6
<1> DEFINE x == session[s]
<1>1. Placed(x) /\ Waiting(x)
  BY DEF VolumeInv
<1> HIDE DEF x
<1>2. /\ x.pc = "quote" => Rank(x) = 1
      /\ x.pc = "user" => Rank(x) = 2
      /\ x.pc = "volume" => Rank(x) = 2 + x.n /\ x.n \in 1 .. 4
  BY <1>1 DEF Placed, Rank
<1> QED
  BY <1>1, <1>2 DEF Waiting, x

\* Quoting and creating never wait for each other in a circle.
THEOREM CreatingNeverDeadlocks == Spec => []NoCircularWait
<1>1. VolumeInv => NoCircularWait
  <2> SUFFICES ASSUME VolumeInv, NEW S \in SUBSET Sessions, S # {}
               PROVE  \E s \in S : \A t \in S : ~WaitsFor(s, t)
    BY DEF NoCircularWait
  <2>1. CASE \E s \in S : ~Waiting(session[s])
    BY <2>1 DEF Waiting, WaitsFor
  <2>2. CASE \A s \in S : Waiting(session[s])
    <3> DEFINE R == { Rank(session[s]) : s \in S }
    <3>1. R \subseteq 1 .. 6 /\ R # {}
      BY <2>2, RankType
    <3>2. IsFiniteSet(1 .. 6) /\ 1 .. 6 \subseteq Int
      <4>1. IsFiniteSet(1 .. 6)
        BY FS_Interval, 1 \in Int, 6 \in Int
      <4> QED
        BY <4>1
    <3>3. IsFiniteSet(R)
      BY <3>1, <3>2, FS_Subset
    <3>4. R \subseteq Int
      BY <3>1, <3>2, Zenon
    <3> HIDE DEF R
    <3>5. PICK top \in R : \A r \in R : r <= top
      BY <3>1, <3>3, <3>4, Extremes
    <3>6. PICK s \in S : top = Rank(session[s])
      BY DEF R
    <3>7. ASSUME NEW t \in S, WaitsFor(s, t) PROVE FALSE
      <4>1. Rank(session[s]) < Rank(session[t])
        BY <2>2, <3>7, HigherIsHeld DEF WaitsFor
      <4>2. Rank(session[t]) \in R /\ Rank(session[t]) <= top
        BY <3>5 DEF R
      <4>3. Rank(session[s]) \in Int /\ Rank(session[t]) \in Int
        BY <2>2, RankType
      <4> QED
        BY <3>6, <4>1, <4>2, <4>3
    <3> QED
      BY <3>7
  <2> QED
    BY <2>1, <2>2
<1> QED
  BY <1>1, VolumeInit, VolumeStep, PTL DEF Spec

-----------------------------------------------------------------------------
(* The other theorems.                                                     *)

\* What was requested in a window is within the cap of one of the limit rules
\* it was requested under.
THEOREM CapsAreRespected == Spec => []CapsRespected
<1>1. VolumeInv => CapsRespected
  BY DEF VolumeInv, Counted
<1> QED
  BY <1>1, VolumeInit, VolumeStep, PTL DEF Spec

\* The counters of the periods are the sums of the committed withdrawals.
THEOREM VolumesAreReserved == Spec => []VolumeIsReserved
<1>1. VolumeInv => VolumeIsReserved
  BY DEF VolumeInv, Counted
<1> QED
  BY <1>1, VolumeInit, VolumeStep, PTL DEF Spec

\* A quote is consumed by one withdrawal, and a user's key names one.
THEOREM QuotesAreConsumedOnce == Spec => []OneWithdrawalEach
<1>1. CreationInv => OneWithdrawalEach
  BY DEF CreationInv
<1> QED
  BY <1>1, InitHolds, StepKeeps, PTL DEF Spec

=============================================================================
