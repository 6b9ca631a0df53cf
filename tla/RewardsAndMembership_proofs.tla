--------------------- MODULE RewardsAndMembership_proofs ---------------------
(***************************************************************************)
(* Theorems about the founder memberships and about the rewards that they  *)
(* raise.                                                                  *)
(***************************************************************************)
EXTENDS Rewards, FounderMembership, FiniteLemmas

-----------------------------------------------------------------------------
(***************************************************************************)
(* Theorems about FounderMembership, for any number of users, claim codes   *)
(* and requests to grant: no founder number is promised twice, and a request *)
(* under one key makes one founder.                                         *)
(***************************************************************************)

USE FounderAssumption

UnusedCode == [st |-> "unused"]
IssuedCode == [st : {"open", "expired"}, reserved : Nat]
ConsumedCode == [st : {"consumed"}, reserved : Nat, by : Members]

FounderTypeOK ==
  /\ seq \in Nat
  /\ founder \in [Members -> Nat]
  /\ code \in [Codes -> {UnusedCode} \cup IssuedCode \cup ConsumedCode]

\* An audited grant is that of a request, and made its user a founder.
AuditIsOfRequests ==
  \A e \in audit :
    /\ e.number # 0
    /\ \E g \in Grants : e.key = KeyOf[g] /\ e.user = Target[g]

FounderInv == FounderTypeOK /\ AuditIsOfRequests /\ NumbersNeverShared /\ GrantedOnce

-----------------------------------------------------------------------------
(* The steps of codes, claims and grants.                                  *)

LEMMA FounderStarts == FounderInit => FounderInv
  BY DEF FounderInit, FounderInv, FounderTypeOK, AuditIsOfRequests, NumbersNeverShared,
         GrantedOnce, UnusedCode

\* An open code has a number or none.
LEMMA OpenCode ==
  ASSUME FounderTypeOK, NEW c \in Codes, code[c].st = "open"
  PROVE  code[c] \in IssuedCode /\ code[c].reserved \in Nat
  BY DEF FounderTypeOK, UnusedCode, IssuedCode, ConsumedCode

LEMMA AuditedUser ==
  ASSUME AuditIsOfRequests, NEW e \in audit
  PROVE  e.user \in Members
  BY DEF AuditIsOfRequests

LEMMA NumberLostKeeps ==
  ASSUME FounderInv, NumberLost
  PROVE  FounderInv'
  BY DEF NumberLost, Numbered, FounderInv, FounderTypeOK, AuditIsOfRequests, NumbersNeverShared,
         GrantedOnce, IssuedCode, ConsumedCode, UnusedCode

LEMMA IssueCodeKeeps ==
  ASSUME FounderInv, NEW c \in Codes, IssueCode(c)
  PROVE  FounderInv'
<1>1. /\ code[c].st = "unused"
      /\ UNCHANGED <<founder, audit>>
  BY DEF IssueCode
<1>2. PICK n \in Nat :
        /\ code' = [code EXCEPT ![c] = [st |-> "open", reserved |-> n]]
        /\ \/ n = 0 /\ seq' = seq
           \/ n = seq + 1 /\ seq' = seq + 1
  <2>1. PICK reserve \in BOOLEAN :
          /\ IF reserve THEN Numbered ELSE seq' = seq
          /\ code' = [code EXCEPT ![c] = Reserved(reserve)]
    BY DEF IssueCode
  <2>2. CASE reserve
    <3>1. seq' \in Nat /\ seq' = seq + 1
      BY <2>1, <2>2 DEF Numbered, FounderInv, FounderTypeOK
    <3>2. code' = [code EXCEPT ![c] = [st |-> "open", reserved |-> seq']]
      BY <2>1, <2>2 DEF Reserved
    <3> QED
      BY <3>1, <3>2, Zenon
  <2>3. CASE ~reserve
    BY <2>1, <2>3 DEF Reserved
  <2> QED
    BY <2>2, <2>3
<1>3. FounderTypeOK'
  <2>1. [st |-> "open", reserved |-> n] \in IssuedCode
    BY DEF IssuedCode
  <2> QED
    BY <1>1, <1>2, <2>1 DEF FounderInv, FounderTypeOK
<1>4. AuditIsOfRequests' /\ GrantedOnce'
  BY <1>1 DEF FounderInv, AuditIsOfRequests, GrantedOnce
<1>5. NumbersNeverShared'
  <2>1. \A d \in Codes : code[d].st = "open" /\ code[d].reserved # 0 =>
          code[d].reserved \in Nat /\ code[d].reserved < seq + 1
    BY OpenCode DEF FounderInv, FounderTypeOK, NumbersNeverShared
  <2>2. \A u \in Members : founder[u] \in Nat /\ founder[u] < seq + 1
    BY DEF FounderInv, FounderTypeOK, NumbersNeverShared
  <2>3. \A d \in Codes : d # c => code'[d] = code[d]
    BY <1>2 DEF FounderInv, FounderTypeOK
  <2>4. code'[c].st = "open" /\ code'[c].reserved = n
    BY <1>2 DEF FounderInv, FounderTypeOK
  <2> QED
    BY <1>1, <1>2, <2>1, <2>2, <2>3, <2>4 DEF FounderInv, FounderTypeOK, NumbersNeverShared
<1> QED
  BY <1>3, <1>4, <1>5 DEF FounderInv

\* A founder's number is the one reserved for him, or one above all others.
LEMMA ClaimKeeps ==
  ASSUME FounderInv, NEW c \in Codes, NEW u \in Members, Claim(u, c)
  PROVE  FounderInv'
<1>1. code[c].st = "open" /\ founder[u] = 0 /\ audit' = audit
  BY DEF Claim, Claimable
<1>2. code[c].reserved \in Nat
  BY <1>1, OpenCode DEF FounderInv
<1>3. PICK n \in Nat \ {0} :
        /\ founder' = [founder EXCEPT ![u] = n]
        /\ \/ n = code[c].reserved /\ seq' = seq
           \/ n = seq + 1 /\ seq' = seq + 1
  <2>1. CASE code[c].reserved = 0
    <3>1. seq' \in Nat \ {0} /\ seq' = seq + 1
      BY <2>1 DEF Claim, Numbered, FounderInv, FounderTypeOK
    <3>2. founder' = [founder EXCEPT ![u] = seq']
      BY <2>1 DEF Claim
    <3> QED
      BY <3>1, <3>2, Zenon
  <2>2. CASE code[c].reserved # 0
    BY <1>2, <2>2 DEF Claim
  <2> QED
    BY <2>1, <2>2
<1>4. code' = [code EXCEPT ![c] =
        [st |-> "consumed", reserved |-> code[c].reserved, by |-> u]]
  BY DEF Claim
<1>5. FounderTypeOK'
  <2>1. [st |-> "consumed", reserved |-> code[c].reserved, by |-> u] \in ConsumedCode
    BY <1>2 DEF ConsumedCode
  <2> QED
    BY <1>3, <1>4, <2>1 DEF FounderInv, FounderTypeOK
<1>6. AuditIsOfRequests'
  BY <1>1 DEF FounderInv, AuditIsOfRequests
<1>7. GrantedOnce'
  BY <1>1, <1>3, AuditedUser DEF FounderInv, FounderTypeOK, AuditIsOfRequests, GrantedOnce
<1>8. NumbersNeverShared'
  <2>1. \A d \in Codes : code[d].st = "open" /\ code[d].reserved # 0 =>
          code[d].reserved \in Nat /\ code[d].reserved < seq + 1
    BY OpenCode DEF FounderInv, FounderTypeOK, NumbersNeverShared
  <2>2. \A v \in Members : founder[v] \in Nat /\ founder[v] < seq + 1 /\ founder[v] # n
    BY <1>1, <1>3 DEF FounderInv, FounderTypeOK, NumbersNeverShared
  <2>3. \A d \in Codes : code'[d].st = "open" =>
          code[d].st = "open" /\ code'[d] = code[d] /\ d # c
    BY <1>4 DEF FounderInv, FounderTypeOK
  <2>4. \A d \in Codes : code[d].st = "open" /\ d # c => code[d].reserved # n
    <3>1. CASE n = code[c].reserved
      BY <1>1, <1>3, <3>1 DEF FounderInv, NumbersNeverShared
    <3>2. CASE n = seq + 1
      BY <1>3, <2>1, <3>2 DEF FounderInv, FounderTypeOK
    <3> QED
      BY <1>3, <3>1, <3>2
  <2>5. \A v \in Members : founder'[v] = IF v = u THEN n ELSE founder[v]
    BY <1>3 DEF FounderInv, FounderTypeOK
  <2>6. seq' \in Nat /\ seq <= seq' /\ n <= seq'
    BY <1>1, <1>2, <1>3 DEF FounderInv, FounderTypeOK, NumbersNeverShared
  <2>7. \A v \in Members : founder'[v] <= seq'
    BY <2>2, <2>5, <2>6 DEF FounderInv, FounderTypeOK, NumbersNeverShared
  <2>8. \A v, w \in Members : founder'[v] = founder'[w] /\ founder'[v] # 0 => v = w
    BY <2>2, <2>5 DEF FounderInv, NumbersNeverShared
  <2>9. ASSUME NEW d \in Codes, code'[d].st = "open", code'[d].reserved # 0
        PROVE  /\ code'[d].reserved <= seq'
               /\ \A v \in Members : founder'[v] # code'[d].reserved
               /\ \A f \in Codes :
                    code'[f].st = "open" /\ code'[f].reserved = code'[d].reserved => d = f
    <3>1. code[d].st = "open" /\ code'[d] = code[d] /\ d # c /\ code[d].reserved # 0
      BY <2>3, <2>9
    <3>2. code[d].reserved \in Nat /\ code[d].reserved <= seq'
      BY <2>1, <2>6, <3>1 DEF FounderInv, FounderTypeOK, NumbersNeverShared
    <3>3. \A v \in Members : founder'[v] # code[d].reserved
      BY <2>4, <2>5, <3>1 DEF FounderInv, NumbersNeverShared
    <3>4. \A f \in Codes : code'[f].st = "open" /\ code'[f].reserved = code[d].reserved => d = f
      BY <2>3, <3>1 DEF FounderInv, NumbersNeverShared
    <3> QED
      BY <3>1, <3>2, <3>3, <3>4
  <2> QED
    BY <2>7, <2>8, <2>9 DEF NumbersNeverShared
<1> QED
  BY <1>5, <1>6, <1>7, <1>8 DEF FounderInv

LEMMA CodeExpiresKeeps ==
  ASSUME FounderInv, NEW c \in Codes, CodeExpires(c)
  PROVE  FounderInv'
<1>1. code[c] \in IssuedCode /\ code' = [code EXCEPT ![c].st = "expired"]
  BY OpenCode DEF CodeExpires, FounderInv
<1>2. UNCHANGED <<seq, founder, audit>>
  BY DEF CodeExpires
<1>3. FounderTypeOK'
  <2> DEFINE x == [code[c] EXCEPT !.st = "expired"]
  <2>1. x \in IssuedCode
    BY <1>1 DEF IssuedCode
  <2> QED
    BY <1>1, <1>2, <2>1 DEF FounderInv, FounderTypeOK
<1>4. \A d \in Codes : code'[d].st = "open" => code'[d] = code[d]
  BY <1>1 DEF FounderInv, FounderTypeOK, IssuedCode
<1> QED
  BY <1>2, <1>3, <1>4 DEF FounderInv, AuditIsOfRequests, NumbersNeverShared, GrantedOnce

\* A request whose key was used names a user who is a founder, and is refused.
LEMMA GrantMembershipKeeps ==
  ASSUME FounderInv, NEW g \in Grants, GrantMembership(g)
  PROVE  FounderInv'
<1> DEFINE u == Target[g]
           n == seq + 1
           x == [key |-> KeyOf[g], user |-> u, number |-> n]
<1>1. /\ u \in Members /\ founder[u] = 0 /\ seq' = n /\ n \in Nat \ {0}
      /\ founder' = [founder EXCEPT ![u] = n]
      /\ audit' = audit \cup {x} /\ code' = code
  BY DEF GrantMembership, Grantable, Numbered, FounderInv, FounderTypeOK
<1>2. FounderTypeOK'
  BY <1>1 DEF FounderInv, FounderTypeOK
<1>3. AuditIsOfRequests'
  BY <1>1 DEF FounderInv, AuditIsOfRequests
<1>4. \A e \in audit : e.user # u /\ e.key # KeyOf[g]
  BY <1>1 DEF FounderInv, AuditIsOfRequests, GrantedOnce
<1>5. GrantedOnce'
  BY <1>1, <1>4, AuditedUser DEF FounderInv, FounderTypeOK, GrantedOnce
<1>6. NumbersNeverShared'
  <2>1. \A d \in Codes : code[d].st = "open" /\ code[d].reserved # 0 =>
          code[d].reserved \in Nat /\ code[d].reserved < n
    BY OpenCode DEF FounderInv, FounderTypeOK, NumbersNeverShared
  <2>2. \A v \in Members : founder[v] \in Nat /\ founder[v] < n
    BY DEF FounderInv, FounderTypeOK, NumbersNeverShared
  <2> QED
    BY <1>1, <2>1, <2>2 DEF FounderInv, FounderTypeOK, NumbersNeverShared
<1> QED
  BY <1>2, <1>3, <1>5, <1>6 DEF FounderInv

LEMMA FounderNextKeeps == FounderInv /\ [FounderNext]_founderVars => FounderInv'
<1> SUFFICES ASSUME FounderInv, [FounderNext]_founderVars PROVE FounderInv'
  OBVIOUS
<1>1. CASE UNCHANGED <<seq, founder, code, audit>>
  BY <1>1 DEF FounderInv, FounderTypeOK, AuditIsOfRequests, NumbersNeverShared, GrantedOnce
<1>2. CASE NumberLost
  BY <1>2, NumberLostKeeps
<1>3. ASSUME NEW c \in Codes, IssueCode(c) PROVE FounderInv'
  BY <1>3, IssueCodeKeeps
<1>4. ASSUME NEW c \in Codes, CodeExpires(c) PROVE FounderInv'
  BY <1>4, CodeExpiresKeeps
<1>5. ASSUME NEW c \in Codes, NEW u \in Members, Claim(u, c) PROVE FounderInv'
  BY <1>5, ClaimKeeps
<1>6. ASSUME NEW g \in Grants, GrantMembership(g) PROVE FounderInv'
  BY <1>6, GrantMembershipKeeps
<1> QED
  BY <1>1, <1>2, <1>3, <1>4, <1>5, <1>6
     DEF FounderNext, founderVars, ReadGrantKey, RefuseGrant, Block

LEMMA FounderInvariant == FounderSpec => []FounderInv
  BY FounderStarts, FounderNextKeeps, PTL DEF FounderSpec

\* A founder number is one founder's, or waits for one claim, and the sequence never
\* hands it out again (claimFounderCode, issueFounderClaimCode).
THEOREM NumbersAreUnique == FounderSpec => []NumbersNeverShared
<1>1. FounderInv => NumbersNeverShared
  BY DEF FounderInv
<1> QED
  BY FounderInvariant, <1>1, PTL

\* Requests that are sent again under their key, at whatever moment, make one
\* founder, who keeps his number (grantFounderMembership).
THEOREM GrantsAreIdempotent == FounderSpec => []GrantedOnce
<1>1. FounderInv => GrantedOnce
  BY DEF FounderInv
<1> QED
  BY FounderInvariant, <1>1, PTL

HIDE FounderAssumption

-----------------------------------------------------------------------------
(***************************************************************************)
(* Theorems about Rewards, for any sources, users, budgets, limits and      *)
(* transactions at once: what is reserved, issued and owed is accounted.    *)
(***************************************************************************)

\* The state of the reservations of a quote.
Standing(status) ==
  CASE status = "CONSUMED" -> "CONSUMED" [] status = "EXPIRED" -> "RELEASED" [] OTHER -> "ACTIVE"

OncePerCounter(rs) == \A r, t \in rs : r.counter = t.counter => r = t

\* What a quote q has reserved.
Funded(q, rs) ==
  /\ \E r \in rs : r.counter \in BaseBudgets
  /\ q.bonus > 0 => \E r \in rs : r.counter \in BonusBudgets
  /\ \A r \in rs : /\ r.counter \in BaseBudgets => r.amount = q.base
                   /\ r.counter \in BonusBudgets => r.amount = q.bonus

\* What a quote has earned: nothing before it is issued.
Earned(q, ev) ==
  \A part \in Parts :
    IF q.status = "CONSUMED" /\ Quoted(q, part) # 0
      THEN ev[part].state \in { "PENDING", "AVAILABLE" } /\ ev[part].amount = Quoted(q, part)
      ELSE ev[part] = NoEvent

\* The rows of one source agree.
Kept(st, q, rs, ev) ==
  /\ st = "CREATED" => q.status = "NONE"
  /\ q.status = "NONE" => q = NoQuote /\ rs = {}
  /\ OncePerCounter(rs)
  /\ \A r \in rs : r.state = Standing(q.status)
  /\ q.status # "NONE" => q.user \in Users /\ Funded(q, rs)
  /\ q.started # None => q.status \in { "OPEN", "CONSUMED" } /\ q.started <= q.expires
  /\ Earned(q, ev)

KeptInv == \A s \in Sources : Kept(source[s], quote[s], held[s], event[s])

\* The bonus that a transaction is about to reserve is there.
Affordable(x) ==
  \A b \in x.bonusBudgets :
    /\ x.membership \in Memberships
    /\ x.bonus <= Remaining(b) /\ CapAllows(x.membership, b, x.bonus)

\* What a transaction relies on, with the rows it has locked.
Stands(x, src, qs) ==
  /\ x.bonusBudgets \subseteq x.locks
  /\ x.pc \in { "budget", "bonus", "guard" } =>
       /\ x.source \in Sources /\ SourceRow(x.source) \in x.locks
       /\ src[x.source] = "CREATED"
       /\ x.user \in Users /\ x.budget \in BaseBudgets
       /\ x.bonus > 0 <=> x.bonusBudgets # {}
  /\ x.pc # "guard" => x.bonusBudgets = {} /\ x.bonus = 0
  /\ x.pc \in { "release", "issue" } =>
       /\ x.source \in Sources /\ QuoteRow(x.source) \in x.locks
       /\ qs[x.source].status = "OPEN"
  /\ x.pc = "release" => qs[x.source].started = None
  /\ x.pc = "issue" => x.key \in Keys

SessionsInv ==
  /\ \A p \in Sessions : Stands(session[p], source, quote)
  /\ \A p, q \in Sessions : p # q => session[p].locks \cap session[q].locks = {}

AffordableInv == \A p \in Sessions : Affordable(session[p])

CapsInv ==
  \A b \in BonusBudgets, m \in Memberships : UserCap[b] # None => UsedBy(m, b) <= UserCap[b]

\* Each reward was posted under the one key of its issuance.
PostedInv ==
  /\ \A k \in Keys : postedFor[k] # None => quote[postedFor[k]].status = "CONSUMED"
  /\ \A j, k \in Keys : postedFor[j] = postedFor[k] /\ postedFor[j] # None => j = k
  /\ \A s \in Sources : quote[s].status = "CONSUMED" => \E k \in Keys : postedFor[k] = s

OwedInv ==
  \A u \in Users :
    ledger[u] = [ pending |-> OwedTo("PENDING", u), available |-> OwedTo("AVAILABLE", u) ]

RewardInv ==
  /\ RewardTypeOK /\ KeptInv /\ SessionsInv /\ AffordableInv
  /\ BudgetsAccounted /\ CapsInv /\ PostedInv /\ OwedInv

-----------------------------------------------------------------------------
(* Amounts.                                                                *)

LEMMA AmountType ==
  ASSUME NEW rs \in SUBSET Reservation, NEW c
  PROVE  AmountIn(rs, c) \in Nat
  BY DEF AmountIn, Reservation

LEMMA AmountOf ==
  ASSUME NEW rs, OncePerCounter(rs), NEW r \in rs
  PROVE  AmountIn(rs, r.counter) = r.amount
<1>1. PICK t : t = CHOOSE q \in rs : q.counter = r.counter
  OBVIOUS
<1>2. t \in rs /\ t.counter = r.counter
  BY <1>1
<1>3. t = r
  BY <1>2 DEF OncePerCounter
<1> QED
  BY <1>1, <1>3 DEF AmountIn

LEMMA AmountElsewhere ==
  ASSUME NEW rs, NEW c, \A r \in rs : r.counter # c
  PROVE  AmountIn(rs, c) = 0
  BY DEF AmountIn

\* All reservations of a quote are in one state.
LEMMA AmountInState ==
  ASSUME NEW rs, NEW standing, \A r \in rs : r.state = standing, NEW c
  PROVE  /\ AmountIn(InState(rs, standing), c) = AmountIn(rs, c)
         /\ \A state : state # standing => AmountIn(InState(rs, state), c) = 0
<1>1. InState(rs, standing) = rs
  BY DEF InState
<1>2. ASSUME NEW state, state # standing PROVE InState(rs, state) = {}
  BY <1>2 DEF InState
<1>3. ASSUME NEW state, state # standing
      PROVE  AmountIn(InState(rs, state), c) = 0
  BY <1>2, <1>3, AmountElsewhere
<1> QED
  BY <1>1, <1>3

\* Settling changes the state of the reservations, and nothing else.
LEMMA SettledHeld ==
  ASSUME NEW rs \in SUBSET Reservation, OncePerCounter(rs), \A r \in rs : r.state = "ACTIVE",
         NEW state \in { "CONSUMED", "RELEASED" }
  PROVE  /\ Active(rs) = rs
         /\ Settled(rs, state) \in SUBSET Reservation
         /\ OncePerCounter(Settled(rs, state))
         /\ \A r \in Settled(rs, state) : r.state = state
         /\ \A q : Funded(q, rs) => Funded(q, Settled(rs, state))
         /\ { r.counter : r \in Settled(rs, state) } = { r.counter : r \in rs }
         /\ \A c : AmountIn(Settled(rs, state), c) = AmountIn(rs, c)
<1> DEFINE after(r) == [ r EXCEPT !.state = state ]
           new == { after(r) : r \in rs }
<1>1. Settled(rs, state) = new
  BY DEF Settled
<1>2. ASSUME NEW r \in rs
      PROVE  /\ after(r) \in Reservation /\ after(r).counter = r.counter
             /\ after(r).amount = r.amount /\ after(r).state = state
  BY DEF Reservation
<1> HIDE DEF after
<1>3. OncePerCounter(new)
  BY <1>2 DEF OncePerCounter
<1>4. \A c : AmountIn(new, c) = AmountIn(rs, c)
  <2> TAKE c
  <2>1. CASE \E r \in rs : r.counter = c
    <3>1. PICK r \in rs : r.counter = c
      BY <2>1
    <3>2. after(r) \in new
      OBVIOUS
    <3>3. AmountIn(rs, c) = r.amount
      BY <3>1, AmountOf
    <3>4. AmountIn(new, c) = after(r).amount
      <4> HIDE DEF new
      <4> QED
        BY <3>1, <3>2, <1>2, <1>3, AmountOf
    <3> QED
      BY <1>2, <3>3, <3>4
  <2>2. CASE \A r \in rs : r.counter # c
    <3>1. \A r \in new : r.counter # c
      BY <1>2, <2>2
    <3> QED
      BY <2>2, <3>1, AmountElsewhere
  <2> QED
    BY <2>1, <2>2
<1>5. \A q : Funded(q, rs) => Funded(q, new)
  BY <1>2 DEF Funded
<1>6. Active(rs) = rs
  BY DEF Active, InState
<1>7. { r.counter : r \in new } = { r.counter : r \in rs }
  BY <1>2
<1> QED
  BY <1>1, <1>2, <1>3, <1>4, <1>5, <1>6, <1>7

LEMMA Quotient == ASSUME NEW a \in Nat, NEW b \in Nat \ { 0 } PROVE a \div b \in Nat
  OBVIOUS

LEMMA Product == ASSUME NEW a \in Nat, NEW b \in Nat PROVE a * b \in Nat
  OBVIOUS

LEMMA PositiveProduct ==
  ASSUME NEW a \in Nat \ { 0 }, NEW b \in Nat \ { 0 } PROVE a * b \in Nat \ { 0 }
  OBVIOUS

LEMMA ClampedType ==
  ASSUME NEW raw \in Nat, NEW terms,
         terms.min \in Nat \cup { None }, terms.max \in Nat \cup { None }
  PROVE  Clamped(raw, terms) \in Nat
<1> DEFINE low == IF terms.min # None /\ raw < terms.min THEN terms.min ELSE raw
<1>1. low \in Nat
  OBVIOUS
<1> HIDE DEF low
<1>2. (IF terms.max # None /\ low > terms.max THEN terms.max ELSE low) \in Nat
  BY <1>1
<1> QED
  BY <1>2 DEF Clamped, low

LEMMA RewardType == ASSUME NEW v \in Versions PROVE QuotedReward(Terms[v]) \in Nat
<1> DEFINE terms == Terms[v]
<1>1. CASE terms.fixed # None
  BY <1>1, TermsAssumption DEF QuotedReward
<1>2. CASE terms.fixed = None /\ None \in { terms.ecpm, terms.userShare, terms.safety }
  BY <1>2 DEF QuotedReward
<1>3. CASE terms.fixed = None /\ None \notin { terms.ecpm, terms.userShare, terms.safety }
  <2>1. terms.ecpm \in Nat /\ terms.userShare \in Nat /\ terms.safety \in Nat
    BY <1>3, TermsAssumption
  <2>2. terms.ecpm * terms.userShare * terms.safety \in Nat
    BY <2>1, Product
  <2>3. Mille * BpsScale * BpsScale \in Nat \ { 0 }
    BY RuleAssumption, PositiveProduct
  <2>4. RawReward(terms) \in Nat
    BY <2>2, <2>3, Quotient DEF RawReward
  <2>5. Clamped(RawReward(terms), terms) \in Nat
    BY <2>4, TermsAssumption, ClampedType
  <2> QED
    BY <1>3, <2>5 DEF QuotedReward
<1> QED
  BY <1>1, <1>2, <1>3

LEMMA BonusType ==
  ASSUME NEW base \in Nat, NEW m \in Memberships
  PROVE  MembershipBonus(base, Bps[m]) \in Nat
<1>1. Bps[m] \in Nat
  BY RewardAssumption, RuleAssumption
<1>2. base * Bps[m] \in Nat
  BY <1>1, Product
<1> QED
  BY <1>2, RuleAssumption, Quotient DEF MembershipBonus

-----------------------------------------------------------------------------
(* What a quote reserves, and what it does to the counters.                *)

LEMMA ExposurePeriod ==
  ASSUME NEW l \in Limits, NEW t \in Now
  PROVE  << l, Day(t) >> \in ExposurePeriods
  BY DEF ExposurePeriods

LEMMA NewReservation ==
  ASSUME NEW x \in Session, x.budget \in BaseBudgets, x.bonus > 0 <=> x.bonusBudgets # {}
  PROVE  /\ NewReservations(x) \in SUBSET Reservation
         /\ OncePerCounter(NewReservations(x))
         /\ \A r \in NewReservations(x) : r.state = "ACTIVE"
         /\ \A q : q.base = x.base /\ q.bonus = x.bonus => Funded(q, NewReservations(x))
         /\ \A b \in BonusBudgets :
              b \in { r.counter : r \in NewReservations(x) } <=> b \in x.bonusBudgets
         /\ \A r \in NewReservations(x) :
              \/ r.counter = x.budget /\ r.amount = x.base
              \/ r.counter \in x.bonusBudgets /\ r.amount = x.bonus
              \/ r \in Exposures(x)
<1> DEFINE base == [ counter |-> x.budget, amount |-> x.base, state |-> "ACTIVE" ]
           bonus(b) == [ counter |-> b, amount |-> x.bonus, state |-> "ACTIVE" ]
           limits == { l \in Limits : LimitOn[l] = "base" \/ x.bonus > 0 }
           exposed(l) == [ counter |-> << l, Day(x.asOf) >>,
                           amount |-> IF LimitOn[l] = "base" THEN x.base ELSE x.bonus,
                           state |-> "ACTIVE" ]
           rs == NewReservations(x)
<1>1. /\ x.base \in Nat /\ x.bonus \in Nat /\ x.asOf \in Now /\ x.bonusBudgets \subseteq BonusBudgets
  BY DEF Session
<1>2. Exposures(x) = { exposed(l) : l \in limits }
  BY DEF Exposures
<1>3. rs = { base } \cup { bonus(b) : b \in x.bonusBudgets } \cup { exposed(l) : l \in limits }
  BY <1>2 DEF NewReservations
<1>4. /\ base \in Reservation /\ base.counter = x.budget /\ base.amount = x.base
      /\ base.state = "ACTIVE"
  BY <1>1 DEF Reservation, Counters
<1>5. ASSUME NEW b \in x.bonusBudgets
      PROVE  /\ bonus(b) \in Reservation /\ bonus(b).counter = b /\ bonus(b).amount = x.bonus
             /\ bonus(b).state = "ACTIVE" /\ b \in BonusBudgets
  BY <1>1 DEF Reservation, Counters
<1>6. ASSUME NEW l \in limits
      PROVE  /\ exposed(l) \in Reservation /\ exposed(l).counter = << l, Day(x.asOf) >>
             /\ exposed(l).counter \in ExposurePeriods
             /\ exposed(l).state = "ACTIVE"
  <2>1. << l, Day(x.asOf) >> \in ExposurePeriods
    BY <1>1, ExposurePeriod
  <2> QED
    BY <1>1, <2>1 DEF Reservation, Counters
<1>7. \A l, k \in limits : << l, Day(x.asOf) >> = << k, Day(x.asOf) >> => l = k
  OBVIOUS
<1> HIDE DEF base, bonus, exposed, rs
<1>8. rs \in SUBSET Reservation /\ \A r \in rs : r.state = "ACTIVE"
  BY <1>3, <1>4, <1>5, <1>6
<1>9. OncePerCounter(rs)
  <2> SUFFICES ASSUME NEW r \in rs, NEW t \in rs, r.counter = t.counter PROVE r = t
    BY DEF OncePerCounter
  <2>1. CASE r.counter \in BaseBudgets
    BY <1>3, <1>4, <1>5, <1>6, <2>1, RewardTablesAssumption
  <2>2. CASE r.counter \in BonusBudgets
    BY <1>3, <1>4, <1>5, <1>6, <2>2, RewardTablesAssumption
  <2>3. CASE r.counter \notin BaseBudgets \cup BonusBudgets
    <3>1. PICK l \in limits : r = exposed(l)
      BY <1>3, <1>4, <1>5, <2>3
    <3>2. PICK k \in limits : t = exposed(k)
      BY <1>3, <1>4, <1>5, <2>3
    <3> QED
      BY <1>6, <1>7, <3>1, <3>2
  <2> QED
    BY <2>1, <2>2, <2>3
<1>10. ASSUME NEW q, q.base = x.base /\ q.bonus = x.bonus PROVE Funded(q, rs)
  <2>1. base \in rs
    BY <1>3
  <2>2. q.bonus > 0 => \E r \in rs : r.counter \in BonusBudgets
    BY <1>3, <1>5, <1>10
  <2>3. \A r \in rs : /\ r.counter \in BaseBudgets => r.amount = q.base
                      /\ r.counter \in BonusBudgets => r.amount = q.bonus
    BY <1>3, <1>4, <1>5, <1>6, <1>10, RewardTablesAssumption
  <2> QED
    BY <1>4, <2>1, <2>2, <2>3 DEF Funded
<1>11. \A b \in BonusBudgets : b \in { r.counter : r \in rs } <=> b \in x.bonusBudgets
  <2> TAKE b \in BonusBudgets
  <2>1. b \in x.bonusBudgets => bonus(b) \in rs /\ bonus(b).counter = b
    BY <1>3, <1>5
  <2>2. ASSUME NEW r \in rs, r.counter = b PROVE b \in x.bonusBudgets
    BY <1>3, <1>4, <1>5, <1>6, <2>2, RewardTablesAssumption
  <2> QED
    BY <2>1, <2>2
<1>12. \A r \in rs : \/ r.counter = x.budget /\ r.amount = x.base
                     \/ r.counter \in x.bonusBudgets /\ r.amount = x.bonus
                     \/ r \in Exposures(x)
  BY <1>2, <1>3, <1>4, <1>5
<1> QED
  BY <1>8, <1>9, <1>10, <1>11, <1>12 DEF rs

\* The three tables together.
LEMMA ReservedCounters ==
  ASSUME RewardTypeOK, NEW rs \in SUBSET Reservation
  PROVE  ReserveExposure(ReserveBonusBudget(ReserveRewardBudget(counter, rs), rs), rs)
           = [c \in Counters |-> [ reserved |-> counter[c].reserved + AmountIn(rs, c),
                                   consumed |-> counter[c].consumed ]]
<1>1. \A c \in Counters : counter[c] \in [ reserved : Nat, consumed : Nat ]
  BY DEF RewardTypeOK
<1> DEFINE after(c) == [ reserved |-> counter[c].reserved + AmountIn(rs, c),
                         consumed |-> counter[c].consumed ]
           A == ReserveRewardBudget(counter, rs)
           B == ReserveBonusBudget(A, rs)
<1>2. ASSUME NEW c \in Counters, NEW f, f[c] = counter[c]
      PROVE  [ f[c] EXCEPT !.reserved = @ + AmountIn(rs, c) ] = after(c)
  BY <1>1, <1>2
<1>3. A = [c \in Counters |->
              IF c \in BaseBudgets THEN [ counter[c] EXCEPT !.reserved = @ + AmountIn(rs, c) ]
                                   ELSE counter[c]]
  BY DEF ReserveRewardBudget, Reserve
<1>4. \A c \in Counters : A[c] = IF c \in BaseBudgets THEN after(c) ELSE counter[c]
  BY <1>2, <1>3
<1> HIDE DEF A
<1>5. B = [c \in Counters |->
              IF c \in BonusBudgets THEN [ A[c] EXCEPT !.reserved = @ + AmountIn(rs, c) ]
                                    ELSE A[c]]
  BY DEF ReserveBonusBudget, Reserve
<1>6. \A c \in Counters : B[c] = IF c \in BaseBudgets \cup BonusBudgets THEN after(c) ELSE counter[c]
  BY <1>2, <1>4, <1>5, RewardTablesAssumption
<1> HIDE DEF B
<1>7. ReserveExposure(B, rs)
        = [c \in Counters |->
             IF c \in ExposurePeriods THEN [ B[c] EXCEPT !.reserved = @ + AmountIn(rs, c) ]
                                      ELSE B[c]]
  BY DEF ReserveExposure, Reserve
<1>8. \A c \in Counters :
        (IF c \in ExposurePeriods THEN [ B[c] EXCEPT !.reserved = @ + AmountIn(rs, c) ] ELSE B[c])
          = after(c)
  BY <1>2, <1>6, RewardTablesAssumption DEF Counters
<1> QED
  BY <1>7, <1>8 DEF A, B

LEMMA SettledCounters ==
  ASSUME RewardTypeOK, NEW rs \in SUBSET Reservation, NEW state \in { "CONSUMED", "RELEASED" }
  PROVE  SettleExposure(SettleBonusBudget(SettleRewardBudget(counter, rs, state), rs, state),
                        rs, state)
           = [c \in Counters |->
                [ reserved |-> counter[c].reserved - AmountIn(Active(rs), c),
                  consumed |-> counter[c].consumed
                                 + (IF state = "CONSUMED" THEN AmountIn(Active(rs), c) ELSE 0) ]]
<1>1. \A c \in Counters : counter[c] \in [ reserved : Nat, consumed : Nat ]
  BY DEF RewardTypeOK
<1> DEFINE after(c) == [ reserved |-> counter[c].reserved - AmountIn(Active(rs), c),
                         consumed |-> counter[c].consumed
                                        + (IF state = "CONSUMED" THEN AmountIn(Active(rs), c) ELSE 0) ]
           A == SettleRewardBudget(counter, rs, state)
           B == SettleBonusBudget(A, rs, state)
<1>2. \A c \in Counters : A[c] = IF c \in BaseBudgets THEN after(c) ELSE counter[c]
  BY DEF SettleRewardBudget, Settle
<1> HIDE DEF A
<1>3. \A c \in Counters : B[c] = IF c \in BaseBudgets \cup BonusBudgets THEN after(c) ELSE counter[c]
  BY <1>2, RewardTablesAssumption DEF SettleBonusBudget, Settle
<1> HIDE DEF B
<1>4. SettleExposure(B, rs, state)
        = [c \in Counters |-> IF c \notin ExposurePeriods THEN B[c]
             ELSE [ reserved |-> B[c].reserved - AmountIn(Active(rs), c),
                    consumed |-> B[c].consumed
                                   + (IF state = "CONSUMED" THEN AmountIn(Active(rs), c) ELSE 0) ]]
  BY DEF SettleExposure, Settle
<1>5. \A c \in Counters : B[c] = IF c \in ExposurePeriods THEN counter[c] ELSE after(c)
  BY <1>3, RewardTablesAssumption DEF Counters
<1> QED
  BY <1>4, <1>5 DEF A, B

-----------------------------------------------------------------------------
(* The sums as a step leaves them.                                         *)

USE RewardAssumption

LEMMA Uses ==
  ASSUME RewardTypeOK, NEW s \in Sources, NEW c, NEW state
  PROVE  /\ AmountIn(InState(held[s], state), c) \in Nat
         /\ AmountIn(Unreleased(held[s]), c) \in Nat
<1>1. /\ InState(held[s], state) \in SUBSET Reservation
      /\ Unreleased(held[s]) \in SUBSET Reservation
  BY DEF RewardTypeOK, InState, Unreleased
<1> QED
  BY <1>1, AmountType

InHeld(h, state, c) ==
  SumFunctionOnSet([s \in Sources |-> AmountIn(InState(h[s], state), c)], Sources)

LEMMA InHeldType ==
  ASSUME NEW h \in [Sources -> SUBSET Reservation], NEW state, NEW c
  PROVE  InHeld(h, state, c) \in Nat
<1>1. PICK f : f = [s \in Sources |-> AmountIn(InState(h[s], state), c)]
  OBVIOUS
<1>2. \A s \in Sources : InState(h[s], state) \in SUBSET Reservation
  BY DEF InState
<1>3. \A s \in Sources : f[s] \in Nat
  BY <1>1, <1>2, AmountType
<1>4. Sum(f, Sources) \in Nat
  BY <1>3, SumType
<1> QED
  BY <1>1, <1>4 DEF InHeld, Sum

LEMMA HeldInType ==
  ASSUME RewardTypeOK, NEW state, NEW c
  PROVE  HeldIn(state, c) \in Nat
<1>1. HeldIn(state, c) = InHeld(held, state, c)
  BY DEF HeldIn, InHeld
<1>2. held \in [Sources -> SUBSET Reservation]
  BY DEF RewardTypeOK
<1> QED
  BY <1>1, <1>2, InHeldType

LEMMA UsedByType ==
  ASSUME RewardTypeOK, NEW m, NEW b
  PROVE  UsedBy(m, b) \in Nat
<1>1. PICK f : f = [s \in Sources |-> AmountIn(Unreleased(held[s]), b)]
  OBVIOUS
<1>2. \A s \in Sources : f[s] \in Nat
  BY <1>1, Uses
<1>3. PICK S : S = QuotedWith(m)
  OBVIOUS
<1>4. IsFiniteSet(S) /\ S \subseteq Sources
  BY <1>3, FS_Subset DEF QuotedWith
<1>5. Sum(f, S) \in Nat
  BY <1>2, <1>4, SumType
<1> QED
  BY <1>1, <1>3, <1>5 DEF UsedBy, Sum

\* The reservations of s alone change.
LEMMA HeldInChanges ==
  ASSUME RewardTypeOK, NEW s \in Sources, NEW rs \in SUBSET Reservation,
         held' = [held EXCEPT ![s] = rs], NEW state, NEW c
  PROVE  HeldIn(state, c)'
           = HeldIn(state, c) - AmountIn(InState(held[s], state), c)
               + AmountIn(InState(rs, state), c)
<1>1. PICK f : f = [t \in Sources |-> AmountIn(InState(held[t], state), c)]
  OBVIOUS
<1>2. PICK g : g = [t \in Sources |-> AmountIn(InState(held'[t], state), c)]
  OBVIOUS
<1>3. held'[s] = rs /\ \A t \in Sources \ { s } : held'[t] = held[t]
  BY DEF RewardTypeOK
<1>4. \A t \in Sources : f[t] \in Nat
  BY <1>1, Uses
<1>5. InState(rs, state) \in SUBSET Reservation
  BY DEF InState
<1>6. g[s] = AmountIn(InState(rs, state), c) /\ g[s] \in Nat
  BY <1>2, <1>3, <1>5, AmountType
<1>7. \A t \in Sources \ { s } : g[t] = f[t]
  BY <1>1, <1>2, <1>3
<1>8. Sum(g, Sources) = Sum(f, Sources) - f[s] + g[s]
  <2>1. /\ IsFiniteSet(Sources) /\ g[s] \in Int /\ \A t \in Sources : f[t] \in Int
    BY <1>4, <1>6
  <2> HIDE RewardAssumption
  <2> QED
    BY <1>7, <2>1, SumChange
<1> QED
  BY <1>1, <1>2, <1>6, <1>8 DEF HeldIn, Sum

LEMMA SumsStay ==
  ASSUME UNCHANGED << quote, held >>
  PROVE  /\ \A state, c : HeldIn(state, c)' = HeldIn(state, c)
         /\ \A m, b : UsedBy(m, b)' = UsedBy(m, b)
  BY DEF HeldIn, UsedBy, QuotedWith

\* A source without a quote gets one.
LEMMA UsedByGrows ==
  ASSUME RewardTypeOK, NEW s \in Sources, quote[s].membership = None,
         NEW q \in Quote, quote' = [quote EXCEPT ![s] = q],
         NEW rs \in SUBSET Reservation, held' = [held EXCEPT ![s] = rs],
         \A r \in rs : r.state = "ACTIVE", NEW m \in Memberships, NEW b
  PROVE  UsedBy(m, b)' = UsedBy(m, b) + IF m = q.membership THEN AmountIn(rs, b) ELSE 0
<1>1. PICK f : f = [t \in Sources |-> AmountIn(Unreleased(held[t]), b)]
  OBVIOUS
<1>2. PICK g : g = [t \in Sources |-> AmountIn(Unreleased(held'[t]), b)]
  OBVIOUS
<1>3. PICK S : S = { t \in Sources : quote[t].membership = m }
  OBVIOUS
<1>4. PICK T : T = { t \in Sources : quote'[t].membership = m }
  OBVIOUS
<1>5. /\ held'[s] = rs /\ \A t \in Sources \ { s } : held'[t] = held[t]
      /\ quote'[s] = q /\ \A t \in Sources \ { s } : quote'[t] = quote[t]
  BY DEF RewardTypeOK
<1>6. UsedBy(m, b) = Sum(f, S) /\ UsedBy(m, b)' = Sum(g, T)
  BY <1>1, <1>2, <1>3, <1>4 DEF UsedBy, QuotedWith, Sum
<1>7. S \subseteq Sources /\ IsFiniteSet(S)
  BY <1>3, FS_Subset
<1>8. \A t \in Sources : f[t] \in Nat
  BY <1>1, Uses
<1>9. Unreleased(rs) = rs
  BY DEF Unreleased
<1>10. g[s] = AmountIn(rs, b) /\ g[s] \in Nat
  BY <1>2, <1>5, <1>9, AmountType
<1>11. \A t \in Sources \ { s } : g[t] = f[t]
  BY <1>1, <1>2, <1>5
<1>12. /\ S \ { s } = T \ { s } /\ T \subseteq Sources /\ IsFiniteSet(T)
       /\ s \in T <=> m = q.membership
  BY <1>3, <1>4, <1>5, FS_Subset
<1>13. /\ \A t \in S : f[t] \in Int
       /\ \A t \in T : g[t] \in Int
       /\ \A t \in S \ { s } : g[t] = f[t]
  BY <1>7, <1>8, <1>10, <1>11, <1>12
<1>14. Sum(g, T) = Sum(f, S) - (IF s \in S THEN f[s] ELSE 0) + (IF s \in T THEN g[s] ELSE 0)
  <2> HIDE RewardAssumption
  <2> QED
    BY <1>7, <1>12, <1>13, SumMove
<1>15. Sum(f, S) \in Int /\ s \notin S
  BY <1>3, <1>7, <1>13, SumType
<1> QED
  BY <1>6, <1>10, <1>12, <1>14, <1>15

\* Reservations that are consumed still count, those that are released do not.
LEMMA UsedByShrinks ==
  ASSUME RewardTypeOK, NEW s \in Sources,
         NEW q \in Quote, quote' = [quote EXCEPT ![s] = q], q.membership = quote[s].membership,
         NEW rs \in SUBSET Reservation, held' = [held EXCEPT ![s] = rs], NEW m, NEW b,
         AmountIn(Unreleased(rs), b)
           <= AmountIn(Unreleased(held[s]), b)
  PROVE  UsedBy(m, b)' <= UsedBy(m, b) /\ UsedBy(m, b)' \in Nat
<1>1. PICK f : f = [t \in Sources |-> AmountIn(Unreleased(held[t]), b)]
  OBVIOUS
<1>2. PICK g : g = [t \in Sources |-> AmountIn(Unreleased(held'[t]), b)]
  OBVIOUS
<1>3. PICK S : S = { t \in Sources : quote[t].membership = m }
  OBVIOUS
<1>4. /\ held'[s] = rs /\ \A t \in Sources \ { s } : held'[t] = held[t]
      /\ quote'[s] = q /\ \A t \in Sources \ { s } : quote'[t] = quote[t]
  BY DEF RewardTypeOK
<1>5. { t \in Sources : quote'[t].membership = m } = S
  BY <1>3, <1>4
<1>6. UsedBy(m, b) = Sum(f, S) /\ UsedBy(m, b)' = Sum(g, S)
  BY <1>1, <1>2, <1>3, <1>5 DEF UsedBy, QuotedWith, Sum
<1>7. S \subseteq Sources /\ IsFiniteSet(S)
  BY <1>3, FS_Subset
<1>8. \A t \in Sources : f[t] \in Nat
  BY <1>1, Uses
<1>9. Unreleased(rs) \in SUBSET Reservation
  BY DEF Unreleased
<1>10. g[s] <= f[s] /\ g[s] \in Nat
  BY <1>1, <1>2, <1>4, <1>9, AmountType
<1>11. \A t \in Sources \ { s } : g[t] = f[t]
  BY <1>1, <1>2, <1>4
<1>12. /\ \A t \in S : f[t] \in Int /\ g[t] \in Int
       /\ \A t \in S \ { s } : g[t] = f[t]
  BY <1>7, <1>8, <1>10, <1>11
<1>13. Sum(g, S) = Sum(f, S) - (IF s \in S THEN f[s] ELSE 0) + (IF s \in S THEN g[s] ELSE 0)
  <2> HIDE RewardAssumption
  <2> QED
    BY <1>7, <1>12, SumMove, SMTT(30)
<1>14. Sum(f, S) \in Int /\ Sum(g, S) \in Nat
  <2>1. \A t \in S : g[t] \in Nat
    BY <1>7, <1>8, <1>10, <1>11
  <2> QED
    BY <1>7, <1>12, <2>1, SumType
<1> QED
  BY <1>6, <1>8, <1>10, <1>13, <1>14

LEMMA SumOfParts ==
  ASSUME NEW f, f["base"] \in Int, f["bonus"] \in Int
  PROVE  Sum(f, Parts) = f["base"] + f["bonus"]
<1>1. IsFiniteSet({ "bonus" }) /\ "base" \notin { "bonus" } /\ "bonus" \notin {}
  BY FS_Singleton
<1>2. Sum(f, {} \cup { "bonus" }) = f["bonus"] + Sum(f, {})
  BY <1>1, FS_EmptySet, SumAdd
<1>3. Sum(f, { "bonus" }) = f["bonus"]
  BY <1>2, SumEmpty
<1>4. Sum(f, { "bonus" } \cup { "base" }) = f["base"] + Sum(f, { "bonus" })
  BY <1>1, SumAdd
<1>5. Parts = { "bonus" } \cup { "base" }
  BY DEF Parts
<1> QED
  BY <1>3, <1>4, <1>5

LEMMA OwedIs ==
  ASSUME NEW q \in Quote, NEW ev, NEW state
  PROVE  /\ Owed(state, q, ev) = (IF ev["base"].state = state THEN q.base ELSE 0)
                                   + (IF ev["bonus"].state = state THEN q.bonus ELSE 0)
         /\ Owed(state, q, ev) \in Nat
<1>1. PICK f : f = [part \in Parts |-> IF ev[part].state = state THEN Quoted(q, part) ELSE 0]
  OBVIOUS
<1>2. q.base \in Nat /\ q.bonus \in Nat
  BY DEF Quote
<1>3. /\ f["base"] = IF ev["base"].state = state THEN q.base ELSE 0
      /\ f["bonus"] = IF ev["bonus"].state = state THEN q.bonus ELSE 0
  BY <1>1 DEF Parts, Quoted
<1>4. Sum(f, Parts) = f["base"] + f["bonus"]
  BY <1>2, <1>3, SumOfParts
<1> QED
  BY <1>1, <1>2, <1>3, <1>4 DEF Owed, Sum

LEMMA OwedToType ==
  ASSUME RewardTypeOK, NEW state, NEW u
  PROVE  OwedTo(state, u) \in Nat
<1>1. PICK f : f = [s \in Sources |-> Owed(state, quote[s], event[s])]
  OBVIOUS
<1>2. PICK S : S = { s \in Sources : quote[s].user = u }
  OBVIOUS
<1>3. S \subseteq Sources /\ IsFiniteSet(S)
  BY <1>2, FS_Subset
<1>4. \A s \in Sources : f[s] \in Nat
  BY <1>1, OwedIs DEF RewardTypeOK
<1>5. Sum(f, S) \in Nat
  BY <1>3, <1>4, SumType
<1> QED
  BY <1>1, <1>2, <1>5 DEF OwedTo, Sum

\* The quote of s or its events change.
LEMMA OwedToChanges ==
  ASSUME RewardTypeOK, NEW s \in Sources, NEW q \in Quote, quote' = [quote EXCEPT ![s] = q],
         NEW ev \in [Parts -> Event], event' = [event EXCEPT ![s] = ev], NEW state, NEW u
  PROVE  OwedTo(state, u)'
           = OwedTo(state, u)
               - (IF quote[s].user = u THEN Owed(state, quote[s], event[s]) ELSE 0)
               + (IF q.user = u THEN Owed(state, q, ev) ELSE 0)
<1>1. PICK f : f = [t \in Sources |-> Owed(state, quote[t], event[t])]
  OBVIOUS
<1>2. PICK g : g = [t \in Sources |-> Owed(state, quote'[t], event'[t])]
  OBVIOUS
<1>3. PICK S : S = { t \in Sources : quote[t].user = u }
  OBVIOUS
<1>4. PICK T : T = { t \in Sources : quote'[t].user = u }
  OBVIOUS
<1>5. /\ quote'[s] = q /\ \A t \in Sources \ { s } : quote'[t] = quote[t]
      /\ event'[s] = ev /\ \A t \in Sources \ { s } : event'[t] = event[t]
  BY DEF RewardTypeOK
<1>6. OwedTo(state, u) = Sum(f, S) /\ OwedTo(state, u)' = Sum(g, T)
  BY <1>1, <1>2, <1>3, <1>4 DEF OwedTo, Sum
<1>7. /\ S \subseteq Sources /\ IsFiniteSet(S)
      /\ T \subseteq Sources /\ IsFiniteSet(T)
  BY <1>3, <1>4, FS_Subset
<1>8. S \ { s } = T \ { s }
  BY <1>3, <1>4, <1>5
<1>9. \A t \in Sources : f[t] \in Int
  BY <1>1, OwedIs DEF RewardTypeOK
<1>10. f[s] = Owed(state, quote[s], event[s]) /\ g[s] = Owed(state, q, ev) /\ g[s] \in Int
  BY <1>1, <1>2, <1>5, OwedIs
<1>11. \A t \in Sources \ { s } : g[t] = f[t]
  BY <1>1, <1>2, <1>5
<1>12. /\ \A t \in S : f[t] \in Int
       /\ \A t \in T : g[t] \in Int
       /\ \A t \in S \ { s } : g[t] = f[t]
  BY <1>7, <1>9, <1>10, <1>11
<1>13. Sum(g, T) = Sum(f, S) - (IF s \in S THEN f[s] ELSE 0) + (IF s \in T THEN g[s] ELSE 0)
  <2> HIDE RewardAssumption
  <2> QED
    BY <1>7, <1>8, <1>12, SumMove
<1>14. (s \in S <=> quote[s].user = u) /\ (s \in T <=> q.user = u)
  BY <1>3, <1>4, <1>5
<1> QED
  BY <1>6, <1>10, <1>13, <1>14

LEMMA OwedStays ==
  ASSUME UNCHANGED << quote, event >>
  PROVE  \A state, u : OwedTo(state, u)' = OwedTo(state, u)
  BY DEF OwedTo

-----------------------------------------------------------------------------
(* Steps that write nothing but where a transaction stands.                *)

LEMMA RowsStay ==
  ASSUME RewardInv, UNCHANGED << source, quote, held, counter, event, ledger, postedFor >>
  PROVE  KeptInv' /\ BudgetsAccounted' /\ CapsInv' /\ PostedInv' /\ OwedInv'
<1>1. KeptInv' /\ PostedInv'
  BY DEF RewardInv, KeptInv, PostedInv
<1>2. /\ \A state, c : HeldIn(state, c)' = HeldIn(state, c)
      /\ \A m, b : UsedBy(m, b)' = UsedBy(m, b)
  BY SumsStay
<1>3. BudgetsAccounted'
  BY <1>2 DEF RewardInv, BudgetsAccounted
<1>4. CapsInv'
  BY <1>2 DEF RewardInv, CapsInv
<1>5. \A state, u : OwedTo(state, u)' = OwedTo(state, u)
  BY OwedStays
<1>6. OwedInv'
  BY <1>5 DEF RewardInv, OwedInv
<1> QED
  BY <1>1, <1>3, <1>4, <1>6

LEMMA TransactionsStay ==
  ASSUME RewardInv, UNCHANGED << source, quote, held, counter, session >>
  PROVE  SessionsInv' /\ AffordableInv'
<1>1. SessionsInv'
  BY DEF RewardInv, SessionsInv, Stands
<1>2. /\ \A m, b : UsedBy(m, b)' = UsedBy(m, b)
      /\ \A b : Remaining(b)' = Remaining(b)
  BY SumsStay DEF Remaining
<1>3. ASSUME NEW p \in Sessions PROVE Affordable(session[p])'
  <2>1. Affordable(session[p]) /\ session'[p] = session[p]
    BY DEF RewardInv, AffordableInv
  <2> QED
    BY <1>2, <2>1 DEF Affordable, CapAllows
<1> QED
  BY <1>1, <1>3 DEF AffordableInv

LEMMA SessionMoves ==
  ASSUME RewardInv, NEW p \in Sessions, NEW x \in Session, Unwritten,
         session' = [session EXCEPT ![p] = x], Stands(x, source, quote), Affordable(x),
         \A q \in Sessions \ { p } : x.locks \cap session[q].locks = {}
  PROVE  RewardInv'
<1>1. session'[p] = x /\ \A q \in Sessions \ { p } : session'[q] = session[q]
  BY DEF RewardInv, RewardTypeOK
<1>2. RewardTypeOK'
  BY DEF RewardInv, RewardTypeOK, RuleTypeOK, Unwritten
<1>3. KeptInv' /\ BudgetsAccounted' /\ CapsInv' /\ PostedInv' /\ OwedInv'
  BY RowsStay DEF Unwritten
<1>4. SessionsInv'
  <2>1. \A q \in Sessions : Stands(session'[q], source', quote')
    BY <1>1 DEF RewardInv, SessionsInv, Unwritten
  <2>2. \A q, r \in Sessions : q # r => session'[q].locks \cap session'[r].locks = {}
    BY <1>1 DEF RewardInv, SessionsInv
  <2> QED
    BY <2>1, <2>2 DEF SessionsInv
<1>5. AffordableInv'
  <2>1. /\ \A m, b : UsedBy(m, b)' = UsedBy(m, b)
        /\ \A b : Remaining(b)' = Remaining(b)
    BY SumsStay DEF Unwritten, Remaining
  <2>2. \A m, b, n : CapAllows(m, b, n) <=> CapAllows(m, b, n)'
    BY <2>1 DEF CapAllows
  <2> SUFFICES ASSUME NEW q \in Sessions PROVE Affordable(session[q])'
    BY DEF AffordableInv
  <2>3. PICK y : y = session'[q]
    OBVIOUS
  <2>4. Affordable(y)
    BY <1>1, <2>3 DEF RewardInv, AffordableInv
  <2> QED
    BY <2>1, <2>2, <2>3, <2>4 DEF Affordable, CapAllows
<1> QED
  BY <1>2, <1>3, <1>4, <1>5 DEF RewardInv

LEMMA IdleStands == Idle \in Session /\ \A src, qs : Stands(Idle, src, qs) /\ Affordable(Idle)
  BY DEF Idle, Session, Stands, Affordable, Now

LEMMA EndKeeps ==
  ASSUME RewardInv, NEW p \in Sessions, Ends(p), Unwritten
  PROVE  RewardInv'
<1>1. Idle.locks = {}
  BY DEF Idle
<1>2. Idle \in Session /\ Stands(Idle, source, quote) /\ Affordable(Idle)
  BY IdleStands
<1>3. PICK x : x = Idle
  OBVIOUS
<1>4. session' = [session EXCEPT ![p] = x]
  BY <1>3 DEF Ends
<1> QED
  BY <1>1, <1>2, <1>3, <1>4, SessionMoves

\* A transaction locks rows and goes on.
LEMMA LockKeeps ==
  ASSUME RewardInv, NEW p \in Sessions, NEW rows \in SUBSET Rows, Free(p, rows), Unwritten,
         NEW read \in Session, Locks(p, rows, read),
         \A q \in Sessions \ { p } : read.locks \cap session[q].locks = {},
         NEW x, x = [ read EXCEPT !.locks = @ \cup rows ],
         Stands(x, source, quote), Affordable(x)
  PROVE  RewardInv'
<1>1. x \in Session /\ x.locks = read.locks \cup rows
  BY DEF Session
<1>2. \A q \in Sessions \ { p } : x.locks \cap session[q].locks = {}
  BY <1>1 DEF Free
<1>3. session' = [session EXCEPT ![p] = x]
  BY DEF Locks
<1> QED
  BY <1>1, <1>2, <1>3, SessionMoves

LEMMA RowTypes ==
  /\ \A s \in Sources : SourceRow(s) \in Rows /\ QuoteRow(s) \in Rows
  /\ BaseBudgets \subseteq Rows /\ BonusBudgets \subseteq Rows
  BY DEF Rows, Counters

LEMMA QuoteSourceKeeps ==
  ASSUME RewardInv, NEW p \in Sessions, NEW s \in Sources, NEW u \in Users,
         NEW b \in BaseBudgets, NEW policy \in Policies, QuoteSource(p, s, u, b, policy)
  PROVE  RewardInv'
<1>1. PICK v \in Versions :
        Locks(p, { SourceRow(s) },
              [ Idle EXCEPT !.pc = "budget", !.source = s, !.user = u, !.budget = b,
                            !.policy = policy, !.asOf = now, !.rule = v,
                            !.base = QuotedReward(Terms[v]) ])
  BY DEF QuoteSource
<1>2. PICK read : read = [ Idle EXCEPT !.pc = "budget", !.source = s, !.user = u, !.budget = b,
                             !.policy = policy, !.asOf = now, !.rule = v,
                             !.base = QuotedReward(Terms[v]) ]
  OBVIOUS
<1>3. QuotedReward(Terms[v]) \in Nat
  BY RewardType
<1>4. /\ read.pc = "budget" /\ read.source = s /\ read.user = u /\ read.budget = b
      /\ read.locks = {} /\ read.bonusBudgets = {} /\ read.bonus = 0
      /\ read \in Session
  BY <1>2, <1>3 DEF Idle, Session, RewardInv, RewardTypeOK
<1>5. PICK x : x = [ read EXCEPT !.locks = @ \cup { SourceRow(s) } ]
  OBVIOUS
<1>6. /\ x.pc = "budget" /\ x.source = s /\ x.user = u /\ x.budget = b
      /\ x.locks = { SourceRow(s) } /\ x.bonusBudgets = {} /\ x.bonus = 0
  BY <1>4, <1>5 DEF Session
<1>7. Stands(x, source, quote) /\ Affordable(x)
  BY <1>6 DEF Stands, Affordable, QuoteSource, Eligible
<1>8. Free(p, { SourceRow(s) }) /\ Unwritten /\ { SourceRow(s) } \in SUBSET Rows
  BY RowTypes DEF QuoteSource
<1> QED
  BY <1>1, <1>2, <1>4, <1>5, <1>7, <1>8, LockKeeps

LEMMA ValidateBudgetKeeps ==
  ASSUME RewardInv, NEW p \in Sessions, ValidateBudget(p)
  PROVE  RewardInv'
<1>1. PICK y : y = session[p]
  OBVIOUS
<1>2. /\ y \in Session /\ y.pc = "budget" /\ Stands(y, source, quote) /\ Unwritten
      /\ Free(p, { y.budget })
      /\ \A q \in Sessions \ { p } : y.locks \cap session[q].locks = {}
  BY <1>1 DEF ValidateBudget, At, RewardInv, RewardTypeOK, SessionsInv
<1>3. Ends(p) \/ Locks(p, { y.budget }, [ y EXCEPT !.pc = "bonus" ])
  BY <1>1 DEF ValidateBudget
<1>4. CASE Ends(p)
  BY <1>2, <1>4, EndKeeps
<1>5. CASE Locks(p, { y.budget }, [ y EXCEPT !.pc = "bonus" ])
  <2>1. PICK read : read = [ y EXCEPT !.pc = "bonus" ]
    OBVIOUS
  <2>2. /\ read.pc = "bonus" /\ read.source = y.source /\ read.user = y.user
        /\ read.budget = y.budget /\ read.locks = y.locks
        /\ read.bonusBudgets = y.bonusBudgets /\ read.bonus = y.bonus
        /\ read \in Session
    BY <1>2, <2>1 DEF Session
  <2>3. PICK x : x = [ read EXCEPT !.locks = @ \cup { y.budget } ]
    OBVIOUS
  <2>4. /\ x.pc = "bonus" /\ x.source = y.source /\ x.user = y.user
        /\ x.budget = y.budget /\ x.locks = y.locks \cup { y.budget }
        /\ x.bonusBudgets = y.bonusBudgets /\ x.bonus = y.bonus
    BY <2>2, <2>3 DEF Session
  <2>5. y.bonusBudgets = {} /\ y.bonus = 0 /\ y.budget \in BaseBudgets
    BY <1>2 DEF Stands
  <2>6. Stands(x, source, quote) /\ Affordable(x)
    BY <1>2, <2>4, <2>5 DEF Stands, Affordable
  <2>7. { y.budget } \in SUBSET Rows
    BY <2>5, RowTypes
  <2> QED
    BY <1>2, <1>5, <2>1, <2>2, <2>3, <2>6, <2>7, LockKeeps
<1> QED
  BY <1>3, <1>4, <1>5

LEMMA ResolveBonusKeeps ==
  ASSUME RewardInv, NEW p \in Sessions, ResolveBonus(p)
  PROVE  RewardInv'
<1>1. PICK y : y = session[p]
  OBVIOUS
<1>2. /\ y \in Session /\ y.pc = "bonus" /\ Stands(y, source, quote) /\ Unwritten
      /\ \A q \in Sessions \ { p } : y.locks \cap session[q].locks = {}
  BY <1>1 DEF ResolveBonus, At, RewardInv, RewardTypeOK, SessionsInv
<1>3. /\ y.bonusBudgets = {} /\ y.bonus = 0 /\ y.base \in Nat /\ y.asOf \in Now
  BY <1>2 DEF Stands, Session
\* The bonus is left out.
<1>4. ASSUME NEW m \in Memberships \cup { None }, NEW bs \in SUBSET BonusBudgets, Free(p, bs),
             NEW read, read = [ y EXCEPT !.pc = "guard", !.membership = m ],
             Locks(p, bs, read)
      PROVE  RewardInv'
  <2>1. /\ read.pc = "guard" /\ read.source = y.source /\ read.user = y.user
        /\ read.budget = y.budget /\ read.locks = y.locks
        /\ read.bonusBudgets = {} /\ read.bonus = 0
        /\ read \in Session
    BY <1>2, <1>3, <1>4 DEF Session
  <2>2. PICK x : x = [ read EXCEPT !.locks = @ \cup bs ]
    OBVIOUS
  <2>3. /\ x.pc = "guard" /\ x.source = y.source /\ x.user = y.user
        /\ x.budget = y.budget /\ x.locks = y.locks \cup bs
        /\ x.bonusBudgets = {} /\ x.bonus = 0
    BY <2>1, <2>2 DEF Session
  <2>4. Stands(x, source, quote) /\ Affordable(x)
    BY <1>2, <2>3 DEF Stands, Affordable
  <2>5. bs \in SUBSET Rows
    BY RowTypes
  <2> QED
    BY <1>2, <1>4, <2>1, <2>2, <2>4, <2>5, LockKeeps
\* The bonus is granted.
<1>5. ASSUME NEW m \in Memberships, NEW bs \in SUBSET BonusBudgets, Free(p, bs),
             NEW n, n = MembershipBonus(y.base, Bps[m]), n > 0, BonusAvailable(m, bs, n),
             NEW read,
             read = [ y EXCEPT !.pc = "guard", !.membership = m, !.bonus = n, !.bonusBudgets = bs ],
             Locks(p, bs, read)
      PROVE  RewardInv'
  <2>1. n \in Nat
    BY <1>3, <1>5, BonusType
  <2>2. /\ read.pc = "guard" /\ read.source = y.source /\ read.user = y.user
        /\ read.budget = y.budget /\ read.locks = y.locks /\ read.membership = m
        /\ read.bonusBudgets = bs /\ read.bonus = n
        /\ read \in Session
    BY <1>2, <1>3, <1>5, <2>1, ZenonT(30) DEF Session
  <2>3. PICK x : x = [ read EXCEPT !.locks = @ \cup bs ]
    OBVIOUS
  <2>4. /\ x.pc = "guard" /\ x.source = y.source /\ x.user = y.user
        /\ x.budget = y.budget /\ x.locks = y.locks \cup bs /\ x.membership = m
        /\ x.bonusBudgets = bs /\ x.bonus = n
    BY <2>2, <2>3 DEF Session
  <2>5. Stands(x, source, quote)
    BY <1>2, <1>5, <2>4 DEF Stands, BonusAvailable
  <2>6. Affordable(x)
    BY <1>5, <2>4 DEF Affordable, BonusAvailable
  <2>7. bs \in SUBSET Rows
    BY RowTypes
  <2> QED
    BY <1>2, <1>5, <2>2, <2>3, <2>5, <2>6, <2>7, LockKeeps
<1>6. Free(p, {})
  BY DEF Free
<1>7. \A m, t : Applicable(m, t) \in SUBSET BonusBudgets
  BY DEF Applicable
<1>8. [ y EXCEPT !.pc = "guard" ] = [ y EXCEPT !.pc = "guard", !.membership = y.membership ]
      /\ y.membership \in Memberships \cup { None }
  BY <1>2 DEF Session
<1>9. \/ Ends(p)
      \/ Locks(p, {}, [ y EXCEPT !.pc = "guard" ])
      \/ \E m \in Memberships :
           LET bs     == Applicable(m, y.asOf)
               amount == MembershipBonus(y.base, Bps[m])
               base   == [ y EXCEPT !.pc = "guard", !.membership = m ]
           IN /\ Free(p, bs)
              /\ \/ amount > 0 /\ BonusAvailable(m, bs, amount)
                    /\ Locks(p, bs, [ base EXCEPT !.bonus = amount, !.bonusBudgets = bs ])
                 \/ Locks(p, bs, base)
                 \/ Locks(p, {}, base)
  BY <1>1 DEF ResolveBonus
<1>10. CASE Ends(p)
  BY <1>2, <1>10, EndKeeps
<1>11. CASE Locks(p, {}, [ y EXCEPT !.pc = "guard" ])
  BY <1>4, <1>6, <1>8, <1>11
<1>12. ASSUME NEW m \in Memberships, NEW bs, bs = Applicable(m, y.asOf),
              NEW n, n = MembershipBonus(y.base, Bps[m]),
              NEW base, base = [ y EXCEPT !.pc = "guard", !.membership = m ],
              Free(p, bs),
              \/ n > 0 /\ BonusAvailable(m, bs, n)
                 /\ Locks(p, bs, [ base EXCEPT !.bonus = n, !.bonusBudgets = bs ])
              \/ Locks(p, bs, base)
              \/ Locks(p, {}, base)
       PROVE  RewardInv'
  <2>1. bs \in SUBSET BonusBudgets
    BY <1>7, <1>12
  <2>2. CASE n > 0 /\ BonusAvailable(m, bs, n)
             /\ Locks(p, bs, [ base EXCEPT !.bonus = n, !.bonusBudgets = bs ])
    <3>1. [ base EXCEPT !.bonus = n, !.bonusBudgets = bs ]
            = [ y EXCEPT !.pc = "guard", !.membership = m, !.bonus = n, !.bonusBudgets = bs ]
      BY <1>2, <1>12 DEF Session
    <3> QED
      BY <1>5, <1>12, <2>1, <2>2, <3>1
  <2>3. CASE Locks(p, bs, base)
    BY <1>4, <1>12, <2>1, <2>3
  <2>4. CASE Locks(p, {}, base)
    BY <1>4, <1>6, <1>12, <2>4
  <2> QED
    BY <1>12, <2>2, <2>3, <2>4
<1> QED
  BY <1>9, <1>10, <1>11, <1>12

LEMMA ExpireQuoteKeeps ==
  ASSUME RewardInv, NEW p \in Sessions, NEW s \in Sources, ExpireQuote(p, s)
  PROVE  RewardInv'
<1>1. PICK read : read = [ Idle EXCEPT !.pc = "release", !.source = s ]
  OBVIOUS
<1>2. /\ read.pc = "release" /\ read.source = s
      /\ read.locks = {} /\ read.bonusBudgets = {} /\ read.bonus = 0
      /\ read \in Session
  <2>1. 0 \in Now
    BY DEF Now
  <2> QED
    BY <1>1, <2>1 DEF Idle, Session
<1>3. PICK x : x = [ read EXCEPT !.locks = @ \cup { QuoteRow(s) } ]
  OBVIOUS
<1>4. /\ x.pc = "release" /\ x.source = s
      /\ x.locks = { QuoteRow(s) } /\ x.bonusBudgets = {} /\ x.bonus = 0
  BY <1>2, <1>3 DEF Session
<1>5. Stands(x, source, quote) /\ Affordable(x)
  BY <1>4 DEF Stands, Affordable, ExpireQuote
<1>6. /\ Free(p, { QuoteRow(s) }) /\ Unwritten /\ { QuoteRow(s) } \in SUBSET Rows
      /\ Locks(p, { QuoteRow(s) }, read)
  BY <1>1, RowTypes DEF ExpireQuote
<1> QED
  BY <1>2, <1>3, <1>5, <1>6, LockKeeps

LEMMA IssueQuoteKeeps ==
  ASSUME RewardInv, NEW p \in Sessions, NEW s \in Sources, NEW key \in Keys, IssueQuote(p, s, key)
  PROVE  RewardInv'
<1>1. PICK read : read = [ Idle EXCEPT !.pc = "issue", !.source = s, !.key = key, !.asOf = now ]
  OBVIOUS
<1>2. /\ read.pc = "issue" /\ read.source = s /\ read.key = key
      /\ read.locks = {} /\ read.bonusBudgets = {} /\ read.bonus = 0
      /\ read \in Session
  BY <1>1 DEF Idle, Session, RewardInv, RewardTypeOK
<1>3. PICK x : x = [ read EXCEPT !.locks = @ \cup { QuoteRow(s) } ]
  OBVIOUS
<1>4. /\ x.pc = "issue" /\ x.source = s /\ x.key = key
      /\ x.locks = { QuoteRow(s) } /\ x.bonusBudgets = {} /\ x.bonus = 0
  BY <1>2, <1>3 DEF Session
<1>5. Stands(x, source, quote) /\ Affordable(x)
  BY <1>4 DEF Stands, Affordable, IssueQuote
<1>6. /\ Free(p, { QuoteRow(s) }) /\ Unwritten /\ { QuoteRow(s) } \in SUBSET Rows
      /\ Locks(p, { QuoteRow(s) }, read)
  BY <1>1, RowTypes DEF IssueQuote
<1> QED
  BY <1>2, <1>3, <1>5, <1>6, LockKeeps

-----------------------------------------------------------------------------
(* Steps that write the rows of one source.                                *)

\* A counter follows the reservations of a source.
CounterFollows(c, before, after) ==
  LET active == AmountIn(InState(after, "ACTIVE"), c) - AmountIn(InState(before, "ACTIVE"), c)
      issued == AmountIn(InState(after, "CONSUMED"), c)
                  - AmountIn(InState(before, "CONSUMED"), c)
  IN /\ counter'[c].reserved = counter[c].reserved + active
     /\ counter'[c].consumed = counter[c].consumed + issued
     /\ active + issued <= Remaining(c)

\* The budgets after the reservations of s have become rs.
LEMMA BudgetsFollow ==
  ASSUME RewardInv, NEW s \in Sources, NEW rs \in SUBSET Reservation,
         held' = [held EXCEPT ![s] = rs],
         counter' \in [Counters -> [ reserved : Int, consumed : Int ]],
         \A c \in Counters : CounterFollows(c, held[s], rs)
  PROVE  /\ BudgetsAccounted'
         /\ counter' \in [Counters -> [ reserved : Nat, consumed : Nat ]]
<1>1. RewardTypeOK
  BY DEF RewardInv
<1>2. \A state, c :
        HeldIn(state, c)' = HeldIn(state, c) - AmountIn(InState(held[s], state), c)
                              + AmountIn(InState(rs, state), c)
  BY <1>1, HeldInChanges
<1>3. \A state, c : HeldIn(state, c)' \in Nat
  <2>1. held' \in [Sources -> SUBSET Reservation]
    BY <1>1 DEF RewardTypeOK
  <2>2. PICK h : h = held'
    OBVIOUS
  <2>3. \A state, c : HeldIn(state, c)' = InHeld(h, state, c)
    BY <2>2 DEF HeldIn, InHeld
  <2> QED
    BY <2>1, <2>2, <2>3, InHeldType
<1>4. ASSUME NEW c \in Counters
      PROVE  /\ counter'[c] = [ reserved |-> HeldIn("ACTIVE", c)', consumed |-> HeldIn("CONSUMED", c)' ]
             /\ HeldIn("ACTIVE", c)' + HeldIn("CONSUMED", c)' <= Capacity[c]
             /\ counter'[c] \in [ reserved : Nat, consumed : Nat ]
  <2>1. PICK a, a1, i, i1 :
          /\ a = AmountIn(InState(held[s], "ACTIVE"), c) /\ a1 = AmountIn(InState(rs, "ACTIVE"), c)
          /\ i = AmountIn(InState(held[s], "CONSUMED"), c)
          /\ i1 = AmountIn(InState(rs, "CONSUMED"), c)
    OBVIOUS
  <2>2. InState(rs, "ACTIVE") \in SUBSET Reservation /\ InState(rs, "CONSUMED") \in SUBSET Reservation
    BY DEF InState
  <2>3. a \in Nat /\ a1 \in Nat /\ i \in Nat /\ i1 \in Nat
    BY <1>1, <2>1, <2>2, Uses, AmountType
  <2>4. /\ HeldIn("ACTIVE", c)' = HeldIn("ACTIVE", c) - a + a1
        /\ HeldIn("CONSUMED", c)' = HeldIn("CONSUMED", c) - i + i1
    BY <2>1, <1>2
  <2>5. /\ counter[c] = [ reserved |-> HeldIn("ACTIVE", c), consumed |-> HeldIn("CONSUMED", c) ]
        /\ HeldIn("ACTIVE", c) \in Nat /\ HeldIn("CONSUMED", c) \in Nat
    BY <1>1, HeldInType DEF RewardInv, BudgetsAccounted
  <2>6. /\ counter'[c].reserved = counter[c].reserved + (a1 - a)
        /\ counter'[c].consumed = counter[c].consumed + (i1 - i)
        /\ (a1 - a) + (i1 - i) <= Remaining(c)
    BY <2>1 DEF CounterFollows
  <2>7. /\ counter'[c].reserved = HeldIn("ACTIVE", c)'
        /\ counter'[c].consumed = HeldIn("CONSUMED", c)'
    BY <2>3, <2>4, <2>5, <2>6
  <2>8. Capacity[c] \in Nat
    OBVIOUS
  <2>9. HeldIn("ACTIVE", c)' + HeldIn("CONSUMED", c)' <= Capacity[c]
    BY <2>3, <2>4, <2>5, <2>6, <2>8 DEF Remaining
  <2>10. HeldIn("ACTIVE", c)' \in Nat /\ HeldIn("CONSUMED", c)' \in Nat
    BY <1>3
  <2>11. counter'[c] \in [ reserved : Int, consumed : Int ]
    OBVIOUS
  <2> QED
    BY <2>7, <2>9, <2>10, <2>11
<1> QED
  BY <1>4 DEF BudgetsAccounted

\* What the other transactions rely on after a step on s that p makes.
LEMMA OthersStand ==
  ASSUME RewardInv, NEW p \in Sessions, NEW s \in Sources,
         \A t \in Sources \ { s } : source'[t] = source[t] /\ quote'[t] = quote[t],
         \A q \in Sessions \ { p } :
           session[q].source = s =>
             /\ session[q].pc \in { "budget", "bonus", "guard" } => source'[s] = source[s]
             /\ session[q].pc \notin { "release", "issue" },
         session' = session \/ Ends(p), session' = session => session[p].pc = "idle"
  PROVE  SessionsInv'
<1>1. ASSUME NEW q \in Sessions \ { p } PROVE Stands(session[q], source', quote')
  <2>1. Stands(session[q], source, quote)
    BY DEF RewardInv, SessionsInv
  <2> QED
    BY <2>1 DEF Stands
<1>2. Stands(Idle, source', quote') /\ Idle.locks = {}
  BY IdleStands DEF Idle
<1>3. CASE session' = session
  <2>1. Stands(session[p], source', quote')
    BY <1>3 DEF Stands, RewardInv, SessionsInv
  <2>2. \A q \in Sessions : Stands(session'[q], source', quote')
    BY <1>1, <1>3, <2>1
  <2> QED
    BY <1>3, <2>2 DEF RewardInv, SessionsInv
<1>4. CASE Ends(p)
  <2>1. session'[p] = Idle /\ \A q \in Sessions \ { p } : session'[q] = session[q]
    BY <1>4 DEF Ends, RewardInv, RewardTypeOK
  <2>2. \A q \in Sessions : Stands(session'[q], source', quote')
    BY <1>1, <1>2, <2>1
  <2>3. \A q, r \in Sessions : q # r => session'[q].locks \cap session'[r].locks = {}
    BY <1>2, <2>1 DEF RewardInv, SessionsInv
  <2> QED
    BY <2>2, <2>3 DEF SessionsInv
<1> QED
  BY <1>3, <1>4

LEMMA OthersAfford ==
  ASSUME RewardInv, NEW p \in Sessions, session' = session \/ Ends(p),
         session' = session => session[p].bonusBudgets = {},
         \A q \in Sessions \ { p } : \A b \in session[q].bonusBudgets :
           /\ Remaining(b) <= Remaining(b)' /\ Remaining(b)' \in Int
           /\ \A m \in Memberships : UsedBy(m, b)' <= UsedBy(m, b) /\ UsedBy(m, b)' \in Nat
  PROVE  AffordableInv'
<1> SUFFICES ASSUME NEW q \in Sessions PROVE Affordable(session[q])'
  BY DEF AffordableInv
<1>1. session'[p].bonusBudgets = {} /\ \A r \in Sessions \ { p } : session'[r] = session[r]
  BY DEF Ends, RewardInv, RewardTypeOK, Idle
<1>2. CASE q = p
  BY <1>1, <1>2 DEF Affordable
<1>3. CASE q # p
  <2>1. PICK x : x = session[q]
    OBVIOUS
  <2>2. /\ x \in Session /\ Affordable(x) /\ RewardTypeOK /\ session'[q] = x
    BY <1>1, <1>3, <2>1 DEF RewardInv, RewardTypeOK, AffordableInv
  <2>3. x.bonusBudgets \subseteq BonusBudgets /\ x.bonus \in Nat
    BY <2>2 DEF Session
  <2>4. ASSUME NEW b \in x.bonusBudgets
        PROVE  /\ x.membership \in Memberships
               /\ x.bonus <= Remaining(b)'
               /\ UserCap[b] # None => UsedBy(x.membership, b)' + x.bonus <= UserCap[b]
    <3>1. /\ x.membership \in Memberships /\ x.bonus <= Remaining(b)
          /\ UserCap[b] # None => UsedBy(x.membership, b) + x.bonus <= UserCap[b]
      BY <2>2 DEF Affordable, CapAllows
    <3>2. Remaining(b) \in Int /\ b \in BonusBudgets
      <4>1. b \in Counters
        BY <2>3 DEF Counters
      <4>2. counter[b] \in [ reserved : Nat, consumed : Nat ] /\ Capacity[b] \in Nat
        BY <2>2, <4>1 DEF RewardTypeOK
      <4> QED
        BY <2>3, <4>2 DEF Remaining
    <3>3. x.bonus <= Remaining(b)'
      BY <1>3, <2>1, <2>3, <3>1, <3>2
    <3>4. UsedBy(x.membership, b) \in Nat
      BY <2>2, UsedByType
    <3>5. UserCap[b] # None => UserCap[b] \in Nat
      BY <3>2
    <3>6. UsedBy(x.membership, b)' <= UsedBy(x.membership, b) /\ UsedBy(x.membership, b)' \in Nat
      <4>1. PICK m \in Memberships : m = x.membership
        BY <3>1
      <4> QED
        BY <1>3, <2>1, <4>1
    <3> QED
      BY <2>3, <3>1, <3>3, <3>4, <3>5, <3>6
  <2> QED
    BY <2>2, <2>4 DEF Affordable, CapAllows
<1> QED
  BY <1>2, <1>3

LEMMA RemainingType ==
  ASSUME RewardInv, NEW c \in Counters
  PROVE  Remaining(c) \in Nat
<1>1. /\ counter[c] = [ reserved |-> HeldIn("ACTIVE", c), consumed |-> HeldIn("CONSUMED", c) ]
      /\ HeldIn("ACTIVE", c) + HeldIn("CONSUMED", c) <= Capacity[c]
      /\ HeldIn("ACTIVE", c) \in Nat /\ HeldIn("CONSUMED", c) \in Nat /\ Capacity[c] \in Nat
  BY HeldInType DEF RewardInv, BudgetsAccounted
<1> QED
  BY <1>1 DEF Remaining

LEMMA NoQuoteOwes ==
  ASSUME NEW q \in Quote, NEW ev, Earned(q, ev), q.status # "CONSUMED",
         NEW state \in { "PENDING", "AVAILABLE" }
  PROVE  Owed(state, q, ev) = 0
<1>1. ev["base"].state = "NONE" /\ ev["bonus"].state = "NONE"
  BY DEF Earned, Parts, NoEvent
<1> QED
  BY <1>1, OwedIs

LEMMA CommitQuoteKeeps ==
  ASSUME RewardInv, NEW p \in Sessions, CommitQuote(p)
  PROVE  RewardInv'
<1>1. PICK y : y = session[p]
  OBVIOUS
<1>2. /\ y \in Session /\ y.pc = "guard" /\ Stands(y, source, quote) /\ Affordable(y) /\ Ends(p)
      /\ \A q \in Sessions \ { p } : y.locks \cap session[q].locks = {}
      /\ RewardTypeOK
  BY <1>1 DEF CommitQuote, At, RewardInv, RewardTypeOK, SessionsInv, AffordableInv
<1>3. PICK s \in Sources : s = y.source
  BY <1>2 DEF Stands
<1>4. PICK rs : rs = NewReservations(y)
  OBVIOUS
<1>5. PICK q : q = [ status |-> "OPEN", user |-> y.user, base |-> y.base, bonus |-> y.bonus,
                     membership |-> y.membership, expires |-> y.asOf + QuoteTtl,
                     started |-> None ]
  OBVIOUS
<1>6. CASE UNCHANGED << quote, source, held, counter >>
  <2>1. Unwritten
    BY <1>6 DEF CommitQuote, Unwritten
  <2> QED
    BY <1>2, <2>1, EndKeeps
<1>7. CASE /\ GuardrailsAllow(Exposures(y)) /\ y.base <= Remaining(y.budget)
           /\ quote' = [quote EXCEPT ![s] = q]
           /\ source' = [source EXCEPT ![s] = "QUOTED"]
           /\ held' = [held EXCEPT ![s] = rs]
           /\ counter' = ReserveExposure(
                ReserveBonusBudget(ReserveRewardBudget(counter, rs), rs), rs)
  <2>1. /\ source[s] = "CREATED" /\ SourceRow(s) \in y.locks /\ y.budget \in BaseBudgets
        /\ y.user \in Users /\ (y.bonus > 0 <=> y.bonusBudgets # {})
        /\ y.bonusBudgets \subseteq y.locks /\ y.bonusBudgets \subseteq BonusBudgets
    BY <1>2, <1>3 DEF Stands, Session
  <2>2. /\ quote[s] = NoQuote /\ held[s] = {} /\ quote[s].status = "NONE"
        /\ quote[s].user = None /\ quote[s].membership = None
        /\ Earned(quote[s], event[s])
    <3>1. Kept(source[s], quote[s], held[s], event[s])
      BY DEF RewardInv, KeptInv
    <3> QED
      BY <2>1, <3>1 DEF Kept, NoQuote
  <2>3. /\ rs \in SUBSET Reservation /\ OncePerCounter(rs) /\ \A r \in rs : r.state = "ACTIVE"
        /\ Funded(q, rs)
        /\ \A b \in BonusBudgets : b \in { r.counter : r \in rs } <=> b \in y.bonusBudgets
        /\ \A r \in rs : \/ r.counter = y.budget /\ r.amount = y.base
                         \/ r.counter \in y.bonusBudgets /\ r.amount = y.bonus
                         \/ r \in Exposures(y)
    <3>1. q.base = y.base /\ q.bonus = y.bonus
      BY <1>5
    <3> QED
      BY <1>2, <1>4, <2>1, <3>1, NewReservation
  <2>4. /\ q \in Quote /\ q.status = "OPEN" /\ q.user = y.user /\ q.membership = y.membership
        /\ q.started = None /\ q.bonus = y.bonus
    <3>1. y.asOf + QuoteTtl \in Nat
      BY <1>2 DEF Session, Now
    <3> QED
      BY <1>2, <1>5, <3>1 DEF Session, Quote
  <2>5. \A c \in Counters : AmountIn(rs, c) <= Remaining(c) /\ AmountIn(rs, c) \in Nat
    <3> TAKE c \in Counters
    <3>1. Remaining(c) \in Nat
      BY RemainingType
    <3>2. CASE \A r \in rs : r.counter # c
      BY <3>1, <3>2, AmountElsewhere
    <3>3. ASSUME NEW r \in rs, r.counter = c PROVE AmountIn(rs, c) <= Remaining(c)
      <4>1. AmountIn(rs, c) = r.amount
        BY <2>3, <3>3, AmountOf
      <4>2. CASE r.counter = y.budget /\ r.amount = y.base
        BY <1>7, <3>3, <4>1, <4>2
      <4>3. CASE r.counter \in y.bonusBudgets /\ r.amount = y.bonus
        BY <1>2, <3>3, <4>1, <4>3 DEF Affordable
      <4>4. CASE r \in Exposures(y)
        BY <1>7, <3>3, <4>1, <4>4 DEF GuardrailsAllow
      <4> QED
        BY <2>3, <4>2, <4>3, <4>4
    <3> QED
      BY <2>3, <3>2, <3>3, AmountType
  <2>6. counter' = [c \in Counters |-> [ reserved |-> counter[c].reserved + AmountIn(rs, c),
                                         consumed |-> counter[c].consumed ]]
    BY <1>2, <1>7, <2>3, ReservedCounters
  <2>7. /\ InState(rs, "ACTIVE") = rs /\ \A c : AmountIn(InState(rs, "CONSUMED"), c) = 0
        /\ \A c, state : AmountIn(InState(held[s], state), c) = 0
        /\ Unreleased(rs) = rs
    <3>1. InState(rs, "ACTIVE") = rs /\ Unreleased(rs) = rs
      BY <2>3 DEF InState, Unreleased
    <3>2. InState(rs, "CONSUMED") = {} /\ \A state : InState(held[s], state) = {}
      BY <2>2, <2>3 DEF InState
    <3> QED
      BY <3>1, <3>2, AmountElsewhere
  <2>8. \A c \in Counters : counter[c].reserved \in Nat /\ counter[c].consumed \in Nat
    BY <1>2 DEF RewardTypeOK
  <2>9. BudgetsAccounted' /\ counter' \in [Counters -> [ reserved : Nat, consumed : Nat ]]
    <3>1. counter' \in [Counters -> [ reserved : Int, consumed : Int ]]
      BY <2>5, <2>6, <2>8
    <3>2. \A c \in Counters : CounterFollows(c, held[s], rs)
      BY <2>5, <2>6, <2>7, <2>8 DEF CounterFollows
    <3>3. held' = [held EXCEPT ![s] = rs] /\ rs \in SUBSET Reservation
      BY <1>7, <2>3
    <3> QED
      BY <3>1, <3>2, <3>3, BudgetsFollow
  <2>10. \A m \in Memberships : \A b :
           UsedBy(m, b)' = UsedBy(m, b) + IF m = y.membership THEN AmountIn(rs, b) ELSE 0
    <3>1. /\ RewardTypeOK /\ quote[s].membership = None /\ q \in Quote
          /\ rs \in SUBSET Reservation /\ \A r \in rs : r.state = "ACTIVE"
      BY <1>2, <2>2, <2>3, <2>4
    <3>2. quote' = [quote EXCEPT ![s] = q] /\ held' = [held EXCEPT ![s] = rs]
      BY <1>7
    <3>3. \A m \in Memberships : \A b :
            UsedBy(m, b)' = UsedBy(m, b) + IF m = q.membership THEN AmountIn(rs, b) ELSE 0
      BY <3>1, <3>2, UsedByGrows
    <3> QED
      BY <2>4, <3>3
  <2>11. \A b \in BonusBudgets : AmountIn(rs, b) = IF b \in y.bonusBudgets THEN y.bonus ELSE 0
    <3> TAKE b \in BonusBudgets
    <3>1. CASE b \in y.bonusBudgets
      <4>1. PICK r \in rs : r.counter = b
        BY <2>3, <3>1
      <4>2. r.amount = y.bonus
        BY <2>3, <2>4, <4>1 DEF Funded
      <4> QED
        BY <2>3, <3>1, <4>1, <4>2, AmountOf
    <3>2. CASE b \notin y.bonusBudgets
      BY <2>3, <3>2, AmountElsewhere
    <3> QED
      BY <3>1, <3>2
  <2>12. \A b \in BonusBudgets, m \in Memberships : UsedBy(m, b) \in Nat
    BY <1>2, UsedByType
  <2>13. CapsInv'
    <3> SUFFICES ASSUME NEW b \in BonusBudgets, NEW m \in Memberships, UserCap[b] # None
                 PROVE  UsedBy(m, b)' <= UserCap[b]
      BY DEF CapsInv
    <3>1. UsedBy(m, b) <= UserCap[b] /\ UsedBy(m, b) \in Nat /\ UserCap[b] \in Nat
      BY <2>12 DEF RewardInv, CapsInv
    <3>2. CASE m = y.membership /\ b \in y.bonusBudgets
      <4>1. UsedBy(m, b)' = UsedBy(m, b) + y.bonus
        BY <2>10, <2>11, <3>2
      <4> QED
        BY <1>2, <3>2, <4>1 DEF Affordable, CapAllows
    <3>3. CASE ~(m = y.membership /\ b \in y.bonusBudgets)
      <4>1. UsedBy(m, b)' = UsedBy(m, b)
        BY <2>10, <2>11, <3>1, <3>3
      <4> QED
        BY <3>1, <4>1
    <3> QED
      BY <3>2, <3>3
  <2>14. session' = session \/ Ends(p)
    BY <1>2
  <2>15. session' # session
    BY <1>1, <1>2 DEF Ends, Idle, RewardTypeOK
  <2>16. SessionsInv'
    <3>1. ASSUME NEW r \in Sessions \ { p }, session[r].source = s
          PROVE  /\ session[r].pc \notin { "budget", "bonus", "guard" }
                 /\ session[r].pc \notin { "release", "issue" }
      <4>1. Stands(session[r], source, quote)
        BY DEF RewardInv, SessionsInv
      <4> QED
        BY <1>2, <2>1, <2>2, <3>1, <4>1 DEF Stands
    <3>2. \A t \in Sources \ { s } : source'[t] = source[t] /\ quote'[t] = quote[t]
      BY <1>2, <1>7 DEF RewardTypeOK
    <3> QED
      BY <2>14, <2>15, <3>1, <3>2, OthersStand
  <2>17. AffordableInv'
    <3>1. ASSUME NEW r \in Sessions \ { p }, NEW b \in session[r].bonusBudgets
          PROVE  /\ Remaining(b) <= Remaining(b)' /\ Remaining(b)' \in Int
                 /\ \A m \in Memberships : UsedBy(m, b)' <= UsedBy(m, b) /\ UsedBy(m, b)' \in Nat
      <4>1. Stands(session[r], source, quote) /\ session[r] \in Session
        BY <1>2 DEF RewardInv, SessionsInv, RewardTypeOK
      <4>2. b \in BonusBudgets /\ b \in Counters /\ b \notin y.bonusBudgets
        BY <1>2, <2>1, <4>1 DEF Stands, Session, Counters
      <4>3. AmountIn(rs, b) = 0
        BY <2>11, <4>2
      <4>4. Remaining(b)' = Remaining(b) /\ Remaining(b) \in Nat
        <5>1. counter'[b] = counter[b]
          BY <1>2, <2>6, <2>8, <4>2, <4>3 DEF RewardTypeOK
        <5> QED
          BY <4>2, <5>1, RemainingType DEF Remaining
      <4>5. \A m \in Memberships : UsedBy(m, b)' = UsedBy(m, b) /\ UsedBy(m, b) \in Nat
        BY <2>10, <2>12, <4>2, <4>3
      <4> QED
        BY <4>4, <4>5
    <3> QED
      BY <2>14, <2>15, <3>1, OthersAfford
  <2>18. /\ UNCHANGED << now, rules, member, paused, event, ledger, postedFor, changes >>
         /\ quote'[s] = q /\ held'[s] = rs /\ source'[s] = "QUOTED"
         /\ \A t \in Sources \ { s } :
              quote'[t] = quote[t] /\ held'[t] = held[t] /\ source'[t] = source[t]
    BY <1>2, <1>7 DEF RewardTypeOK, CommitQuote
  <2>19. KeptInv'
    <3>1. Earned(q, event[s])
      BY <2>2, <2>4 DEF Earned, NoQuote
    <3>2. Kept("QUOTED", q, rs, event[s])
      BY <2>1, <2>3, <2>4, <3>1 DEF Kept, Standing
    <3>3. \A t \in Sources : Kept(source'[t], quote'[t], held'[t], event'[t])
      BY <2>18, <3>2 DEF RewardInv, KeptInv
    <3> QED
      BY <3>3 DEF KeptInv
  <2>20. PostedInv'
    <3>1. \A t \in Sources : quote'[t].status = "CONSUMED" <=> quote[t].status = "CONSUMED"
      BY <2>2, <2>4, <2>18
    <3>2. \A k \in Keys : postedFor[k] # None => postedFor[k] \in Sources
      BY <1>2 DEF RewardTypeOK
    <3> QED
      BY <2>18, <3>1, <3>2 DEF RewardInv, PostedInv
  <2>21. OwedInv'
    <3> PICK ev : ev = event[s]
      OBVIOUS
    <3>1. event' = [event EXCEPT ![s] = ev] /\ quote' = [quote EXCEPT ![s] = q]
      BY <1>2, <1>7, <2>18 DEF RewardTypeOK
    <3>2. Earned(q, event[s]) /\ quote[s] \in Quote
      BY <1>2, <2>2, <2>4 DEF Earned, NoQuote, RewardTypeOK
    <3>3. \A state \in { "PENDING", "AVAILABLE" } :
            Owed(state, q, event[s]) = 0 /\ Owed(state, quote[s], event[s]) = 0
      BY <2>2, <2>4, <3>2, NoQuoteOwes
    <3>4. \A state, u :
            OwedTo(state, u)'
              = OwedTo(state, u)
                  - (IF quote[s].user = u THEN Owed(state, quote[s], event[s]) ELSE 0)
                  + (IF q.user = u THEN Owed(state, q, ev) ELSE 0)
      <4>1. RewardTypeOK /\ q \in Quote /\ ev \in [Parts -> Event]
        BY <1>2, <2>4 DEF RewardTypeOK
      <4> QED
        BY <3>1, <4>1, OwedToChanges
    <3>5. ASSUME NEW state \in { "PENDING", "AVAILABLE" }, NEW u \in Users
          PROVE  OwedTo(state, u)' = OwedTo(state, u)
      <4>1. OwedTo(state, u)'
              = OwedTo(state, u)
                  - (IF quote[s].user = u THEN Owed(state, quote[s], event[s]) ELSE 0)
                  + (IF q.user = u THEN Owed(state, q, ev) ELSE 0)
        BY <3>4
      <4>2. OwedTo(state, u) \in Nat
        BY <1>2, OwedToType
      <4> QED
        BY <3>3, <4>1, <4>2
    <3> QED
      BY <2>18, <3>5 DEF RewardInv, OwedInv
  <2>22. RewardTypeOK'
    <3>1. /\ source' \in [Sources -> { "CREATED", "QUOTED", "COMPLETED" }]
          /\ quote' \in [Sources -> Quote]
          /\ held' \in [Sources -> SUBSET Reservation]
          /\ session' \in [Sessions -> Session]
      BY <1>2, <1>7, <2>3, <2>4, IdleStands DEF RewardTypeOK, Ends
    <3> QED
      BY <1>2, <2>9, <2>18, <3>1 DEF RewardTypeOK, RuleTypeOK
  <2> QED
    BY <2>9, <2>13, <2>16, <2>17, <2>19, <2>20, <2>21, <2>22 DEF RewardInv
<1> QED
  BY <1>1, <1>3, <1>4, <1>5, <1>6, <1>7 DEF CommitQuote

\* What expiry and issuance do to the quote, its reservations and the counters.
Settles(s, q, state) ==
  /\ quote' = [quote EXCEPT ![s] = q]
  /\ held' = [held EXCEPT ![s] = Settled(held[s], state)]
  /\ counter' = SettleExposure(SettleBonusBudget(
                  SettleRewardBudget(counter, held[s], state), held[s], state),
                  held[s], state)
  /\ UNCHANGED source

\* The reservations of an open quote are all consumed, or all released.
LEMMA SettleStep ==
  ASSUME RewardInv, NEW p \in Sessions, Ends(p), session[p].pc \in { "release", "issue" },
         NEW s \in Sources, s = session[p].source,
         NEW state \in { "CONSUMED", "RELEASED" }, NEW q \in Quote,
         q.membership = quote[s].membership, Settles(s, q, state)
  PROVE  /\ BudgetsAccounted' /\ CapsInv' /\ SessionsInv' /\ AffordableInv'
         /\ counter' \in [Counters -> [ reserved : Nat, consumed : Nat ]]
         /\ quote[s].status = "OPEN" /\ QuoteRow(s) \in session[p].locks
         /\ Settled(held[s], state) \in SUBSET Reservation
         /\ OncePerCounter(Settled(held[s], state))
         /\ \A r \in Settled(held[s], state) : r.state = state
         /\ \A z : Funded(z, held[s]) => Funded(z, Settled(held[s], state))
<1> PICK rs : rs = Settled(held[s], state)
  OBVIOUS
<1>1. /\ RewardTypeOK /\ Stands(session[p], source, quote)
      /\ Kept(source[s], quote[s], held[s], event[s])
      /\ quote' = [quote EXCEPT ![s] = q] /\ held' = [held EXCEPT ![s] = rs]
      /\ UNCHANGED source
  BY DEF RewardInv, SessionsInv, KeptInv, Settles
<1>2. quote[s].status = "OPEN" /\ QuoteRow(s) \in session[p].locks
  BY <1>1 DEF Stands
<1>3. /\ held[s] \in SUBSET Reservation /\ OncePerCounter(held[s])
      /\ \A r \in held[s] : r.state = "ACTIVE"
  BY <1>1, <1>2 DEF Kept, Standing, RewardTypeOK
<1>4. /\ Active(held[s]) = held[s]
      /\ rs \in SUBSET Reservation /\ OncePerCounter(rs) /\ \A r \in rs : r.state = state
      /\ \A z : Funded(z, held[s]) => Funded(z, rs)
      /\ \A c : AmountIn(rs, c) = AmountIn(held[s], c)
  BY <1>3, SettledHeld
<1>5. /\ InState(held[s], "ACTIVE") = held[s] /\ Unreleased(held[s]) = held[s]
      /\ InState(rs, state) = rs
      /\ state = "CONSUMED" => Unreleased(rs) = rs
  BY <1>3, <1>4 DEF InState, Unreleased
<1>6. /\ InState(held[s], "CONSUMED") = {} /\ InState(rs, "ACTIVE") = {}
      /\ state = "RELEASED" => InState(rs, "CONSUMED") = {} /\ Unreleased(rs) = {}
  BY <1>3, <1>4 DEF InState, Unreleased
<1>7. \A c : AmountIn({}, c) = 0
  BY AmountElsewhere
<1>8. \A c : AmountIn(held[s], c) \in Nat
  BY <1>3, AmountType
<1>9. counter' = [c \in Counters |->
                    [ reserved |-> counter[c].reserved - AmountIn(held[s], c),
                      consumed |-> counter[c].consumed
                                     + (IF state = "CONSUMED" THEN AmountIn(held[s], c) ELSE 0) ]]
  <2>1. counter' = [c \in Counters |->
                      [ reserved |-> counter[c].reserved - AmountIn(Active(held[s]), c),
                        consumed |-> counter[c].consumed
                          + (IF state = "CONSUMED" THEN AmountIn(Active(held[s]), c) ELSE 0) ]]
    <3>1. PICK h \in SUBSET Reservation : h = held[s]
      BY <1>3
    <3>2. counter' = SettleExposure(SettleBonusBudget(
                       SettleRewardBudget(counter, h, state), h, state), h, state)
      BY <3>1 DEF Settles
    <3>3. SettleExposure(SettleBonusBudget(SettleRewardBudget(counter, h, state), h, state),
                         h, state)
            = [c \in Counters |->
                [ reserved |-> counter[c].reserved - AmountIn(Active(h), c),
                  consumed |-> counter[c].consumed
                                 + (IF state = "CONSUMED" THEN AmountIn(Active(h), c) ELSE 0) ]]
      BY <1>1, SettledCounters
    <3> QED
      BY <3>1, <3>2, <3>3
  <2> QED
    BY <1>4, <2>1
<1>10. \A c \in Counters : counter[c].reserved \in Nat /\ counter[c].consumed \in Nat
  BY <1>1 DEF RewardTypeOK
<1>11. /\ BudgetsAccounted'
       /\ counter' \in [Counters -> [ reserved : Nat, consumed : Nat ]]
  <2>1. counter' \in [Counters -> [ reserved : Int, consumed : Int ]]
    BY <1>8, <1>9, <1>10
  <2>2. ASSUME NEW c \in Counters PROVE CounterFollows(c, held[s], rs)
    <3>1. PICK n \in Nat : n = AmountIn(held[s], c)
      BY <1>8
    <3>2. /\ AmountIn(InState(rs, "ACTIVE"), c) = 0 /\ AmountIn(InState(held[s], "ACTIVE"), c) = n
          /\ AmountIn(InState(held[s], "CONSUMED"), c) = 0
      BY <1>5, <1>6, <1>7, <3>1
    <3>3. AmountIn(InState(rs, "CONSUMED"), c) = IF state = "CONSUMED" THEN n ELSE 0
      <4>1. CASE state = "CONSUMED"
        BY <1>4, <1>5, <3>1, <4>1
      <4>2. CASE state = "RELEASED"
        BY <1>6, <1>7, <4>2
      <4> QED
        BY <4>1, <4>2
    <3>4. /\ counter'[c].reserved = counter[c].reserved - n
          /\ counter'[c].consumed = counter[c].consumed + (IF state = "CONSUMED" THEN n ELSE 0)
      BY <1>9, <3>1
    <3>5. Remaining(c) \in Nat
      BY RemainingType
    <3>6. CASE state = "CONSUMED"
      BY <1>10, <3>2, <3>3, <3>4, <3>5, <3>6 DEF CounterFollows
    <3>7. CASE state = "RELEASED"
      BY <1>10, <3>2, <3>3, <3>4, <3>5, <3>7 DEF CounterFollows
    <3> QED
      BY <3>6, <3>7
  <2>3. \A c \in Counters : CounterFollows(c, held[s], rs)
    BY <2>2
  <2>4. held' = [held EXCEPT ![s] = rs] /\ rs \in SUBSET Reservation
    BY <1>1, <1>4
  <2> QED
    BY <2>1, <2>3, <2>4, BudgetsFollow
<1>12. ASSUME NEW m, NEW b PROVE UsedBy(m, b)' <= UsedBy(m, b) /\ UsedBy(m, b)' \in Nat
  <2>1. AmountIn(Unreleased(rs), b) <= AmountIn(Unreleased(held[s]), b)
    <3>1. CASE state = "CONSUMED"
      BY <1>4, <1>5, <1>8, <3>1
    <3>2. CASE state = "RELEASED"
      <4>1. Unreleased(rs) = {}
        BY <1>6, <3>2
      <4>2. AmountIn(Unreleased(rs), b) = 0
        BY <1>7, <4>1
      <4>3. AmountIn(Unreleased(held[s]), b) \in Nat
        BY <1>5, <1>8
      <4> QED
        BY <4>2, <4>3
    <3> QED
      BY <3>1, <3>2
  <2> QED
    BY <1>1, <1>4, <2>1, UsedByShrinks
<1>13. CapsInv'
  <2> SUFFICES ASSUME NEW b \in BonusBudgets, NEW m \in Memberships, UserCap[b] # None
               PROVE  UsedBy(m, b)' <= UserCap[b]
    BY DEF CapsInv
  <2>1. UsedBy(m, b) <= UserCap[b] /\ UsedBy(m, b) \in Nat /\ UserCap[b] \in Nat
    BY <1>1, UsedByType DEF RewardInv, CapsInv
  <2> QED
    BY <1>12, <2>1
<1>14. session' # session
  BY <1>1 DEF Ends, Idle, RewardTypeOK
<1>15. SessionsInv'
  <2>1. ASSUME NEW r \in Sessions \ { p }, session[r].source = s
        PROVE  session[r].pc \notin { "release", "issue" }
    <3>1. /\ Stands(session[r], source, quote)
          /\ session[r].locks \cap session[p].locks = {}
      BY DEF RewardInv, SessionsInv
    <3> QED
      BY <1>2, <2>1, <3>1 DEF Stands
  <2>2. \A t \in Sources \ { s } : source'[t] = source[t] /\ quote'[t] = quote[t]
    BY <1>1 DEF RewardTypeOK
  <2> QED
    BY <1>1, <1>14, <2>1, <2>2, OthersStand
<1>16. AffordableInv'
  <2>1. ASSUME NEW c \in Counters PROVE Remaining(c) <= Remaining(c)' /\ Remaining(c)' \in Int
    <3>1. PICK n \in Nat : n = AmountIn(held[s], c)
      BY <1>8
    <3>2. /\ counter'[c].reserved = counter[c].reserved - n
          /\ counter'[c].consumed = counter[c].consumed + (IF state = "CONSUMED" THEN n ELSE 0)
      BY <1>9, <3>1
    <3>3. Capacity[c] \in Nat
      OBVIOUS
    <3> QED
      BY <1>10, <3>2, <3>3 DEF Remaining
  <2>2. \A r \in Sessions : session[r].bonusBudgets \subseteq Counters
    BY <1>1 DEF RewardTypeOK, Session, Counters
  <2> QED
    BY <1>12, <1>14, <2>1, <2>2, OthersAfford
<1> QED
  BY <1>2, <1>4, <1>11, <1>13, <1>15, <1>16

OwedIn(qs, evs, state, u) ==
  SumFunctionOnSet([s \in Sources |-> Owed(state, qs[s], evs[s])],
                   { s \in Sources : qs[s].user = u })

LEMMA OwedInType ==
  ASSUME NEW qs \in [Sources -> Quote], NEW evs, NEW state, NEW u
  PROVE  OwedIn(qs, evs, state, u) \in Nat
<1>1. PICK f : f = [s \in Sources |-> Owed(state, qs[s], evs[s])]
  OBVIOUS
<1>2. PICK S : S = { s \in Sources : qs[s].user = u }
  OBVIOUS
<1>3. S \subseteq Sources /\ IsFiniteSet(S)
  BY <1>2, FS_Subset
<1>4. \A s \in Sources : f[s] \in Nat
  BY <1>1, OwedIs
<1>5. Sum(f, S) \in Nat
  BY <1>3, <1>4, SumType
<1> QED
  BY <1>1, <1>2, <1>5 DEF OwedIn, Sum

\* What is owed to u changes by these amounts, and the ledger with it.
OwedBecomes(s, q, ev, pending, available) ==
  LET u == quote[s].user
  IN /\ quote' = [quote EXCEPT ![s] = q] /\ event' = [event EXCEPT ![s] = ev]
     /\ pending = Owed("PENDING", q, ev) - Owed("PENDING", quote[s], event[s])
     /\ available = Owed("AVAILABLE", q, ev) - Owed("AVAILABLE", quote[s], event[s])
     /\ ledger' = [ledger EXCEPT ![u] = [ pending |-> ledger[u].pending + pending,
                                          available |-> ledger[u].available + available ]]

\* What is owed after a step on s, from what the quote and the events of s owed.
LEMMA OwedFollows ==
  ASSUME RewardInv, NEW s \in Sources,
         NEW q \in Quote, q.user = quote[s].user, quote[s].user \in Users,
         NEW ev \in [Parts -> Event], NEW pending \in Int, NEW available \in Int,
         OwedBecomes(s, q, ev, pending, available)
  PROVE  OwedInv' /\ ledger' \in [Users -> [ pending : Nat, available : Nat ]]
<1>1. RewardTypeOK /\ ledger \in [Users -> [ pending : Nat, available : Nat ]]
      /\ quote[s] \in Quote
      /\ quote' = [quote EXCEPT ![s] = q] /\ event' = [event EXCEPT ![s] = ev]
  BY DEF RewardInv, RewardTypeOK, OwedBecomes
<1>2. \A state, u :
        OwedTo(state, u)'
          = OwedTo(state, u)
              - (IF quote[s].user = u THEN Owed(state, quote[s], event[s]) ELSE 0)
              + (IF q.user = u THEN Owed(state, q, ev) ELSE 0)
  BY <1>1, OwedToChanges
<1>3. \A state, u : OwedTo(state, u) \in Nat
  BY <1>1, OwedToType
<1>4. \A state : Owed(state, quote[s], event[s]) \in Nat /\ Owed(state, q, ev) \in Nat
  BY <1>1, OwedIs
<1>5. \A state, u : OwedTo(state, u)' \in Nat
  <2>1. PICK qs, evs : qs = quote' /\ evs = event'
    OBVIOUS
  <2>2. \A state, u : OwedTo(state, u)' = OwedIn(qs, evs, state, u)
    BY <2>1 DEF OwedTo, OwedIn
  <2>3. qs \in [Sources -> Quote]
    BY <1>1, <2>1 DEF RewardTypeOK
  <2> QED
    BY <2>2, <2>3, OwedInType
<1>6. ASSUME NEW u \in Users
      PROVE  /\ ledger'[u] = [ pending |-> OwedTo("PENDING", u)', available |-> OwedTo("AVAILABLE", u)' ]
             /\ OwedTo("PENDING", u)' \in Nat /\ OwedTo("AVAILABLE", u)' \in Nat
  <2>1. ledger[u] = [ pending |-> OwedTo("PENDING", u), available |-> OwedTo("AVAILABLE", u) ]
    BY DEF RewardInv, OwedInv
  <2>2. PICK a, b, c, d : /\ a = Owed("PENDING", quote[s], event[s]) /\ b = Owed("PENDING", q, ev)
                          /\ c = Owed("AVAILABLE", quote[s], event[s]) /\ d = Owed("AVAILABLE", q, ev)
    OBVIOUS
  <2>3. a \in Nat /\ b \in Nat /\ c \in Nat /\ d \in Nat
    BY <1>4, <2>2
  <2>4. CASE u = quote[s].user
    <3>1. /\ OwedTo("PENDING", u)' = OwedTo("PENDING", u) - a + b
          /\ OwedTo("AVAILABLE", u)' = OwedTo("AVAILABLE", u) - c + d
      BY <1>2, <2>2, <2>4
    <3>2. ledger'[u] = [ pending |-> ledger[u].pending + (b - a),
                         available |-> ledger[u].available + (d - c) ]
      BY <1>1, <2>2, <2>4 DEF OwedBecomes
    <3> QED
      BY <1>3, <1>5, <2>1, <2>3, <3>1, <3>2
  <2>5. CASE u # quote[s].user
    <3>1. /\ OwedTo("PENDING", u)' = OwedTo("PENDING", u) - 0 + 0
          /\ OwedTo("AVAILABLE", u)' = OwedTo("AVAILABLE", u) - 0 + 0
      BY <1>2, <2>5
    <3>2. ledger'[u] = ledger[u]
      BY <1>1, <2>5 DEF OwedBecomes
    <3> QED
      BY <1>3, <1>5, <2>1, <3>1, <3>2
  <2> QED
    BY <2>4, <2>5
<1>7. OwedInv'
  BY <1>6 DEF OwedInv
<1>8. ASSUME NEW u \in Users PROVE ledger'[u] \in [ pending : Nat, available : Nat ]
  <2>1. PICK a, b : a = OwedTo("PENDING", u)' /\ b = OwedTo("AVAILABLE", u)'
    OBVIOUS
  <2>2. ledger'[u] = [ pending |-> a, available |-> b ] /\ a \in Nat /\ b \in Nat
    BY <1>6, <2>1
  <2> QED
    BY <2>2
<1> QED
  BY <1>1, <1>7, <1>8 DEF OwedBecomes

\* The release of an expired quote's reservations: the quote was never started,
\* as the transaction has kept it locked.
LEMMA CommitExpiryKeeps ==
  ASSUME RewardInv, NEW p \in Sessions, CommitExpiry(p)
  PROVE  RewardInv'
<1>1. PICK s : s = session[p].source
  OBVIOUS
<1>2. /\ RewardTypeOK /\ session[p].pc = "release" /\ s \in Sources /\ Ends(p)
      /\ quote[s].started = None
  BY <1>1 DEF CommitExpiry, At, RewardInv, SessionsInv, Stands
<1>3. PICK q : q = [ quote[s] EXCEPT !.status = "EXPIRED" ]
  OBVIOUS
<1>4. PICK rs : rs = Settled(held[s], "RELEASED")
  OBVIOUS
<1>5. /\ quote' = [quote EXCEPT ![s] = q] /\ held' = [held EXCEPT ![s] = rs]
      /\ counter' = SettleExposure(SettleBonusBudget(
                      SettleRewardBudget(counter, held[s], "RELEASED"), held[s], "RELEASED"),
                      held[s], "RELEASED")
      /\ UNCHANGED << now, rules, source, member, paused, event, ledger, postedFor, changes >>
  BY <1>1, <1>2, <1>3, <1>4 DEF CommitExpiry, RewardTypeOK
<1>6. quote[s] \in Quote
  BY <1>2 DEF RewardTypeOK
<1>7. /\ q \in Quote /\ q.status = "EXPIRED" /\ q.membership = quote[s].membership
      /\ q.started = None /\ q.user = quote[s].user /\ q.base = quote[s].base
      /\ q.bonus = quote[s].bonus
  BY <1>2, <1>3, <1>6 DEF Quote
<1>8. /\ BudgetsAccounted' /\ CapsInv' /\ SessionsInv' /\ AffordableInv'
      /\ counter' \in [Counters -> [ reserved : Nat, consumed : Nat ]]
      /\ quote[s].status = "OPEN"
      /\ rs \in SUBSET Reservation /\ OncePerCounter(rs) /\ \A r \in rs : r.state = "RELEASED"
      /\ \A z : Funded(z, held[s]) => Funded(z, rs)
  <2>1. Settles(s, q, "RELEASED")
    BY <1>4, <1>5 DEF Settles
  <2> QED
    BY <1>1, <1>2, <1>4, <1>7, <2>1, SettleStep
<1>9. Kept(source[s], quote[s], held[s], event[s])
  BY <1>2 DEF RewardInv, KeptInv
<1>10. /\ quote'[s] = q /\ held'[s] = rs
       /\ \A t \in Sources \ { s } : quote'[t] = quote[t] /\ held'[t] = held[t]
  BY <1>2, <1>5 DEF RewardTypeOK
<1>11. Earned(q, event[s])
  BY <1>7, <1>8, <1>9 DEF Kept, Earned
<1>12. KeptInv'
  <2>1. Funded(q, rs)
    BY <1>7, <1>8, <1>9 DEF Kept, Funded
  <2>2. Kept(source[s], q, rs, event[s])
    BY <1>7, <1>8, <1>9, <1>11, <2>1 DEF Kept, Standing
  <2>3. \A t \in Sources : Kept(source'[t], quote'[t], held'[t], event'[t])
    BY <1>5, <1>10, <2>2 DEF RewardInv, KeptInv
  <2> QED
    BY <2>3 DEF KeptInv
<1>13. PostedInv'
  <2>1. \A t \in Sources : quote'[t].status = "CONSUMED" <=> quote[t].status = "CONSUMED"
    BY <1>7, <1>8, <1>10
  <2>2. \A k \in Keys : postedFor[k] # None => postedFor[k] \in Sources
    BY <1>2 DEF RewardTypeOK
  <2> QED
    BY <1>5, <2>1, <2>2 DEF RewardInv, PostedInv
<1>14. OwedInv'
  <2>1. PICK ev : ev = event[s]
    OBVIOUS
  <2>2. ev \in [Parts -> Event] /\ event' = [event EXCEPT ![s] = ev]
    BY <1>2, <1>5, <2>1 DEF RewardTypeOK
  <2>3. quote[s].user \in Users
    BY <1>8, <1>9 DEF Kept
  <2>4. \A state \in { "PENDING", "AVAILABLE" } :
          Owed(state, q, ev) = 0 /\ Owed(state, quote[s], event[s]) = 0
    BY <1>6, <1>7, <1>8, <1>9, <1>11, <2>1, NoQuoteOwes DEF Kept
  <2>5. PICK n : n = 0
    OBVIOUS
  <2>6. /\ n \in Int /\ n = Owed("PENDING", q, ev) - Owed("PENDING", quote[s], event[s])
        /\ n = Owed("AVAILABLE", q, ev) - Owed("AVAILABLE", quote[s], event[s])
    BY <2>4, <2>5
  <2>7. ledger' = [ledger EXCEPT ![quote[s].user] =
                     [ pending |-> ledger[quote[s].user].pending + n,
                       available |-> ledger[quote[s].user].available + n ]]
    BY <1>2, <1>5, <2>3, <2>5 DEF RewardTypeOK
  <2> QED
    <3>1. OwedBecomes(s, q, ev, n, n)
      BY <1>5, <2>2, <2>6, <2>7 DEF OwedBecomes
    <3> QED
      BY <1>2, <1>7, <2>2, <2>3, <2>6, <3>1, OwedFollows
<1>15. RewardTypeOK'
  <2>1. /\ quote' \in [Sources -> Quote] /\ held' \in [Sources -> SUBSET Reservation]
        /\ session' \in [Sessions -> Session]
    BY <1>2, <1>5, <1>7, <1>8, IdleStands DEF RewardTypeOK, Ends
  <2> QED
    BY <1>2, <1>5, <1>8, <2>1 DEF RewardTypeOK, RuleTypeOK
<1> QED
  BY <1>8, <1>12, <1>13, <1>14, <1>15 DEF RewardInv

\* The posting of a reward: what the quote reserved is issued, and owed.
LEMMA CommitIssuanceKeeps ==
  ASSUME RewardInv, NEW p \in Sessions, CommitIssuance(p)
  PROVE  RewardInv'
<1>1. PICK s, key : s = session[p].source /\ key = session[p].key
  OBVIOUS
<1>2. /\ RewardTypeOK /\ session[p].pc = "issue" /\ s \in Sources /\ Ends(p)
      /\ key \in Keys /\ session[p] \in Session
  BY <1>1 DEF CommitIssuance, At, RewardInv, SessionsInv, Stands, RewardTypeOK
<1>3. PICK q : q = [ quote[s] EXCEPT !.status = "CONSUMED" ]
  OBVIOUS
<1>4. PICK rs : rs = Settled(held[s], "CONSUMED")
  OBVIOUS
<1>5. PICK ev : ev = PendingEvents(s, session[p].asOf + Hold)
  OBVIOUS
<1>6. /\ quote' = [quote EXCEPT ![s] = q] /\ held' = [held EXCEPT ![s] = rs]
      /\ counter' = SettleExposure(SettleBonusBudget(
                      SettleRewardBudget(counter, held[s], "CONSUMED"), held[s], "CONSUMED"),
                      held[s], "CONSUMED")
      /\ event' = [event EXCEPT ![s] = ev]
      /\ ledger' = Issued(s)
      /\ postedFor' = [postedFor EXCEPT ![key] = s]
      /\ postedFor[key] = None /\ \A k \in Keys : postedFor[k] # s
      /\ UNCHANGED << now, rules, source, member, paused, changes >>
  BY <1>1, <1>2, <1>3, <1>4, <1>5 DEF CommitIssuance, RewardTypeOK
<1>7. quote[s] \in Quote
  BY <1>2 DEF RewardTypeOK
<1>8. /\ q \in Quote /\ q.status = "CONSUMED" /\ q.membership = quote[s].membership
      /\ q.started = quote[s].started /\ q.expires = quote[s].expires
      /\ q.user = quote[s].user /\ q.base = quote[s].base /\ q.bonus = quote[s].bonus
  BY <1>2, <1>3, <1>7 DEF Quote
<1>9. /\ BudgetsAccounted' /\ CapsInv' /\ SessionsInv' /\ AffordableInv'
      /\ counter' \in [Counters -> [ reserved : Nat, consumed : Nat ]]
      /\ quote[s].status = "OPEN"
      /\ rs \in SUBSET Reservation /\ OncePerCounter(rs) /\ \A r \in rs : r.state = "CONSUMED"
      /\ \A z : Funded(z, held[s]) => Funded(z, rs)
  <2>1. Settles(s, q, "CONSUMED")
    BY <1>4, <1>6 DEF Settles
  <2> QED
    BY <1>1, <1>2, <1>4, <1>8, <2>1, SettleStep
<1>10. Kept(source[s], quote[s], held[s], event[s])
  BY <1>2 DEF RewardInv, KeptInv
<1>11. /\ quote'[s] = q /\ held'[s] = rs /\ event'[s] = ev
       /\ \A t \in Sources \ { s } :
            quote'[t] = quote[t] /\ held'[t] = held[t] /\ event'[t] = event[t]
  BY <1>2, <1>6 DEF RewardTypeOK
<1>12. session[p].asOf + Hold \in Nat /\ q.base \in Nat /\ q.bonus \in Nat
  BY <1>2, <1>8 DEF Session, Now, Quote
<1>13. ASSUME NEW part \in Parts
       PROVE  /\ Quoted(quote[s], part) = Quoted(q, part) /\ Quoted(q, part) \in Nat
              /\ ev[part] \in Event
              /\ Quoted(q, part) = 0 => ev[part] = NoEvent
              /\ Quoted(q, part) # 0 => ev[part].state = "PENDING" /\ ev[part].amount = Quoted(q, part)
  <2>1. Quoted(quote[s], part) = Quoted(q, part) /\ Quoted(q, part) \in Nat
    BY <1>8, <1>12 DEF Quoted
  <2>2. ev[part] = IF Quoted(q, part) = 0 THEN NoEvent
                   ELSE [ state |-> "PENDING", amount |-> Quoted(q, part),
                          until |-> session[p].asOf + Hold ]
    BY <1>5, <2>1 DEF PendingEvents
  <2>3. NoEvent \in Event
    BY DEF NoEvent, Event
  <2> QED
    BY <1>12, <2>1, <2>2, <2>3 DEF Event
<1>14. ev \in [Parts -> Event]
  BY <1>5, <1>13 DEF PendingEvents
<1>15. Earned(q, ev)
  BY <1>8, <1>13 DEF Earned
<1>16. KeptInv'
  <2>1. Funded(q, rs)
    BY <1>8, <1>9, <1>10 DEF Kept, Funded
  <2>2. Kept(source[s], q, rs, ev)
    BY <1>8, <1>9, <1>10, <1>15, <2>1 DEF Kept, Standing
  <2>3. \A t \in Sources : Kept(source'[t], quote'[t], held'[t], event'[t])
    BY <1>6, <1>11, <2>2 DEF RewardInv, KeptInv
  <2> QED
    BY <2>3 DEF KeptInv
<1>17. PostedInv'
  <2>1. /\ postedFor'[key] = s /\ \A k \in Keys \ { key } : postedFor'[k] = postedFor[k]
    BY <1>2, <1>6 DEF RewardTypeOK
  <2>2. \A k \in Keys : postedFor'[k] # None => quote'[postedFor'[k]].status = "CONSUMED"
    BY <1>2, <1>6, <1>8, <1>11, <2>1 DEF RewardInv, PostedInv, RewardTypeOK
  <2>3. \A j, k \in Keys : postedFor'[j] = postedFor'[k] /\ postedFor'[j] # None => j = k
    BY <1>6, <2>1 DEF RewardInv, PostedInv
  <2>4. ASSUME NEW t \in Sources, quote'[t].status = "CONSUMED"
        PROVE  \E k \in Keys : postedFor'[k] = t
    <3>1. CASE t = s
      BY <1>2, <2>1, <3>1
    <3>2. CASE t # s
      <4>1. PICK k \in Keys : postedFor[k] = t
        BY <1>11, <2>4, <3>2 DEF RewardInv, PostedInv
      <4> QED
        BY <1>6, <2>1, <4>1
    <3> QED
      BY <3>1, <3>2
  <2> QED
    BY <2>2, <2>3, <2>4 DEF PostedInv
<1>18. OwedInv' /\ ledger' \in [Users -> [ pending : Nat, available : Nat ]]
  <2>1. quote[s].user \in Users
    BY <1>9, <1>10 DEF Kept
  <2>2. \A state \in { "PENDING", "AVAILABLE" } : Owed(state, quote[s], event[s]) = 0
    BY <1>7, <1>9, <1>10, NoQuoteOwes DEF Kept
  <2>3. Owed("PENDING", q, ev) = q.base + q.bonus /\ Owed("AVAILABLE", q, ev) = 0
    <3>1. /\ q.base = 0 \/ ev["base"].state = "PENDING"
          /\ q.bonus = 0 \/ ev["bonus"].state = "PENDING"
          /\ ev["base"].state # "AVAILABLE" /\ ev["bonus"].state # "AVAILABLE"
      BY <1>13 DEF Parts, Quoted, NoEvent
    <3> QED
      BY <1>8, <1>12, <3>1, OwedIs
  <2>4. PICK n, z : n = q.base + q.bonus /\ z = 0
    OBVIOUS
  <2>5. /\ n \in Int /\ n = Owed("PENDING", q, ev) - Owed("PENDING", quote[s], event[s])
        /\ z \in Int /\ z = Owed("AVAILABLE", q, ev) - Owed("AVAILABLE", quote[s], event[s])
    BY <1>12, <2>2, <2>3, <2>4
  <2>6. ledger' = [ledger EXCEPT ![quote[s].user] =
                     [ pending |-> ledger[quote[s].user].pending + n,
                       available |-> ledger[quote[s].user].available + z ]]
    <3>1. ledger[quote[s].user] \in [ pending : Nat, available : Nat ]
      BY <1>2, <2>1 DEF RewardTypeOK
    <3>2. [ ledger[quote[s].user] EXCEPT !.pending = @ + quote[s].base + quote[s].bonus ]
            = [ pending |-> ledger[quote[s].user].pending + n,
                available |-> ledger[quote[s].user].available + z ]
      BY <1>8, <1>12, <2>4, <3>1
    <3> QED
      BY <1>6, <3>2 DEF Issued
  <2> QED
    <3>1. OwedBecomes(s, q, ev, n, z)
      BY <1>6, <2>5, <2>6 DEF OwedBecomes
    <3> QED
      BY <1>2, <1>8, <1>14, <2>1, <2>5, <3>1, OwedFollows
<1>19. RewardTypeOK'
  <2>1. /\ quote' \in [Sources -> Quote] /\ held' \in [Sources -> SUBSET Reservation]
        /\ session' \in [Sessions -> Session]
    BY <1>2, <1>6, <1>8, <1>9, IdleStands DEF RewardTypeOK, Ends
  <2>2. /\ event' \in [Sources -> [Parts -> Event]]
        /\ postedFor' \in [Keys -> Sources \cup { None }]
    BY <1>2, <1>6, <1>14 DEF RewardTypeOK
  <2> QED
    BY <1>2, <1>6, <1>9, <1>18, <2>1, <2>2 DEF RewardTypeOK, RuleTypeOK
<1> QED
  BY <1>9, <1>16, <1>17, <1>18, <1>19 DEF RewardInv

\* A source is completed when no other transaction has its row or its quote's.
LEMMA CompleteSourceKeeps ==
  ASSUME RewardInv, NEW p \in Sessions, NEW s \in Sources, NEW t \in Nat, CompleteSource(p, s, t)
  PROVE  RewardInv'
<1>1. /\ RewardTypeOK /\ Kept(source[s], quote[s], held[s], event[s]) /\ quote[s] \in Quote
      /\ event[s] \in [Parts -> Event] /\ held[s] \in SUBSET Reservation
  BY DEF RewardInv, KeptInv, RewardTypeOK
<1>2. /\ session[p].pc = "idle" /\ Free(p, { QuoteRow(s), SourceRow(s) })
      /\ quote[s].status = "OPEN" /\ quote[s].started = None /\ t <= quote[s].expires
      /\ source' = [source EXCEPT ![s] = "COMPLETED"]
      /\ UNCHANGED << now, rules, held, counter, member, paused, event, ledger, postedFor,
                      session, changes >>
  BY DEF CompleteSource, At
<1>3. PICK q : q = [ quote[s] EXCEPT !.started = t ]
  OBVIOUS
<1>4. quote' = [quote EXCEPT ![s] = q]
  BY <1>1, <1>3 DEF CompleteSource, RewardTypeOK
<1>5. /\ q \in Quote /\ q.status = "OPEN" /\ q.membership = quote[s].membership
      /\ q.started = t /\ q.user = quote[s].user /\ q.base = quote[s].base
      /\ q.bonus = quote[s].bonus /\ q.expires = quote[s].expires
  BY <1>1, <1>2, <1>3 DEF Quote
<1>6. /\ quote'[s] = q /\ source'[s] = "COMPLETED"
      /\ \A r \in Sources \ { s } : quote'[r] = quote[r] /\ source'[r] = source[r]
  BY <1>1, <1>2, <1>4 DEF RewardTypeOK
<1>7. Earned(q, event[s])
  BY <1>1, <1>2, <1>5 DEF Kept, Earned
<1>8. KeptInv'
  <2>1. Funded(q, held[s])
    BY <1>1, <1>2, <1>5 DEF Kept, Funded
  <2>2. Kept("COMPLETED", q, held[s], event[s])
    BY <1>1, <1>2, <1>5, <1>7, <2>1 DEF Kept, Standing
  <2>3. \A r \in Sources : Kept(source'[r], quote'[r], held'[r], event'[r])
    BY <1>2, <1>6, <2>2 DEF RewardInv, KeptInv
  <2> QED
    BY <2>3 DEF KeptInv
<1>9. /\ \A state, c : HeldIn(state, c)' = HeldIn(state, c)
      /\ \A m, b : UsedBy(m, b)' = UsedBy(m, b)
  <2>1. \A m : QuotedWith(m)' = QuotedWith(m)
    BY <1>5, <1>6 DEF QuotedWith
  <2>2. UNCHANGED held
    BY <1>2
  <2> QED
    BY <2>1, <2>2 DEF HeldIn, UsedBy
<1>10. BudgetsAccounted' /\ CapsInv'
  BY <1>2, <1>9 DEF RewardInv, BudgetsAccounted, CapsInv
<1>11. PostedInv'
  <2>1. \A r \in Sources : quote'[r].status = "CONSUMED" <=> quote[r].status = "CONSUMED"
    BY <1>2, <1>5, <1>6
  <2>2. \A k \in Keys : postedFor[k] # None => postedFor[k] \in Sources
    BY <1>1 DEF RewardTypeOK
  <2> QED
    BY <1>2, <2>1, <2>2 DEF RewardInv, PostedInv
<1>12. OwedInv'
  <2>1. PICK ev : ev = event[s]
    OBVIOUS
  <2>2. ev \in [Parts -> Event] /\ event' = [event EXCEPT ![s] = ev]
    BY <1>1, <1>2, <2>1 DEF RewardTypeOK
  <2>3. quote[s].user \in Users
    BY <1>1, <1>2 DEF Kept
  <2>4. \A state \in { "PENDING", "AVAILABLE" } :
          Owed(state, q, ev) = 0 /\ Owed(state, quote[s], event[s]) = 0
    BY <1>1, <1>2, <1>5, <1>7, <2>1, NoQuoteOwes DEF Kept
  <2>5. PICK n : n = 0
    OBVIOUS
  <2>6. /\ n \in Int /\ n = Owed("PENDING", q, ev) - Owed("PENDING", quote[s], event[s])
        /\ n = Owed("AVAILABLE", q, ev) - Owed("AVAILABLE", quote[s], event[s])
    BY <2>4, <2>5
  <2>7. ledger' = [ledger EXCEPT ![quote[s].user] =
                     [ pending |-> ledger[quote[s].user].pending + n,
                       available |-> ledger[quote[s].user].available + n ]]
    BY <1>1, <1>2, <2>3, <2>5 DEF RewardTypeOK
  <2>8. OwedBecomes(s, q, ev, n, n)
    BY <1>4, <2>2, <2>6, <2>7 DEF OwedBecomes
  <2> QED
    BY <1>5, <2>2, <2>3, <2>6, <2>8, OwedFollows
<1>13. SessionsInv'
  <2>1. ASSUME NEW r \in Sessions \ { p }, session[r].source = s
        PROVE  session[r].pc \notin { "budget", "bonus", "guard", "release", "issue" }
    <3>1. Stands(session[r], source, quote)
      BY DEF RewardInv, SessionsInv
    <3> QED
      BY <1>2, <2>1, <3>1 DEF Stands, Free
  <2> QED
    BY <1>2, <1>6, <2>1, OthersStand
<1>14. AffordableInv'
  <2>1. \A b : Remaining(b)' = Remaining(b)
    BY <1>2 DEF Remaining
  <2>2. ASSUME NEW r \in Sessions PROVE Affordable(session[r])'
    <3>1. Affordable(session[r]) /\ session'[r] = session[r]
      BY <1>2 DEF RewardInv, AffordableInv
    <3> QED
      BY <1>9, <2>1, <3>1 DEF Affordable, CapAllows
  <2> QED
    BY <2>2 DEF AffordableInv
<1>15. RewardTypeOK'
  <2>1. /\ quote' \in [Sources -> Quote]
        /\ source' \in [Sources -> { "CREATED", "QUOTED", "COMPLETED" }]
    BY <1>1, <1>2, <1>4, <1>5 DEF RewardTypeOK
  <2> QED
    BY <1>1, <1>2, <2>1 DEF RewardTypeOK, RuleTypeOK
<1> QED
  BY <1>8, <1>10, <1>11, <1>12, <1>13, <1>14, <1>15 DEF RewardInv

\* A reward becomes available: what is owed is moved, not created.
LEMMA MatureKeeps ==
  ASSUME RewardInv, NEW s \in Sources, NEW part \in Parts, Mature(s, part)
  PROVE  RewardInv'
<1>1. /\ RewardTypeOK /\ Kept(source[s], quote[s], held[s], event[s]) /\ quote[s] \in Quote
      /\ event[s] \in [Parts -> Event] /\ event[s][part] \in Event
  BY DEF RewardInv, KeptInv, RewardTypeOK
<1>2. PICK e, u : e = event[s][part] /\ u = quote[s].user
  OBVIOUS
<1>3. /\ e.state = "PENDING"
      /\ ledger' = [ledger EXCEPT ![u] = [ pending |-> @.pending - e.amount,
                                           available |-> @.available + e.amount ]]
      /\ UNCHANGED << now, rules, source, quote, held, counter, member, paused, postedFor,
                      session, changes >>
  BY <1>2 DEF Mature
<1>4. PICK e1 : e1 = [ e EXCEPT !.state = "AVAILABLE" ]
  OBVIOUS
<1>5. e1 \in Event /\ e1.state = "AVAILABLE" /\ e1.amount = e.amount
  BY <1>1, <1>2, <1>4 DEF Event
<1>6. PICK ev : ev = [event[s] EXCEPT ![part] = e1]
  OBVIOUS
<1>7. /\ ev \in [Parts -> Event] /\ ev[part] = e1
      /\ \A z \in Parts \ { part } : ev[z] = event[s][z]
  BY <1>1, <1>5, <1>6
<1>8. event' = [event EXCEPT ![s] = ev]
  BY <1>1, <1>2, <1>4, <1>6 DEF Mature, RewardTypeOK
<1>9. /\ quote[s].status = "CONSUMED" /\ e.amount = Quoted(quote[s], part)
      /\ Quoted(quote[s], part) # 0
  BY <1>1, <1>2, <1>3 DEF Kept, Earned, NoEvent
<1>10. KeptInv'
  <2>1. Earned(quote[s], ev)
    BY <1>1, <1>5, <1>7, <1>9 DEF Kept, Earned
  <2>2. Kept(source[s], quote[s], held[s], ev)
    BY <1>1, <2>1 DEF Kept
  <2>3. event'[s] = ev /\ \A r \in Sources \ { s } : event'[r] = event[r]
    BY <1>1, <1>8 DEF RewardTypeOK
  <2>4. \A r \in Sources : Kept(source'[r], quote'[r], held'[r], event'[r])
    BY <1>3, <2>2, <2>3 DEF RewardInv, KeptInv
  <2> QED
    BY <2>4 DEF KeptInv
<1>11. OwedInv' /\ ledger' \in [Users -> [ pending : Nat, available : Nat ]]
  <2>1. u \in Users
    BY <1>1, <1>2, <1>9 DEF Kept
  <2>2. PICK q : q = quote[s]
    OBVIOUS
  <2>3. /\ q \in Quote /\ q.user = quote[s].user /\ quote' = [quote EXCEPT ![s] = q]
        /\ q.base \in Nat /\ q.bonus \in Nat
    BY <1>1, <1>3, <2>2 DEF RewardTypeOK, Quote
  <2>4. PICK n, i : n = e.amount /\ i = 0 - n
    OBVIOUS
  <2>5. n = Quoted(q, part) /\ n \in Nat /\ i \in Int
    BY <1>9, <2>2, <2>3, <2>4 DEF Quoted
  <2>6. PICK other \in Parts : Parts = { part, other } /\ other # part
    BY DEF Parts
  <2>7. /\ ev[part].state = "AVAILABLE" /\ event[s][part].state = "PENDING"
        /\ ev[other] = event[s][other]
    BY <1>2, <1>3, <1>5, <1>7, <2>6
  <2>8. /\ Owed("PENDING", q, ev) - Owed("PENDING", q, event[s]) = i
        /\ Owed("AVAILABLE", q, ev) - Owed("AVAILABLE", q, event[s]) = n
    <3>1. PICK a, b : /\ a = IF ev[other].state = "PENDING" THEN Quoted(q, other) ELSE 0
                      /\ b = IF ev[other].state = "AVAILABLE" THEN Quoted(q, other) ELSE 0
      OBVIOUS
    <3>2. a \in Nat /\ b \in Nat
      BY <2>3, <3>1 DEF Quoted
    <3>3. /\ Owed("PENDING", q, ev) = a /\ Owed("AVAILABLE", q, ev) = b + n
          /\ Owed("PENDING", q, event[s]) = a + n /\ Owed("AVAILABLE", q, event[s]) = b
      <4>1. CASE part = "base"
        <5>1. other = "bonus"
          BY <2>6, <4>1 DEF Parts
        <5>2. \A state : /\ Owed(state, q, ev) = (IF ev["base"].state = state THEN q.base ELSE 0)
                                       + (IF ev["bonus"].state = state THEN q.bonus ELSE 0)
                         /\ Owed(state, q, event[s])
                              = (IF event[s]["base"].state = state THEN q.base ELSE 0)
                                  + (IF event[s]["bonus"].state = state THEN q.bonus ELSE 0)
          BY <2>3, OwedIs
        <5>3. q.base = n /\ Quoted(q, other) = q.bonus
          BY <2>5, <4>1, <5>1 DEF Quoted
        <5> QED
          BY <2>5, <2>7, <3>1, <3>2, <4>1, <5>1, <5>2, <5>3
      <4>2. CASE part = "bonus"
        <5>1. other = "base"
          BY <2>6, <4>2 DEF Parts
        <5>2. \A state : /\ Owed(state, q, ev) = (IF ev["base"].state = state THEN q.base ELSE 0)
                                       + (IF ev["bonus"].state = state THEN q.bonus ELSE 0)
                         /\ Owed(state, q, event[s])
                              = (IF event[s]["base"].state = state THEN q.base ELSE 0)
                                  + (IF event[s]["bonus"].state = state THEN q.bonus ELSE 0)
          BY <2>3, OwedIs
        <5>3. q.bonus = n /\ Quoted(q, other) = q.base
          BY <2>5, <4>2, <5>1 DEF Quoted
        <5> QED
          BY <2>5, <2>7, <3>1, <3>2, <4>2, <5>1, <5>2, <5>3
      <4> QED
        BY <4>1, <4>2 DEF Parts
    <3> QED
      BY <2>4, <2>5, <3>2, <3>3
  <2>9. ledger' = [ledger EXCEPT ![u] = [ pending |-> ledger[u].pending + i,
                                          available |-> ledger[u].available + n ]]
    <3>1. ledger[u].pending \in Nat
      BY <1>1, <2>1 DEF RewardTypeOK
    <3>2. ledger[u].pending - e.amount = ledger[u].pending + i
      BY <2>4, <2>5, <3>1
    <3> QED
      BY <1>3, <2>4, <3>2
  <2>10. OwedBecomes(s, q, ev, i, n)
    BY <1>2, <1>8, <2>2, <2>3, <2>8, <2>9 DEF OwedBecomes
  <2> QED
    BY <1>2, <1>7, <2>1, <2>3, <2>5, <2>10, OwedFollows
<1>12. UNCHANGED << quote, held >>
  BY <1>3
<1>13. /\ \A state, c : HeldIn(state, c)' = HeldIn(state, c)
       /\ \A m, b : UsedBy(m, b)' = UsedBy(m, b)
  BY <1>12, SumsStay
<1>14. BudgetsAccounted' /\ CapsInv'
  BY <1>3, <1>13 DEF RewardInv, BudgetsAccounted, CapsInv
<1>15. PostedInv' /\ SessionsInv'
  BY <1>3 DEF RewardInv, PostedInv, SessionsInv, Stands
<1>16. AffordableInv'
  <2>1. \A b : Remaining(b)' = Remaining(b)
    BY <1>3 DEF Remaining
  <2>2. ASSUME NEW r \in Sessions PROVE Affordable(session[r])'
    <3>1. Affordable(session[r]) /\ session'[r] = session[r]
      BY <1>3 DEF RewardInv, AffordableInv
    <3> QED
      BY <1>13, <2>1, <3>1 DEF Affordable, CapAllows
  <2> QED
    BY <2>2 DEF AffordableInv
<1>17. RewardTypeOK'
  <2>1. event' \in [Sources -> [Parts -> Event]]
    BY <1>1, <1>7, <1>8 DEF RewardTypeOK
  <2> QED
    BY <1>1, <1>3, <1>11, <2>1 DEF RewardTypeOK, RuleTypeOK
<1> QED
  BY <1>10, <1>11, <1>14, <1>15, <1>16, <1>17 DEF RewardInv

-----------------------------------------------------------------------------
(* The surroundings.                                                       *)

LEMMA RulesKeep ==
  ASSUME RewardInv, ChangeRules
  PROVE  RewardInv'
<1>1. /\ RewardTypeOK /\ now \in 0 .. Forever /\ Forever \in Nat
      /\ rules \in [Versions -> [ status : RuleStatuses, from : 0 .. Forever, to : 0 .. Forever ]]
  BY RuleAssumption DEF RewardInv, RewardTypeOK, RuleTypeOK, Now
<1>0. ASSUME NEW r \in [ status : RuleStatuses, from : 0 .. Forever, to : 0 .. Forever ],
             NEW t \in 0 .. Forever
      PROVE  [ r EXCEPT !.status = "SUPERSEDED", !.to = Least(@, t) ]
               \in [ status : RuleStatuses, from : 0 .. Forever, to : 0 .. Forever ]
  <2>1. Least(r.to, t) \in 0 .. Forever
    BY DEF Least
  <2>2. "SUPERSEDED" \in RuleStatuses
    BY DEF RuleStatuses
  <2> QED
    BY <2>1, <2>2
<1>2. ASSUME NEW v, NEW t \in 0 .. Forever
      PROVE  Superseding(rules, v, t)
               \in [Versions -> [ status : RuleStatuses, from : 0 .. Forever, to : 0 .. Forever ]]
  <2>1. \A w \in Versions : [ rules[w] EXCEPT !.status = "SUPERSEDED", !.to = Least(@, t) ]
          \in [ status : RuleStatuses, from : 0 .. Forever, to : 0 .. Forever ]
    BY <1>0, <1>1
  <2> QED
    BY <1>1, <2>1 DEF Superseding
<1>3. RuleTypeOK'
  <2>1. ASSUME NEW v \in Versions, NEW activate \in BOOLEAN, CreateRule(v, activate, now)
        PROVE  RuleTypeOK'
    <3>1. PICK before \in [Versions -> [ status : RuleStatuses, from : 0 .. Forever,
                                          to : 0 .. Forever ]], status \in { "ACTIVE", "DRAFT" } :
            rules' = [before EXCEPT ![v] = [ status |-> status, from |-> now, to |-> Forever ]]
      BY <1>1, <1>2, <2>1 DEF CreateRule
    <3> QED
      BY <1>1, <3>1 DEF RuleTypeOK, RuleStatuses
  <2>2. ASSUME NEW v \in Versions, ActivateRule(v, now) PROVE RuleTypeOK'
    <3>1. PICK before : before = Superseding(rules, v, now)
      OBVIOUS
    <3>2. /\ before \in [Versions -> [ status : RuleStatuses, from : 0 .. Forever, to : 0 .. Forever ]]
          /\ rules' = [before EXCEPT ![v] = [ before[v] EXCEPT !.status = "ACTIVE" ]]
      BY <1>1, <1>2, <2>2, <3>1 DEF ActivateRule
    <3>3. [ before[v] EXCEPT !.status = "ACTIVE" ]
            \in [ status : RuleStatuses, from : 0 .. Forever, to : 0 .. Forever ]
      BY <3>2 DEF RuleStatuses
    <3> QED
      BY <3>2, <3>3 DEF RuleTypeOK
  <2>3. ASSUME NEW v \in Versions, SupersedeRule(v, now) PROVE RuleTypeOK'
    <3>1. Least(rules[v].to, now) \in 0 .. Forever
      BY <1>1 DEF Least
    <3> QED
      BY <1>1, <2>3, <3>1, ZenonT(30) DEF SupersedeRule, RuleTypeOK, RuleStatuses
  <2> QED
    BY <2>1, <2>2, <2>3 DEF ChangeRules
<1>4. /\ UNCHANGED << now, source, quote, held, counter, member, paused, event, ledger, postedFor,
                      session >>
      /\ changes' = changes + 1
  BY DEF ChangeRules, Changes
<1>5. RewardTypeOK'
  BY <1>1, <1>3, <1>4 DEF RewardTypeOK
<1>6. KeptInv' /\ BudgetsAccounted' /\ CapsInv' /\ PostedInv' /\ OwedInv'
  BY <1>4, RowsStay
<1>7. SessionsInv' /\ AffordableInv'
  BY <1>4, TransactionsStay
<1> QED
  BY <1>5, <1>6, <1>7 DEF RewardInv

\* The clock, the memberships and the flags.
LEMMA OthersKeep ==
  ASSUME RewardInv,
         \/ \E m \in Memberships : MembershipEnds(m)
         \/ \E flag \in Flags : Pause(flag)
         \/ Tick
         \/ UNCHANGED vars
  PROVE  RewardInv'
<1>1. /\ UNCHANGED << rules, source, quote, held, counter, event, ledger, postedFor, session >>
      /\ now' \in Now /\ changes' \in Nat /\ member' \subseteq Memberships /\ paused' \subseteq Flags
  <2>1. now \in Now /\ changes \in Nat /\ member \subseteq Memberships /\ paused \subseteq Flags
    BY DEF RewardInv, RewardTypeOK
  <2>2. now < MaxNow => now + 1 \in Now
    BY <2>1 DEF Now
  <2> QED
    BY <2>1, <2>2 DEF MembershipEnds, Pause, Tick, Changes, vars
<1>2. RewardTypeOK'
  BY <1>1 DEF RewardInv, RewardTypeOK, RuleTypeOK
<1>3. KeptInv' /\ BudgetsAccounted' /\ CapsInv' /\ PostedInv' /\ OwedInv'
  BY <1>1, RowsStay
<1>4. SessionsInv' /\ AffordableInv'
  BY <1>1, TransactionsStay
<1> QED
  BY <1>2, <1>3, <1>4 DEF RewardInv

-----------------------------------------------------------------------------
(* The specification.                                                      *)

LEMMA RewardStarts == RewardInit => RewardInv
<1> SUFFICES ASSUME RewardInit PROVE RewardInv
  OBVIOUS
<1>1. RewardTypeOK
  <2>1. NoQuote \in Quote /\ NoEvent \in Event /\ Idle \in Session
    BY IdleStands DEF NoQuote, NoEvent, Quote, Event
  <2>2. RuleTypeOK
    BY RuleAssumption DEF RewardInit, RuleTypeOK, NoRule, RuleStatuses
  <2>3. 0 \in Now
    BY DEF Now
  <2> QED
    BY <2>1, <2>2, <2>3 DEF RewardInit, RewardTypeOK
<1>2. KeptInv
  BY DEF RewardInit, KeptInv, Kept, NoQuote, OncePerCounter, Earned
<1>3. SessionsInv /\ AffordableInv
  <2>1. Idle.locks = {}
    BY DEF Idle
  <2> QED
    BY <2>1, IdleStands DEF RewardInit, SessionsInv, AffordableInv
<1>4. \A s \in Sources : \A state, c : /\ AmountIn(InState(held[s], state), c) = 0
                                       /\ AmountIn(Unreleased(held[s]), c) = 0
  <2>1. \A s \in Sources : held[s] = {}
    BY DEF RewardInit
  <2>2. \A state : InState({}, state) = {} /\ Unreleased({}) = {}
    BY DEF InState, Unreleased
  <2>3. \A c : AmountIn({}, c) = 0
    BY AmountElsewhere
  <2> QED
    BY <2>1, <2>2, <2>3
<1>5. ASSUME NEW state, NEW c PROVE HeldIn(state, c) = 0
  <2>1. PICK f : f = [s \in Sources |-> AmountIn(InState(held[s], state), c)]
    OBVIOUS
  <2>2. \A s \in Sources : f[s] = 0
    BY <1>4, <2>1
  <2>3. Sum(f, Sources) = 0
    BY <2>2, SumZero
  <2> QED
    BY <2>1, <2>3 DEF HeldIn, Sum
<1>6. BudgetsAccounted
  <2>1. \A c \in Counters : Capacity[c] \in Nat
    OBVIOUS
  <2> QED
    BY <1>5, <2>1 DEF RewardInit, BudgetsAccounted
<1>7. ASSUME NEW m, NEW b PROVE UsedBy(m, b) = 0
  <2>1. PICK f : f = [s \in Sources |-> AmountIn(Unreleased(held[s]), b)]
    OBVIOUS
  <2>2. PICK S : S = QuotedWith(m)
    OBVIOUS
  <2>3. S \subseteq Sources /\ IsFiniteSet(S)
    BY <2>2, FS_Subset DEF QuotedWith
  <2>4. \A s \in S : f[s] = 0
    BY <1>4, <2>1, <2>3
  <2>5. Sum(f, S) = 0
    BY <2>3, <2>4, SumZero
  <2> QED
    BY <2>1, <2>2, <2>5 DEF UsedBy, Sum
<1>8. CapsInv
  BY <1>7 DEF CapsInv
<1>9. PostedInv
  BY DEF RewardInit, PostedInv, NoQuote
<1>10. ASSUME NEW state, NEW u \in Users PROVE OwedTo(state, u) = 0
  <2>1. PICK f : f = [s \in Sources |-> Owed(state, quote[s], event[s])]
    OBVIOUS
  <2>2. PICK S : S = { s \in Sources : quote[s].user = u }
    OBVIOUS
  <2>3. S = {}
    BY <2>2 DEF RewardInit, NoQuote
  <2>4. Sum(f, S) = 0
    BY <2>3, SumEmpty
  <2> QED
    BY <2>1, <2>2, <2>4 DEF OwedTo, Sum
<1>11. OwedInv
  BY <1>10 DEF RewardInit, OwedInv
<1> QED
  BY <1>1, <1>2, <1>3, <1>6, <1>8, <1>9, <1>11 DEF RewardInv

LEMMA NextKeeps == RewardInv /\ [Next]_vars => RewardInv'
<1> SUFFICES ASSUME RewardInv, [Next]_vars PROVE RewardInv'
  OBVIOUS
<1>1. ASSUME NEW p \in Sessions, Call(p) PROVE RewardInv'
  <2>1. PICK s \in Sources :
          \/ \E u \in Users, b \in BaseBudgets, policy \in Policies : QuoteSource(p, s, u, b, policy)
          \/ ExpireQuote(p, s)
          \/ \E t \in { now, quote[s].expires } : CompleteSource(p, s, t)
          \/ \E key \in Keys : IssueQuote(p, s, key)
    BY <1>1 DEF Call
  <2>2. now \in Nat /\ quote[s].expires \in Nat
    BY DEF RewardInv, RewardTypeOK, Quote, Now
  <2> QED
    BY <2>1, <2>2, QuoteSourceKeeps, ExpireQuoteKeeps, CompleteSourceKeeps, IssueQuoteKeeps
<1>2. ASSUME NEW p \in Sessions, Statement(p) PROVE RewardInv'
  <2>1. Rollback(p) => RewardInv'
    BY EndKeeps DEF Rollback
  <2> QED
    BY <1>2, <2>1, ValidateBudgetKeeps, ResolveBonusKeeps, CommitQuoteKeeps, CommitExpiryKeeps,
       CommitIssuanceKeeps DEF Statement
<1>3. ASSUME NEW s \in Sources, NEW part \in Parts, Mature(s, part) PROVE RewardInv'
  BY <1>3, MatureKeeps
<1>4. CASE ChangeRules
  BY <1>4, RulesKeep
<1>5. CASE \/ \E m \in Memberships : MembershipEnds(m)
           \/ \E flag \in Flags : Pause(flag)
           \/ Tick
           \/ UNCHANGED vars
  BY <1>5, OthersKeep
<1> QED
  BY <1>1, <1>2, <1>3, <1>4, <1>5 DEF Next

LEMMA RewardInvariant == RewardSpec => []RewardInv
  BY RewardStarts, NextKeeps, PTL DEF RewardSpec

\* The rows keep their types: no counter, amount or liability becomes negative.
THEOREM RewardsTyped == RewardSpec => []RewardTypeOK
<1>1. RewardInv => RewardTypeOK
  BY DEF RewardInv
<1> QED
  BY <1>1, RewardInvariant, PTL

\* Every budget and exposure period counts exactly what is reserved in it and
\* what was issued from it, and is not exceeded, however the transactions that
\* quote, expire and issue interleave.
THEOREM BudgetsStayAccounted == RewardSpec => []BudgetsAccounted
<1>1. RewardInv => BudgetsAccounted
  BY DEF RewardInv
<1> QED
  BY <1>1, RewardInvariant, PTL

\* A bonus that counts for a budget is what the quote has reserved in it.
LEMMA BonusIsUse ==
  ASSUME RewardInv, NEW s \in Sources, quote[s].status \in { "OPEN", "CONSUMED" },
         NEW b \in BonusBudgets, b \in CountersOf(s)
  PROVE  AmountIn(Unreleased(held[s]), b) = quote[s].bonus
<1>1. /\ OncePerCounter(held[s]) /\ Funded(quote[s], held[s])
      /\ \A r \in held[s] : r.state # "RELEASED"
  BY DEF RewardInv, KeptInv, Kept, Standing
<1>2. Unreleased(held[s]) = held[s]
  BY <1>1 DEF Unreleased
<1>3. PICK r \in held[s] : r.counter = b
  BY DEF CountersOf
<1>4. r.amount = quote[s].bonus
  BY <1>1, <1>3 DEF Funded
<1>5. AmountIn(held[s], r.counter) = r.amount
  BY <1>1, AmountOf
<1> QED
  BY <1>2, <1>3, <1>4, <1>5

\* No membership has more of a bonus budget than the cap per user: the budget's
\* row stays locked from the check of the cap to the reservation.
THEOREM UserCapsAreKept == RewardSpec => []UserCapsHold
<1>1. ASSUME RewardInv PROVE UserCapsHold
  <2> SUFFICES ASSUME NEW b \in BonusBudgets, NEW m \in Memberships, UserCap[b] # None
               PROVE  SumFunctionOnSet([s \in Sources |-> quote[s].bonus],
                        { s \in QuotedWith(m) : /\ quote[s].status \in { "OPEN", "CONSUMED" }
                                               /\ b \in CountersOf(s) }) <= UserCap[b]
    BY DEF UserCapsHold
  <2>1. PICK f : f = [s \in Sources |-> quote[s].bonus]
    OBVIOUS
  <2>2. PICK g : g = [s \in Sources |-> AmountIn(Unreleased(held[s]), b)]
    OBVIOUS
  <2>3. PICK S : S = QuotedWith(m)
    OBVIOUS
  <2>4. PICK T : T = { s \in S : /\ quote[s].status \in { "OPEN", "CONSUMED" }
                                 /\ b \in CountersOf(s) }
    OBVIOUS
  <2>5. S \subseteq Sources /\ IsFiniteSet(S) /\ T \in SUBSET S /\ IsFiniteSet(T)
    BY <2>3, <2>4, FS_Subset DEF QuotedWith
  <2>6. \A s \in S : g[s] \in Nat
    BY <1>1, <2>2, <2>5, Uses DEF RewardInv
  <2>7. \A s \in T : f[s] = g[s]
    <3> SUFFICES ASSUME NEW s \in T PROVE quote[s].bonus = AmountIn(Unreleased(held[s]), b)
      BY <2>1, <2>2, <2>5
    <3>1. s \in Sources /\ quote[s].status \in { "OPEN", "CONSUMED" } /\ b \in CountersOf(s)
      BY <2>4, <2>5
    <3> QED
      BY <1>1, <3>1, BonusIsUse
  <2>8. Sum(f, T) = Sum(g, T)
    BY <2>5, <2>7, SumAgree
  <2>9. Sum(g, T) <= Sum(g, S)
    BY <2>5, <2>6, SumMonotone
  <2>10. UsedBy(m, b) = Sum(g, S)
    BY <2>2, <2>3 DEF UsedBy, Sum
  <2>11. UsedBy(m, b) <= UserCap[b] /\ UserCap[b] \in Nat /\ UsedBy(m, b) \in Nat
    BY <1>1, UsedByType DEF RewardInv, CapsInv
  <2>12. Sum(g, T) \in Int
    BY <2>5, <2>6, SumType
  <2>13. Sum(f, T) <= UserCap[b]
    BY <2>8, <2>9, <2>10, <2>11, <2>12
  <2> QED
    BY <2>1, <2>3, <2>4, <2>13 DEF Sum
<1> QED
  BY <1>1, RewardInvariant, PTL

\* A quote started in time keeps its reservations until it is issued, whatever
\* expires, pauses or ends meanwhile, and has earned nothing before.
THEOREM StartedQuotesStayFunded == RewardSpec => []StartedStaysFunded
<1>1. ASSUME RewardInv PROVE StartedStaysFunded
  <2> SUFFICES ASSUME NEW s \in Sources
               PROVE  /\ quote[s].started # None => quote[s].status \in { "OPEN", "CONSUMED" }
                                                      /\ quote[s].started <= quote[s].expires
                      /\ quote[s].status = "OPEN" =>
                           /\ \A r \in held[s] : r.state = "ACTIVE"
                           /\ \A part \in Parts : event[s][part] = NoEvent
                           /\ AmountIn(held[s], CHOOSE b \in BaseBudgets : b \in CountersOf(s))
                                = quote[s].base
                           /\ quote[s].bonus > 0 =>
                                \E b \in BonusBudgets : AmountIn(held[s], b) = quote[s].bonus
    BY DEF StartedStaysFunded
  <2>1. Kept(source[s], quote[s], held[s], event[s])
    BY <1>1 DEF RewardInv, KeptInv
  <2>2. quote[s].started # None => quote[s].status \in { "OPEN", "CONSUMED" }
                                     /\ quote[s].started <= quote[s].expires
    BY <2>1 DEF Kept
  <2>3. ASSUME quote[s].status = "OPEN"
        PROVE  /\ \A r \in held[s] : r.state = "ACTIVE"
               /\ \A part \in Parts : event[s][part] = NoEvent
               /\ AmountIn(held[s], CHOOSE b \in BaseBudgets : b \in CountersOf(s))
                    = quote[s].base
               /\ quote[s].bonus > 0 =>
                    \E b \in BonusBudgets : AmountIn(held[s], b) = quote[s].bonus
    <3>1. /\ OncePerCounter(held[s]) /\ Funded(quote[s], held[s])
          /\ \A r \in held[s] : r.state = "ACTIVE"
          /\ \A part \in Parts : event[s][part] = NoEvent
      BY <2>1, <2>3 DEF Kept, Standing, Earned
    <3>2. PICK c : c = CHOOSE b \in BaseBudgets : b \in CountersOf(s)
      OBVIOUS
    <3>3. c \in BaseBudgets /\ c \in CountersOf(s)
      <4>1. \E b \in BaseBudgets : b \in CountersOf(s)
        BY <3>1 DEF Funded, CountersOf
      <4> QED
        BY <3>2, <4>1
    <3>4. PICK r \in held[s] : r.counter = c
      BY <3>3 DEF CountersOf
    <3>5. AmountIn(held[s], c) = quote[s].base
      <4>1. r.amount = quote[s].base
        BY <3>1, <3>3, <3>4 DEF Funded
      <4> QED
        BY <3>1, <3>4, <4>1, AmountOf
    <3>6. ASSUME quote[s].bonus > 0
          PROVE  \E b \in BonusBudgets : AmountIn(held[s], b) = quote[s].bonus
      <4>1. PICK t \in held[s] : t.counter \in BonusBudgets
        BY <3>1, <3>6 DEF Funded
      <4>2. t.amount = quote[s].bonus /\ AmountIn(held[s], t.counter) = t.amount
        BY <3>1, <4>1, AmountOf DEF Funded
      <4> QED
        BY <4>1, <4>2
    <3> QED
      BY <3>1, <3>2, <3>5, <3>6
  <2> QED
    BY <2>2, <2>3
<1> QED
  BY <1>1, RewardInvariant, PTL

\* What the platform owes a user is exactly what the events of his quotes say,
\* and a source is rewarded under one key.
THEOREM RewardsOwedAsIssued == RewardSpec => []OwedAsIssued
<1>1. ASSUME RewardInv PROVE OwedAsIssued
  <2>1. \A u \in Users :
          ledger[u] = [ pending |-> OwedTo("PENDING", u), available |-> OwedTo("AVAILABLE", u) ]
    BY <1>1 DEF RewardInv, OwedInv
  <2>2. ASSUME NEW s \in Sources
        PROVE  Cardinality({ k \in Keys : postedFor[k] = s })
                 = (IF quote[s].status = "CONSUMED" THEN 1 ELSE 0)
    <3>1. s # None
      OBVIOUS
    <3>2. PICK K : K = { k \in Keys : postedFor[k] = s }
      OBVIOUS
    <3>3. CASE quote[s].status = "CONSUMED"
      <4>1. PICK k \in Keys : postedFor[k] = s
        BY <1>1, <3>3 DEF RewardInv, PostedInv
      <4>2. K = { k }
        BY <1>1, <3>1, <3>2, <4>1 DEF RewardInv, PostedInv
      <4> QED
        BY <3>2, <3>3, <4>2, FS_Singleton
    <3>4. CASE quote[s].status # "CONSUMED"
      <4>1. K = {}
        BY <1>1, <3>1, <3>2, <3>4 DEF RewardInv, PostedInv
      <4> QED
        BY <3>2, <3>4, <4>1, FS_EmptySet
    <3> QED
      BY <3>3, <3>4
  <2> QED
    BY <2>1, <2>2 DEF OwedAsIssued
<1> QED
  BY <1>1, RewardInvariant, PTL

=============================================================================
