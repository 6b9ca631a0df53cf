-------------------------- MODULE FounderMembership --------------------------
(***************************************************************************)
(* Founder memberships of packages/auth/src/membership.ts: claim codes, the  *)
(* Owner's direct grants and the sequence that numbers the founders.         *)
(* Every transaction locks the user (and the code) before it decides; a      *)
(* grant looks its idempotency key up before that, in a step of its own.     *)
(***************************************************************************)
EXTENDS Naturals, FiniteSets

CONSTANTS
  Members,      \* the users
  Codes,        \* claim codes (bounds their number)
  Grants,       \* requests of the Owner to grant a membership, each with its key
  Target,       \* Target[g]: the user a request names
  KeyOf,        \* KeyOf[g]: the idempotency key and reason of a request
  MaxNumber     \* bound of founder_number_seq

\* Two requests under one key are the same request, sent again.
ASSUME FounderAssumption ==
  /\ Target \in [Grants -> Members]
  /\ \A g, h \in Grants : KeyOf[g] = KeyOf[h] => Target[g] = Target[h]
  /\ MaxNumber \in Nat

VARIABLES
  seq,          \* founder_number_seq: the last number handed out
  founder,      \* user_memberships: the number of each user, 0 for none
  blocked,      \* users.status is SUSPENDED, BANNED or DELETED_ANONYMIZED
  code,         \* membership_claim_codes
  grant,        \* the requests to grant, and their answers
  audit         \* audit_logs of grants: key and user

founderVars == <<seq, founder, blocked, code, grant, audit>>

FounderInit ==
  /\ seq = 0
  /\ founder = [u \in Members |-> 0]
  /\ blocked = {}
  /\ code = [c \in Codes |-> [st |-> "unused"]]
  /\ grant = [g \in Grants |-> [st |-> "new"]]
  /\ audit = {}

\* nextval is not undone when its transaction is rolled back.
Numbered == seq < MaxNumber /\ seq' = seq + 1

NumberLost ==
  /\ Numbered
  /\ UNCHANGED <<founder, blocked, code, grant, audit>>

\* Mutant: the sequence's last value is reserved, not the next.
ReservedLast(reserve) ==
  IF reserve THEN [st |-> "open", reserved |-> seq] ELSE [st |-> "open", reserved |-> 0]

\* A code that reserves has the number its transaction took from the sequence.
Reserved(reserve) ==
  IF reserve THEN [st |-> "open", reserved |-> seq'] ELSE [st |-> "open", reserved |-> 0]

\* The Owner issues a code, with a founder number of its own or without.
IssueCode(c) ==
  /\ \E d \in Codes : code[d].st = "unused"
  /\ c = CHOOSE d \in Codes : code[d].st = "unused"
  /\ \E reserve \in BOOLEAN :
       /\ IF reserve THEN Numbered ELSE seq' = seq
       /\ code' = [code EXCEPT ![c] = Reserved(reserve)]
  /\ UNCHANGED <<founder, blocked, grant, audit>>

\* Under the locks of the user and the code: the user is neither blocked nor a
\* founder and has consumed no other code, and this one is neither consumed nor
\* expired.
Claimable(u, c) ==
  /\ u \notin blocked
  /\ code[c].st = "open"
  /\ founder[u] = 0
  /\ ~ \E d \in Codes : code[d].st = "consumed" /\ code[d].by = u

\* The code makes the user a founder, and is consumed.
Claim(u, c) ==
  /\ Claimable(u, c)
  /\ IF code[c].reserved = 0 THEN Numbered ELSE seq' = seq
  /\ founder' = [founder EXCEPT ![u] = IF code[c].reserved = 0 THEN seq' ELSE code[c].reserved]
  /\ code' = [code EXCEPT ![c] = [st |-> "consumed", reserved |-> @.reserved, by |-> u]]
  /\ UNCHANGED <<blocked, grant, audit>>

CodeExpires(c) ==
  /\ code[c].st = "open"
  /\ code' = [code EXCEPT ![c].st = "expired"]
  /\ UNCHANGED <<seq, founder, blocked, grant, audit>>

\* A grant looks for the answer given under its key.
ReadGrantKey(g) ==
  /\ grant[g].st = "new"
  /\ LET prior == {e \in audit : e.key = KeyOf[g]}
     IN  grant' = [grant EXCEPT ![g] =
           IF prior = {} THEN [st |-> "read"]
           ELSE [st |-> "done", user |-> (CHOOSE e \in prior : TRUE).user]]
  /\ UNCHANGED <<seq, founder, blocked, code, audit>>

\* Mutant: the user is not asked for a membership under the lock.
GrantableUnlessBlocked(u) == u \notin blocked

\* Under the user's lock: not blocked, and no founder yet.
Grantable(u) == u \notin blocked /\ founder[u] = 0

\* Nothing was found: the user is locked and made a founder, and the audit row
\* keeps the key.
GrantMembership(g) ==
  LET u == Target[g] IN
  /\ grant[g].st = "read"
  /\ Grantable(u)
  /\ Numbered
  /\ founder' = [founder EXCEPT ![u] = seq']
  /\ audit' = audit \cup {[key |-> KeyOf[g], user |-> u, number |-> seq']}
  /\ grant' = [grant EXCEPT ![g] = [st |-> "done", user |-> u]]
  /\ UNCHANGED <<blocked, code>>

\* It is refused; the Owner may send it again.
RefuseGrant(g) ==
  /\ grant[g].st = "read"
  /\ ~Grantable(Target[g])
  /\ grant' = [grant EXCEPT ![g] = [st |-> "new"]]
  /\ UNCHANGED <<seq, founder, blocked, code, audit>>

Block(u) ==
  /\ blocked' = IF u \in blocked THEN blocked \ {u} ELSE blocked \cup {u}
  /\ UNCHANGED <<seq, founder, code, grant, audit>>

FounderNext ==
  \/ NumberLost
  \/ \E c \in Codes : IssueCode(c) \/ CodeExpires(c) \/ \E u \in Members : Claim(u, c)
  \/ \E g \in Grants : ReadGrantKey(g) \/ GrantMembership(g) \/ RefuseGrant(g)
  \/ \E u \in Members : Block(u)

FounderSpec == FounderInit /\ [][FounderNext]_founderVars

-----------------------------------------------------------------------------
\* No founder number is ever promised twice: not to two founders, not to a
\* founder and to a code that still can be claimed, not by the sequence again
\* (claimFounderCode, grantFounderMembership, issueFounderClaimCode).
NumbersNeverShared ==
  /\ \A u \in Members : founder[u] <= seq
  /\ \A u, v \in Members : founder[u] = founder[v] /\ founder[u] # 0 => u = v
  /\ \A c \in Codes : code[c].st = "open" /\ code[c].reserved # 0 =>
       /\ code[c].reserved <= seq
       /\ \A u \in Members : founder[u] # code[c].reserved
       /\ \A d \in Codes : code[d].st = "open" /\ code[d].reserved = code[c].reserved => c = d

\* A grant that is sent twice under one key makes one founder of one user, and
\* no later step takes his number or gives him another (membership.ts:359).
GrantedOnce ==
  /\ \A e, f \in audit : e.key = f.key => e = f
  /\ \A e \in audit : founder[e.user] = e.number

=============================================================================
