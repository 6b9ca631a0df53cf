--------------------------- MODULE WalletOwnership ---------------------------
(***************************************************************************)
(* Wallets of packages/wallets/src: a user proves the ownership of an       *)
(* address by signing a challenge; the first wallet becomes the primary at  *)
(* once, a change of the primary starts a cooldown for withdrawals, and the  *)
(* wallet gate of withdrawals/src/wallet-gate.ts stands before every quote   *)
(* and withdrawal.                                                          *)
(*                                                                         *)
(* Each operation is a transaction that first locks the user's row, so it is *)
(* one action; only the change of the primary reads the clock before it      *)
(* waits for that lock, and so is two.                                       *)
(***************************************************************************)
EXTENDS Naturals, FiniteSets

CONSTANTS
  WalletUsers,  \* the users
  Addresses,    \* addresses on the accepted network
  NoAddress,    \* no primary wallet
  Nonces,       \* challenges (bounds their number)
  Ttl,          \* challengeTtlSeconds
  Cooldown,     \* withdrawalCooldownHours
  MaxChanges,   \* bound of the changes that wait at the same time
  MaxClock       \* bound of the clock

ASSUME WalletAssumption ==
  /\ NoAddress \notin Addresses
  /\ Ttl \in Nat \ {0} /\ Cooldown \in Nat /\ MaxChanges \in Nat /\ MaxClock \in Nat

VARIABLES
  clock,        \* the time, in units of Ttl and Cooldown
  nonce,        \* user_wallet_proof_nonces
  verified,     \* user_wallets: the addresses each user has proved
  primary,      \* user_wallets.is_primary: the address, since when, by a change or not
  cooldown,     \* users.withdrawal_cooldown_until
  changes,      \* changes of a primary on their way: requests that wait for the user's row
  quoted,       \* withdrawal_quotes.primary_wallet_id
  created       \* the latest withdrawal of each user, with the primary it found

walletVars == <<clock, nonce, verified, primary, cooldown, changes, quoted, created>>

NoPrimary == [address |-> NoAddress, since |-> 0, changed |-> FALSE]
NoWithdrawal == [to |-> NoAddress, at |-> 0, primary |-> NoPrimary]

WalletInit ==
  /\ clock = 0
  /\ nonce = [c \in Nonces |-> [st |-> "unused"]]
  /\ verified = [u \in WalletUsers |-> {}]
  /\ primary = [u \in WalletUsers |-> NoPrimary]
  /\ cooldown = [u \in WalletUsers |-> 0]
  /\ changes = {}
  /\ quoted = [u \in WalletUsers |-> NoAddress]
  /\ created = [u \in WalletUsers |-> NoWithdrawal]

\* A challenge is written under a share lock on the user, before the client has it.
CreateChallenge(u) ==
  /\ \E c \in Nonces : nonce[c].st = "unused"
  /\ nonce' = [nonce EXCEPT ![CHOOSE c \in Nonces : nonce[c].st = "unused"] =
       [st |-> "open", user |-> u, expires |-> clock + Ttl]]
  /\ UNCHANGED <<clock, verified, primary, cooldown, changes, quoted, created>>

\* The challenge of a proof is the user's own, open, and not expired at the time now.
Answers(u, c, now) ==
  /\ nonce[c].st = "open" /\ nonce[c].user = u
  /\ now < nonce[c].expires

Consume(c) == [nonce EXCEPT ![c].st = "consumed"]

\* The address is inserted, or found among the user's wallets, as verified.
Proved(u, a) == [verified EXCEPT ![u] = @ \cup {a}]

\* A valid proof adds the wallet, or finds it; it becomes the primary when the
\* caller wants it and there is none.  That starts no cooldown.
Bind(u, c, a) ==
  /\ Answers(u, c, clock)
  /\ verified' = Proved(u, a)
  /\ \E first \in BOOLEAN :
       primary' = IF first /\ primary[u].address = NoAddress
                  THEN [primary EXCEPT ![u] =
                          [address |-> a, since |-> clock, changed |-> FALSE]]
                  ELSE primary
  /\ nonce' = Consume(c)
  /\ UNCHANGED <<clock, cooldown, changes, quoted, created>>

\* A request to change the primary reads the clock, and waits for the user's row.
RequestChange(u, c, a) ==
  /\ nonce[c].st = "open"
  /\ Cardinality(changes) < MaxChanges
  /\ changes' = changes \cup {[user |-> u, nonce |-> c, to |-> a, now |-> clock]}
  /\ UNCHANGED <<clock, nonce, verified, primary, cooldown, quoted, created>>

\* The user's other open challenges end with the change.
Invalidated(u, c) ==
  [d \in Nonces |->
     IF d = c THEN [nonce[c] EXCEPT !.st = "consumed"]
     ELSE IF nonce[d].st = "open" /\ nonce[d].user = u
          THEN [nonce[d] EXCEPT !.st = "invalidated"]
          ELSE nonce[d]]

\* Mutant: the time of the change is stored, and no cooldown starts.
CoolingNone(u, now) == cooldown

\* Withdrawals rest for the cooldown, counted from when the request was read.
Cooling(u, now) == [cooldown EXCEPT ![u] = now + Cooldown]

\* The lock is free.  A proof of the primary itself only uses up its challenge;
\* another address becomes the primary in the old one's place.
ChangePrimary(r) ==
  LET u == r.user IN
  /\ primary[u].address # NoAddress
  /\ Answers(u, r.nonce, r.now)
  /\ \/ /\ r.to = primary[u].address
        /\ nonce' = Consume(r.nonce)
        /\ UNCHANGED <<verified, primary, cooldown>>
     \/ /\ r.to # primary[u].address
        /\ verified' = Proved(u, r.to)
        /\ primary' = [primary EXCEPT ![u] =
             [address |-> r.to, since |-> r.now, changed |-> TRUE]]
        /\ cooldown' = Cooling(u, r.now)
        /\ nonce' = Invalidated(u, r.nonce)
  /\ changes' = changes \ {r}
  /\ UNCHANGED <<clock, quoted, created>>

\* The request fails: no primary, a challenge that is used, ended, expired or
\* another user's, a proof that does not verify, or a lost connection.
ChangeFails(r) ==
  /\ changes' = changes \ {r}
  /\ UNCHANGED <<clock, nonce, verified, primary, cooldown, quoted, created>>

\* The gate: the cooldown is over and there is a verified primary wallet.
Eligible(u) ==
  /\ cooldown[u] <= clock
  /\ primary[u].address # NoAddress

\* A quote remembers the primary wallet.
Quote(u) ==
  /\ Eligible(u)
  /\ quoted' = [quoted EXCEPT ![u] = primary[u].address]
  /\ UNCHANGED <<clock, nonce, verified, primary, cooldown, changes, created>>

\* A withdrawal goes to the quoted wallet, while that still is the primary.
Create(u) ==
  /\ quoted[u] # NoAddress
  /\ Eligible(u) /\ quoted[u] = primary[u].address
  /\ created' = [created EXCEPT ![u] =
       [to |-> quoted[u], at |-> clock, primary |-> primary[u]]]
  /\ quoted' = [quoted EXCEPT ![u] = NoAddress]
  /\ UNCHANGED <<clock, nonce, verified, primary, cooldown, changes>>

Tick ==
  /\ clock < MaxClock
  /\ clock' = clock + 1
  /\ UNCHANGED <<nonce, verified, primary, cooldown, changes, quoted, created>>

WalletNext ==
  \/ \E u \in WalletUsers :
       \/ CreateChallenge(u) \/ Quote(u) \/ Create(u)
       \/ \E c \in Nonces, a \in Addresses : Bind(u, c, a) \/ RequestChange(u, c, a)
  \/ \E r \in changes : ChangePrimary(r) \/ ChangeFails(r)
  \/ Tick

WalletSpec == WalletInit /\ [][WalletNext]_walletVars

-----------------------------------------------------------------------------
\* A withdrawal goes to a wallet that its user has proved, and that was the
\* first primary or had been asked for a whole cooldown earlier
\* (changePrimaryWallet, primary-change.ts:53; requireEligiblePrimaryWallet).
CooledDown ==
  \A u \in WalletUsers :
    LET w == created[u] IN
    w # NoWithdrawal =>
      /\ w.to \in verified[u] /\ w.to = w.primary.address
      /\ w.primary.changed => w.at >= w.primary.since + Cooldown

\* A change that read the clock early and waited long never brings the end of a
\* cooldown forward: the change it waited for has ended its challenge
\* (primary-change.ts:77 and 225).
CooldownOnlyGrows == [][\A u \in WalletUsers : cooldown'[u] >= cooldown[u]]_walletVars

=============================================================================
