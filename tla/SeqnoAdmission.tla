--------------------------- MODULE SeqnoAdmission ---------------------------
(***************************************************************************)
(* The seqno under which the hot wallet's next message is signed            *)
(* (packages/ton/src/admit-wallet-seqno.ts): two independent providers are  *)
(* asked for the account and then for its seqno, and must agree.  Each      *)
(* answers from its own copy of the chain, which may be behind, and two     *)
(* calls of one provider may be answered from copies of different age.      *)
(*                                                                          *)
(* The account is deployed by the first message the wallet executes, so its *)
(* seqno is the number of those executed.                                   *)
(***************************************************************************)
EXTENDS Naturals

\* getAccountState; "nonexist" is treated as "uninit", and a code hash is that of
\* the approved wallet, that of another, or missing.
AccountState ==
  [ status : { "uninit", "active", "frozen", "unknown" },
    code   : { "V5R1", "other", "none" } ]

\* The account of a wallet that has executed up to `now' messages, as a provider
\* that is behind may show it; an active one without its code hash, too.
Shown(now) ==
  { s \in AccountState :
      \/ s.status = "uninit" /\ s.code = "none"
      \/ s.status = "active" /\ s.code # "other" /\ now > 0 }

\* The two accounts agree, and nothing speaks against the approved wallet; of an
\* active one, at least one provider knows the code.
Agreed(p, q) ==
  /\ p.status = q.status
  /\ \/ p.status = "uninit" /\ { p.code, q.code } = { "none" }
     \/ p.status = "active" /\ { p.code, q.code } \ { "none" } = { "V5R1" }

\* Uninitialized for both is seqno 0; of an active wallet both name the same.
Admits(p, q, m, n, seqno) ==
  /\ Agreed(p, q)
  /\ \/ p.status = "uninit" /\ seqno = 0
     \/ p.status = "active" /\ m = n /\ seqno = m

\* What an admission may come to, if it does not block; the checks of the signer's
\* key, the network and the derived address come before and only block.
AdmittedSeqnos(now) ==
  { seqno \in 0 .. now :
      \E p, q \in Shown(now), m, n \in 0 .. now : Admits(p, q, m, n, seqno) }

=============================================================================
