----------------------------- MODULE MCAccounts -----------------------------
(***************************************************************************)
(* Sessions, wallets and founder memberships for TLC.  The three share no   *)
(* row and no guard, so every behaviour of all three together is one of each *)
(* for itself: a behaviour here exercises one part, chosen at the start, and *)
(* leaves the others at rest.                                               *)
(***************************************************************************)
EXTENDS Sessions, WalletOwnership, FounderMembership, TLC

CONSTANTS u1, u2, g1, g2, g3, k1, k2

VARIABLE part

vars == <<part, sessionVars, walletVars, founderVars>>

\* The Owner sends one request twice, and a second one for the same user.
MCTarget == [g \in Grants |-> u1]
MCKeyOf == (g1 :> k1) @@ (g2 :> k1) @@ (g3 :> k2)

Init ==
  /\ part \in {"sessions", "wallets", "founders"}
  /\ SessionInit /\ WalletInit /\ FounderInit

Next ==
  \/ part = "sessions" /\ SessionNext /\ UNCHANGED <<part, walletVars, founderVars>>
  \/ part = "wallets" /\ WalletNext /\ UNCHANGED <<part, sessionVars, founderVars>>
  \/ part = "founders" /\ FounderNext /\ UNCHANGED <<part, sessionVars, walletVars>>

AccountsSpec == Init /\ [][Next]_vars

Alike == Permutations(Workers) \cup Permutations(Addresses)

=============================================================================
