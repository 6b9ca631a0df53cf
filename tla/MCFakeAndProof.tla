--------------------------- MODULE MCFakeAndProof ---------------------------
(***************************************************************************)
(* For TLC: the fake payout, where the outcome of a call may stay unknown,  *)
(* and the confirmation of a payout from what two providers show.  They     *)
(* share no variable, so a behaviour here exercises one, chosen at the      *)
(* start, and leaves the other at rest.  As in MCRealPayout, every          *)
(* withdrawal asks for 2 units with a fee of 1.                             *)
(***************************************************************************)
EXTENDS FakePayout, PayoutProof, TLC

CONSTANT u1

MCOwner == [w \in Ids |-> u1]
MCGross == [w \in Ids |-> 2]
MCFee == [w \in Ids |-> 1]
MCDeposit == [u \in Users |-> 2 * Cardinality(Ids)]

VARIABLE part

allVars == <<part, vars, proofVars>>

MCInit == FakeInit /\ ProofInit /\ part \in {"fake", "proof"}

MCNext ==
  \/ part = "fake" /\ FakeNext /\ UNCHANGED <<part, proofVars>>
  \/ part = "proof" /\ ProofNext /\ UNCHANGED <<part, vars>>

MCSpec == MCInit /\ [][MCNext]_allVars

Alike == Permutations(Ids) \cup Permutations(Keys) \cup Permutations(Tags)

=============================================================================
