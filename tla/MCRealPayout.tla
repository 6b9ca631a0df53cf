---------------------------- MODULE MCRealPayout ----------------------------
(***************************************************************************)
(* Small instances of RealPayout for TLC: every withdrawal asks for 2 units *)
(* with a fee of 1, and belongs to one user who can just afford them all.   *)
(***************************************************************************)
EXTENDS RealPayout, TLC

CONSTANT u1

MCOwner == [w \in Ids |-> u1]
MCGross == [w \in Ids |-> 2]
MCFee == [w \in Ids |-> 1]
MCDeposit == [u \in Users |-> 2 * Cardinality(Ids)]

\* Only sets given as model values in the .cfg are permuted.
Alike ==
  Permutations(Ids) \cup Permutations(Keys) \cup Permutations(Tags) \cup Permutations(Runs)

=============================================================================
