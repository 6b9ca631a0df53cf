----------------------------- MODULE MCRewards -----------------------------
(***************************************************************************)
(* Two sources, the second for ann only.  Her membership doubles a reward;  *)
(* bob's two, of half a reward each, conflict until one ends, and half of   *)
(* the reward of 1, rounded down, is nothing.  The formula of the first     *)
(* rule version pays 1 and the second, fixed, 2.  Days of two ticks.        *)
(***************************************************************************)
EXTENDS Rewards, TLC

CONSTANTS s1, s2, ann, bob, m1, m2, m3, b1, eu, plan, all, spend, bonusSpend, v1, v2

MCBinding == [s \in Sources |-> IF s = s2 THEN ann ELSE None]
MCFamily == [v \in Versions |-> "PROMO"]
MCTerms ==
  [v \in Versions |->
    IF v = v1
      THEN [ fixed |-> None, ecpm |-> 9, userShare |-> 2, safety |-> 1, min |-> None, max |-> 1 ]
      ELSE [ fixed |-> 2, ecpm |-> None, userShare |-> None, safety |-> None,
             min |-> None, max |-> None ]]
MCScope ==
  [b \in BaseBudgets |-> IF b = b1 THEN [ type |-> "GLOBAL", reference |-> None, country |-> None ]
                                   ELSE [ type |-> "REWARD_RULE", reference |-> v2, country |-> eu ]]
MCCountry == [s \in Sources |-> IF s = s2 THEN eu ELSE None]
MCHolder == [m \in Memberships |-> IF m = m1 THEN ann ELSE bob]
MCBps == [m \in Memberships |-> IF m = m1 THEN 4 ELSE 2]
MCBonusFor == [b \in BonusBudgets |-> IF b = plan THEN { m1, m2 } ELSE Memberships]
MCUserCap == [b \in BonusBudgets |-> IF b = plan THEN 1 ELSE None]
MCLimitOn == [l \in Limits |-> IF l = spend THEN "base" ELSE "bonus"]
MCDays == [b \in BaseBudgets \cup BonusBudgets |-> IF b = plan THEN { 0 } ELSE IF b \notin { b1, all } THEN { 1 } ELSE { 0, 1 }]
MCCapacity ==
  [c \in Counters |-> IF c \in BaseBudgets THEN 3 ELSE IF c \in { plan, all } THEN 2
                      ELSE IF c[1] = spend THEN 3 ELSE 2]

Alike == Permutations(Sessions) \cup Permutations(Keys)

=============================================================================
