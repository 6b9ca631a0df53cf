---------------------------- MODULE RewardRules ----------------------------
(***************************************************************************)
(* Reward rules and what they pay: packages/rewards/src/rules.ts and        *)
(* arithmetic.ts.  A rule family (a code) has numbered versions, of which   *)
(* the database lets at most one be ACTIVE at any instant; several families *)
(* may match one source.  Amounts are integers, divided with FLOOR.         *)
(***************************************************************************)
EXTENDS Integers

CONSTANTS
  Versions,   \* rule versions, in all families
  Family,     \* Family[v]: the code of v
  Terms,      \* Terms[v]: the immutable economics of v
  BpsScale,   \* 10000
  Mille,      \* 1000: an eCPM is paid for this many impressions
  Forever,    \* a time no valid_to reaches
  None        \* SQL's NULL

ASSUME RuleAssumption ==
  /\ BpsScale \in Nat \ { 0 } /\ Mille \in Nat \ { 0 }
  /\ Forever \in Nat /\ None \notin Nat

\* The columns are checked to be positive, or are NULL.
ASSUME TermsAssumption ==
  \A v \in Versions :
    \A n \in { Terms[v].fixed, Terms[v].ecpm, Terms[v].userShare, Terms[v].safety,
              Terms[v].min, Terms[v].max } : n \in Nat \cup { None }

VARIABLE rules  \* rules[v]: status and validity of the version

RuleStatuses == { "NONE", "DRAFT", "ACTIVE", "SUPERSEDED" }

RuleTypeOK ==
  rules \in [Versions -> [ status : RuleStatuses, from : 0 .. Forever, to : 0 .. Forever ]]

NoRule == [ status |-> "NONE", from |-> 0, to |-> Forever ]

-----------------------------------------------------------------------------

Least(a, b) == IF a < b THEN a ELSE b

InForceAt(r, v, t) == r[v].status = "ACTIVE" /\ r[v].from <= t /\ t < r[v].to

\* reward_rules_no_active_overlap
Disjoint(r) ==
  \A v, w \in Versions :
    v # w /\ Family[v] = Family[w] /\ r[v].status = "ACTIVE" /\ r[w].status = "ACTIVE"
      => r[v].to <= r[w].from \/ r[w].to <= r[v].from

\* The family's versions in force at t give way, if they began before it.
Superseding(r, v, t) ==
  [w \in Versions |->
    IF w # v /\ Family[w] = Family[v] /\ InForceAt(r, w, t) /\ r[w].from < t
      THEN [ r[w] EXCEPT !.status = "SUPERSEDED", !.to = Least(@, t) ]
      ELSE r[w]]

\* createRewardRuleVersion: as a DRAFT, or ACTIVE from the given time.  The
\* insertion that would overlap fails, and all of it is rolled back.
CreateRule(v, activate, from) ==
  /\ rules[v].status = "NONE"
  /\ LET before == IF activate THEN Superseding(rules, v, from) ELSE rules
         status == IF activate THEN "ACTIVE" ELSE "DRAFT"
     IN rules' = [before EXCEPT ![v] = [ status |-> status, from |-> from, to |-> Forever ]]
  /\ Disjoint(rules')

\* activateRewardRuleVersion: the draft keeps the valid_from it was given.
ActivateRule(v, asOf) ==
  /\ rules[v].status = "DRAFT"
  /\ rules' = [Superseding(rules, v, asOf) EXCEPT ![v].status = "ACTIVE"]
  /\ Disjoint(rules')

\* supersedeRewardRuleVersion; a window that would be empty is refused.
SupersedeRule(v, asOf) ==
  /\ rules[v].status # "NONE" /\ asOf > rules[v].from
  /\ rules' = [rules EXCEPT ![v].status = "SUPERSEDED", ![v].to = Least(@, asOf)]

\* The rules that match a source at t: resolveRewardRule fails unless it is one.
Matching(t) == { v \in Versions : InForceAt(rules, v, t) }

-----------------------------------------------------------------------------
(* Amounts.                                                                *)

RawReward(terms) ==
  (terms.ecpm * terms.userShare * terms.safety) \div (Mille * BpsScale * BpsScale)

Clamped(raw, terms) ==
  LET low == IF terms.min # None /\ raw < terms.min THEN terms.min ELSE raw
  IN IF terms.max # None /\ low > terms.max THEN terms.max ELSE low

\* A fixed reward wins; 0 stands for the errors, that a part of the formula is
\* missing and that the reward "must be greater than zero".
QuotedReward(terms) ==
  CASE terms.fixed # None -> terms.fixed
    [] terms.fixed = None /\ None \in { terms.ecpm, terms.userShare, terms.safety } -> 0
    [] OTHER -> Clamped(RawReward(terms), terms)

MembershipBonus(base, bps) == (base * bps) \div BpsScale

=============================================================================
