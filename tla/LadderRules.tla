---------------------------- MODULE LadderRules ----------------------------
(***************************************************************************)
(* The pure part of kernel/ladder.py: what OPA is asked about a decline,   *)
(* which tiers the ladder would take for a cause and in which order, and   *)
(* which one it selects when the policy allowed a given set of them.       *)
(***************************************************************************)
EXTENDS RetryPolicy, CanonicalCauses, Integers, Functions

QUERIED_TIERS == <<"T1", "T2", "T3", "T4">>

ACTIONABLE_TIERS == {"T1", "T2", "T3"}

\* Everything the policy needs to judge one decline; max_posterior is in
\* ten-millionths, and a signal that is None is 0 or "none".
DeclineContext ==
  [cause : CAUSES, max_posterior : Nat, rail : STRING, amount_paise : Nat,
   network_category : Nat, merchant_advice_code : STRING, npci_retry_remark : STRING,
   attempts_30d : Nat, attempts_this_payment : Nat, bin_attempts_1h : Nat,
   customer_nudges_7d : Nat, is_emandate : BOOLEAN, afa_completed : BOOLEAN,
   ms_since_pre_debit_notice : Int, ist_hour : Nat, has_alternate_instrument : BOOLEAN]

IndexOf(tier) == CHOOSE i \in 1..4 : QUERIED_TIERS[i] = tier

\* A plausible slip: a percentage, rounded.
prob_str_2dp(p) == ((p + 50000) \div 100000) * 10000

\* prob_str(): the posterior, here in ten-millionths, rounded to six places.
prob_str(p) == (p + 5) \div 10

build_policy_input(c, tier) ==
  [f \in (DOMAIN c \ {"cause"}) \union {"cause_class", "tier"} |->
     CASE f = "cause_class" -> cause_class(c.cause)
       [] f = "tier" -> tier
       [] f = "max_posterior" -> prob_str(c.max_posterior)
       [] OTHER -> c[f]]

\* Which tiers the ladder would take ...
proposed_tiers_for(c) ==
  IF cause_class(c) = "hard" THEN {}
  ELSE ACTIONABLE_TIERS \ (IF retryable(c) THEN {} ELSE {"T1", "T2"})

\* ... and in which order: the cause's default tier, then the others.
Prefers(c, s, t) ==
  t # default_tier(c) /\ (s = default_tier(c) \/ IndexOf(s) < IndexOf(t))

\* The preferred tier among those proposed and allowed; a human if there is
\* none; nothing if that is not allowed either, or the decline is hard.
SelectTier(cause, allowed) ==
  LET permitted == proposed_tiers_for(cause) \intersect allowed
  IN  IF permitted # {}
      THEN CHOOSE t \in permitted : \A s \in permitted \ {t} : Prefers(cause, t, s)
      ELSE IF cause_class(cause) # "hard" /\ "T4" \in allowed THEN "T4" ELSE "T0"

\* The tier a DECISION row describes.  T0 is never queried: its row describes
\* the first tier that was.
RecordedTier(selected) == IF selected = "T0" THEN "T1" ELSE selected
=============================================================================
