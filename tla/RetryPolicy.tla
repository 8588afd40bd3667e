----------------------------- MODULE RetryPolicy -----------------------------
(***************************************************************************)
(* policy/retry.rego, and the older policy that the bundle                 *)
(* dist/bundle-4ca4787c0a1eea75.tar.gz still holds.  The two have the same *)
(* rules; the older one has no exemption for T4.                           *)
(*                                                                         *)
(* A policy input is a record with the fields build_policy_input() sends.  *)
(* A max_posterior is a whole number of millionths: a 6-dp string.         *)
(***************************************************************************)
EXTENDS Naturals

CONSTANT config   \* data.config, policy/config/data.json

ASSUME ConfigAssumption ==
  config \in [visa_cap : Nat, payment_cap : Nat, bin_hourly_cap : Nat, nudge_cap_7d : Nat,
              afa_threshold_paise : Nat, pre_debit_notice_ms : Nat,
              npci_blackout_start_hour : Nat, npci_blackout_end_hour : Nat,
              confidence_floor : Nat]

If(condition, reason) == IF condition THEN {reason} ELSE {}

\* Every rule that matches, whatever the tier.
rule_fired(input) ==
  UNION {
    If(input.cause_class = "hard", "hard_decline"),
    If(input.network_category = 1, "visa_cat1"),
    If(input.merchant_advice_code = "03", "mac_03"),
    If(input.merchant_advice_code = "21", "mac_21"),
    If(input.npci_retry_remark = "do_not_reinitiate", "npci_no_retry"),
    If(input.attempts_30d >= config.visa_cap, "visa_network_cap"),
    If(input.attempts_this_payment >= config.payment_cap, "per_payment_cap"),
    If(input.bin_attempts_1h >= config.bin_hourly_cap, "bin_velocity"),
    If(/\ input.tier = "T3"
       /\ input.customer_nudges_7d >= config.nudge_cap_7d, "nudge_fatigue_7d"),
    If(/\ input.is_emandate
       /\ input.amount_paise > config.afa_threshold_paise
       /\ ~input.afa_completed, "rbi_afa_required"),
    If(/\ input.is_emandate
       /\ input.ms_since_pre_debit_notice < config.pre_debit_notice_ms,
       "rbi_pre_debit_notice_not_elapsed"),
    If(/\ input.rail = "upi_autopay"
       /\ input.ist_hour >= config.npci_blackout_start_hour
       /\ input.ist_hour < config.npci_blackout_end_hour,
       "npci_autopay_blackout_window"),
    If(/\ input.tier \in {"T0", "T1", "T2", "T3"}
       /\ input.max_posterior < config.confidence_floor, "low_confidence"),
    If(input.tier = "T2" /\ ~input.has_alternate_instrument, "no_alternate_instrument") }

\* A plausible slip: the exemption is lost.
deny_reason_without_exemption(exempt, input) == rule_fired(input)

\* What binds: human escalation is outside the rules' jurisdiction, in the
\* bundles that have the exemption.
deny_reason(exempt, input) ==
  IF exempt /\ input.tier = "T4" THEN {} ELSE rule_fired(input)

\* default allow := false; allow if count(deny_reason) == 0.
allow(exempt, input) == deny_reason(exempt, input) = {}
=============================================================================
