------------------------------ MODULE MCLadder ------------------------------
(* The committed configuration and bundles, two bundles that leave fields   *)
(* out of their result, declines that every rule allows, and declines with  *)
(* one field set so that its rule fires, or only just does not.             *)
EXTENDS Normalise, TLC

CONSTANTS old, new,   \* bundles 4ca4787c0a1eea75 and bd45b0c7e5ce66a3
          bare,       \* the policy of the new one, loaded without data.revision
          elsewhere   \* another policy, with a result at our path

CommittedConfig ==
  [visa_cap |-> 15, payment_cap |-> 3, bin_hourly_cap |-> 10, nudge_cap_7d |-> 2,
   afa_threshold_paise |-> 1500000, pre_debit_notice_ms |-> 86400000,
   npci_blackout_start_hour |-> 10, npci_blackout_end_hour |-> 13,
   confidence_floor |-> 400000]

FourBundles == {old, new, bare, elsewhere}
T4Exemption == [r \in FourBundles |-> r # old]
AllFields == {"allow", "deny_reason", "bundle_revision"}
FourResults ==
  [r \in FourBundles |-> IF r = bare THEN AllFields \ {"bundle_revision"}
                        ELSE IF r = elsewhere THEN {} ELSE AllFields]

NewExemption == (new :> TRUE)
NewResult == (new :> AllFields)

Plain(c) ==
  [cause |-> c, max_posterior |-> 9000000, rail |-> "card", amount_paise |-> 1500000,
   network_category |-> 0, merchant_advice_code |-> "none", npci_retry_remark |-> "none",
   attempts_30d |-> 14, attempts_this_payment |-> 2, bin_attempts_1h |-> 9,
   customer_nudges_7d |-> 1, is_emandate |-> FALSE, afa_completed |-> FALSE,
   ms_since_pre_debit_notice |-> 86400000, ist_hour |-> 12,
   has_alternate_instrument |-> TRUE]

Mandate(c) == [Plain(c) EXCEPT !.rail = "upi_autopay", !.is_emandate = TRUE, !.ist_hour = 13]

Variants(c) ==
  { Plain(c), Mandate(c),
    [Plain(c) EXCEPT !.max_posterior = 3999994],
    [Plain(c) EXCEPT !.max_posterior = 3999995],
    [Plain(c) EXCEPT !.max_posterior = 3960000],
    [Plain(c) EXCEPT !.network_category = 1],
    [Plain(c) EXCEPT !.merchant_advice_code = "03"],
    [Plain(c) EXCEPT !.merchant_advice_code = "21"],
    [Plain(c) EXCEPT !.npci_retry_remark = "do_not_reinitiate"],
    [Plain(c) EXCEPT !.attempts_30d = 15],
    [Plain(c) EXCEPT !.attempts_this_payment = 3],
    [Plain(c) EXCEPT !.bin_attempts_1h = 10],
    [Plain(c) EXCEPT !.customer_nudges_7d = 2],
    [Plain(c) EXCEPT !.has_alternate_instrument = FALSE],
    [Plain(c) EXCEPT !.has_alternate_instrument = FALSE, !.customer_nudges_7d = 2],
    [Mandate(c) EXCEPT !.amount_paise = 1500001],
    [Mandate(c) EXCEPT !.amount_paise = 1500001, !.afa_completed = TRUE],
    [Mandate(c) EXCEPT !.ms_since_pre_debit_notice = 86399999],
    [Mandate(c) EXCEPT !.ist_hour = 9],
    [Mandate(c) EXCEPT !.ist_hour = 10] }

\* The rules ask for a cause's class alone: every variant of two soft causes, one
\* retryable and one not, and some of the others.
Declines ==
  Variants("ISSUER_RISK_BLOCK") \union Variants("INSTRUMENT_DISABLED")
    \union {Plain(c) : c \in CAUSES} \union {Mandate(c) : c \in HardCauses}
FewDeclines == {Plain(c) : c \in {"INSUFFICIENT_FUNDS", "INSTRUMENT_DISABLED", "MANDATE_TERMINATED"}}
                 \union {[Mandate("AUTH_FAILURE") EXCEPT !.ist_hour = 10]}
=============================================================================
