----------------------------- MODULE MCExplain -----------------------------
(* The rows the ladder writes for five declines, under the committed policy: *)
(* three that share an archetype, but not the rules that denied every tier;  *)
(* one of a fraud; and one that differs from the three in its tier alone.    *)
EXTENDS Explain

CommittedConfig ==
  [visa_cap |-> 15, payment_cap |-> 3, bin_hourly_cap |-> 10, nudge_cap_7d |-> 2,
   afa_threshold_paise |-> 1500000, pre_debit_notice_ms |-> 86400000,
   npci_blackout_start_hour |-> 10, npci_blackout_end_hour |-> 13,
   confidence_floor |-> 400000]

Plain ==
  [cause |-> "INSUFFICIENT_FUNDS", max_posterior |-> 9000000, rail |-> "card",
   amount_paise |-> 100000, network_category |-> 0, merchant_advice_code |-> "none",
   npci_retry_remark |-> "none", attempts_30d |-> 0, attempts_this_payment |-> 0,
   bin_attempts_1h |-> 0, customer_nudges_7d |-> 0, is_emandate |-> FALSE,
   afa_completed |-> FALSE, ms_since_pre_debit_notice |-> 86400000, ist_hour |-> 12,
   has_alternate_instrument |-> TRUE]

\* The DECISION row of a decline, with every query answered.
Row(c) ==
  LET reasons == [t \in Range(QUERIED_TIERS) |-> deny_reason(TRUE, build_policy_input(c, t))]
      tier == SelectTier(c.cause, {t \in DOMAIN reasons : reasons[t] = {}})
  IN  [cause |-> c.cause, posterior |-> prob_str(c.max_posterior), tier |-> tier,
       rail |-> c.rail, tier_evaluations |-> reasons,
       deny_reasons |-> reasons[RecordedTier(tier)]]

\* Three share an archetype, of which `explain --limit 2' leaves one out; the
\* fourth's is in the file; the fifth is past all_summaries' limit.
Declines ==
  LET AfaRequired == [Plain EXCEPT !.is_emandate = TRUE, !.amount_paise = 1500001]
  IN  << AfaRequired, [Plain EXCEPT !.attempts_30d = 15], AfaRequired,
         [Plain EXCEPT !.cause = "LOST_STOLEN_FRAUD"], Plain >>

Rows == [n \in 1..Len(Declines) |-> Row(Declines[n])]

Kinds == [dashboard |-> "page", explain |-> "explain", prewarm |-> "prewarm"]
ThreeProcs == DOMAIN Kinds
Commands == {"explain", "prewarm"}

\* Written by an earlier command, for a ledger there no longer is: it says in
\* words what is not so.
Found ==
  [k \in {archetype_key(summary_at(4))} |-> {<<"action", "silent_retry", "words">>}]
NothingFound == <<>>

Actions == {<<"action", "words">>, <<"tier", "token">>}
Reasons == {<<"blocked", "words">>}

\* _validate() lets the last pass: "reported stolen".
Slips ==
  {<<"cause", "AUTH_FAILURE", "token">>, <<"figure", 1, "token">>,
   <<"cause", "LOST_STOLEN_FRAUD", "words">>}
=============================================================================
