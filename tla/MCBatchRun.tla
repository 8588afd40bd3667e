----------------------------- MODULE MCBatchRun -----------------------------
(* Caps of one or two, and a handful of declines placed around the 6 h      *)
(* delay and the edges of the windows.                                      *)
EXTENDS Ablation, PowerCurve, TLC

TightConfig ==
  [visa_cap |-> 2, payment_cap |-> 1, bin_hourly_cap |-> 1, nudge_cap_7d |-> 1,
   afa_threshold_paise |-> 1500000, pre_debit_notice_ms |-> 86400000,
   npci_blackout_start_hour |-> 10, npci_blackout_end_hour |-> 13,
   confidence_floor |-> 400000]

\* Alice and carol change sides from one experiment to the other; bob, just
\* at the edge of a fifth and of a half, is treated in both.
Buckets ==
  ("powered" :> ("alice" :> 9999 @@ "bob" :> 2000 @@ "carol" :> 1999)) @@
  ("underpowered" :> ("alice" :> 0 @@ "bob" :> 5000 @@ "carol" :> 7000))

\* A decline whose payment recovers exactly when `always`, or if we act.
A(payment, customer, bin, ts, amount, always, covariate) ==
  [payment_id |-> payment, customer_id |-> customer, bin |-> bin, ts |-> ts,
   rail |-> "card", amount_paise |-> amount, cuped_covariate |-> covariate,
   network_category |-> 0, merchant_advice_code |-> "none", npci_retry_remark |-> "none",
   is_emandate |-> FALSE, afa_completed |-> FALSE, ms_since_pre_debit_notice |-> 90000000,
   ist_hour |-> ts % 24, has_alternate_instrument |-> TRUE,
   y0_recovered |-> always, y1_recovered |-> TRUE]

\* Alice's first attempt fires at 6; bob's decline comes exactly an hour later on
\* the same BIN, carol's another hour later, and alice's other one exactly seven
\* days after the attempt.  Carol is in the holdout, and pays by herself.
AroundTheEdges ==
  << A("pay1", "alice", "bin1", 0, 3, FALSE, 2),
     A("pay2", "bob", "bin1", 7, 1, TRUE, 0),
     A("pay3", "carol", "bin1", 8, 2, TRUE, 1),
     A("pay4", "alice", "bin2", 174, 2, FALSE, 2) >>

Sure(cause) == [cause |-> cause, max_posterior |-> 9000000]

Heuristic ==
  << Sure("AUTH_FAILURE"), Sure("TECHNICAL_DECLINE"), Sure("AUTH_FAILURE"),
     Sure("INSTRUMENT_DISABLED") >>

\* The model takes bob's for something else, and is less sure of carol's and of
\* alice's second.
Model ==
  [Heuristic EXCEPT ![2].cause = "LOST_STOLEN_FRAUD",
                    ![3].max_posterior = 3000000, ![4].max_posterior = 3000000]

Plan(experiment, share, posteriors) ==
  [experiment_id |-> experiment, holdout_pct |-> share, posteriors |-> posteriors]

\* The two attributions of one experiment, that experiment with a share that puts
\* bob on the other side, and another experiment.
FourPlans ==
  {Plan("powered", 20, Heuristic), Plan("powered", 20, Model), Plan("powered", 21, Heuristic),
   Plan("underpowered", 50, Heuristic)}

WithinTheDelay ==
  << A("pay1", "alice", "bin1", 0, 1, FALSE, 0),
     A("pay2", "bob", "bin1", 1, 1, FALSE, 0) >>

OnePlan ==
  {Plan("powered", 20, <<Sure("INSUFFICIENT_FUNDS"), Sure("INSUFFICIENT_FUNDS")>>)}
=============================================================================
