------------------------------ MODULE BatchRun ------------------------------
(***************************************************************************)
(* slice_runner.py: run_batch() over one ledger, run after run.  For each  *)
(* decline the ladder is evaluated and a DECISION row appended, then, for  *)
(* the treatment arm and a permitted action, an ACTUATION row, then an     *)
(* OUTCOME row.  The compliance counters live in the run's memory.  A run  *)
(* belongs to an experiment, and in the end estimates its effect from the  *)
(* rows all of the experiment's runs have left in the ledger.              *)
(*                                                                         *)
(* Times are whole hours, of Indian Standard Time.  An append is one step  *)
(* (see LedgerChain); a run can die or raise between any two of them.      *)
(***************************************************************************)
EXTENDS LadderRules, WindowedCounters, Estimator

CONSTANTS Batch,     \* the declines, in time order: sequence of SyntheticDecline
          Plans,     \* the arguments of run_batch() that differ from run to run
          MaxRuns    \* bound on the runs made over the ledger

\* A simulated decline, with its two sealed outcomes.  A signal that is None is
\* 0 or "none".
SyntheticDecline ==
  [payment_id : STRING, customer_id : STRING, ts : Nat, rail : STRING, amount_paise : Nat,
   bin : STRING, network_category : Nat, merchant_advice_code : STRING,
   npci_retry_remark : STRING, is_emandate : BOOLEAN, afa_completed : BOOLEAN,
   ms_since_pre_debit_notice : Int, ist_hour : Nat, has_alternate_instrument : BOOLEAN,
   cuped_covariate : Nat, y0_recovered : BOOLEAN, y1_recovered : BOOLEAN]

ASSUME BatchAssumption ==
  /\ Batch \in Seq(SyntheticDecline) /\ Batch # <<>>
  /\ \A m, n \in 1..Len(Batch) : m <= n => Batch[m].ts <= Batch[n].ts
  /\ Plans # {}
  /\ Plans \subseteq [experiment_id : STRING, holdout_pct : 0..100,
                      posteriors : [1..Len(Batch) -> [cause : CAUSES, max_posterior : Nat]]]
  /\ MaxRuns \in Nat

\* The simulator numbers the payments.
ASSUME PaymentsAssumption ==
  \A m, n \in 1..Len(Batch) : Batch[m].payment_id = Batch[n].payment_id => m = n

Experiments == {p.experiment_id : p \in Plans}

VARIABLES ledger,   \* the rows of the table, in order
          run,      \* how many runs have been started
          plan,     \* the arguments of the last one
          i,        \* the loop's position in the batch
          pc,       \* the next append of the loop's body
          ladder,   \* the locals of the iteration: what the ladder said ...
          seq,      \* ... and decision_seq
          events,   \* counters._events
          actioned, \* for each payment, whether the run acted on it
          tally,    \* what the run's RunResult counts of its actuations
          results   \* what each run returned, or NoResult

vars == <<ledger, run, plan, i, pc, ladder, seq, events, actioned, tally, results>>

-----------------------------------------------------------------------------
RETRY_DELAY == 6
OUTCOME_DELAY == 24
WINDOW_1H == 1
WINDOW_7D == 7 * 24
WINDOW_30D == 30 * 24

d == Batch[i]

\* The attribution: the likeliest cause, and how likely it is.
attributed == plan.posteriors[i]

arm == assign_arm(plan.experiment_id, d.customer_id, plan.holdout_pct)

CounterKeys(x) == {<<"cust", x.customer_id>>, <<"pay", x.payment_id>>,
                   <<"bin", x.bin>>, <<"nudge", x.customer_id>>}

NoEvents == [k \in UNION {CounterKeys(x) : x \in Range(Batch)} |-> <<>>]

\* The DeclineContext of a decline when the counters are ev.
Context(x, posterior, ev) ==
  [f \in (DOMAIN x \ {"payment_id", "customer_id", "bin", "ts", "cuped_covariate",
                      "y0_recovered", "y1_recovered"}) \union
         {"cause", "max_posterior", "attempts_30d", "attempts_this_payment", "bin_attempts_1h", "customer_nudges_7d"} |->
     CASE f \in {"cause", "max_posterior"} -> posterior[f]
       [] f = "attempts_30d" -> count(ev, <<"cust", x.customer_id>>, x.ts, WINDOW_30D)
       [] f = "attempts_this_payment" -> total(ev, <<"pay", x.payment_id>>)
       [] f = "bin_attempts_1h" -> count(ev, <<"bin", x.bin>>, x.ts, WINDOW_1H)
       [] f = "customer_nudges_7d" -> count(ev, <<"nudge", x.customer_id>>, x.ts, WINDOW_7D)
       [] OTHER -> x[f]]

\* The tiers a reachable OPA allows.
AllowedBy(c) == {t \in Range(QUERIED_TIERS) : allow(TRUE, build_policy_input(c, t))}

NoLadder == [tier |-> "none", verdict |-> FALSE]

NothingActioned == [p \in {x.payment_id : x \in Range(Batch)} |-> FALSE]

NoTally == [n_actuated |-> 0, policy_violations |-> 0]

NoResult == [truth |-> <<0, 0>>, tau_hat |-> <<0, 0>>, naive_gross |-> <<0, 0>>, tally |-> NoTally]

\* Where load_experiment() finds an experiment's outcomes among the rows S: those
\* that lead to a DECISION row.
load_experiment_of_all(S, experiment) ==
  {k \in S : /\ ledger[k].entry_type = "OUTCOME"
             /\ ledger[ledger[k].decision_seq].entry_type = "DECISION"}

load_experiment(S, experiment) ==
  {k \in S : /\ ledger[k].entry_type = "OUTCOME"
             /\ ledger[k].experiment_id = experiment
             /\ ledger[ledger[k].decision_seq].entry_type = "DECISION"}

\* What it makes of them: the amount, the arm, the customer, the covariate.
Observations(S, experiment) ==
  [k \in load_experiment(S, experiment) |->
     [y |-> ledger[k].recovered_amount_paise, treated |-> ledger[k].arm = "treatment",
      cluster |-> ledger[k].customer_id,
      x |-> ledger[ledger[k].decision_seq].cuped_covariate]]

\* What the industry reports: the mean of the treated, a sum and a number.
naive_gross(obs) == _arm_totals(obs, TRUE, "y")

\* sealed_truth(): the mean over the batch of what was gained by acting.
sealed_truth(acted) ==
  LET Gain(x) == x.amount_paise * ((IF x.y1_recovered THEN 1 ELSE 0)
                                     - (IF x.y0_recovered THEN 1 ELSE 0))
  IN  <<SumFunction([n \in 1..Len(Batch) |->
                       IF acted[Batch[n].payment_id] THEN Gain(Batch[n]) ELSE 0]),
        Len(Batch)>>

-----------------------------------------------------------------------------
Init ==
  /\ ledger = <<>>
  /\ run = 0
  /\ plan = CHOOSE p \in Plans : TRUE
  /\ i = 1
  /\ pc = "ended"
  /\ ladder = NoLadder
  /\ seq = 0
  /\ events = NoEvents
  /\ actioned = NothingActioned
  /\ tally = NoTally
  /\ results = <<>>

\* run_batch() is called: a new process, or the next call, with new counters.
StartRun ==
  /\ pc = "ended"
  /\ run < MaxRuns
  /\ run' = run + 1
  /\ plan' \in Plans
  /\ i' = 1
  /\ pc' = "decide"
  /\ events' = NoEvents
  /\ actioned' = NothingActioned
  /\ tally' = NoTally
  /\ results' = Append(results, NoResult)
  /\ UNCHANGED <<ledger, ladder, seq>>

\* Evaluate, assign an arm and append the DECISION row.  With OPA gone nothing
\* is allowed.
Decide ==
  /\ pc = "decide"
  /\ \E allowed \in {AllowedBy(Context(d, attributed, events)), {}} :
       LET tier == SelectTier(attributed.cause, allowed)
       IN  /\ ladder' = [tier |-> tier, verdict |-> RecordedTier(tier) \in allowed]
           /\ ledger' = Append(ledger,
                [entry_type |-> "DECISION", ts |-> d.ts, run |-> run,
                 experiment_id |-> plan.experiment_id, holdout_pct |-> plan.holdout_pct,
                 payment_id |-> d.payment_id, customer_id |-> d.customer_id,
                 arm |-> arm, tier |-> tier,
                 opa_allow |-> RecordedTier(tier) \in allowed,
                 cuped_covariate |-> d.cuped_covariate,
                 attempt_no |-> total(events, <<"pay", d.payment_id>>) + 1])
  /\ seq' = Len(ledger')
  /\ pc' = "act"
  /\ UNCHANGED <<run, plan, i, events, actioned, tally, results>>

take_action_in_any_arm == ladder.tier \in ACTIONABLE_TIERS

take_action == ladder.tier \in ACTIONABLE_TIERS /\ arm = "treatment"

Fired(x) == x.ts + RETRY_DELAY

\* counters.record() for every key the actuation counts against.
Recorded(ev) ==
  LET cust == record(ev, <<"cust", d.customer_id>>, Fired(d))
      pay == record(cust, <<"pay", d.payment_id>>, Fired(d))
      bin == record(pay, <<"bin", d.bin>>, Fired(d))
  IN  IF ladder.tier = "T3" THEN record(bin, <<"nudge", d.customer_id>>, Fired(d)) ELSE bin

ActuationRow ==
  [entry_type |-> "ACTUATION", ts |-> Fired(d), run |-> run,
   experiment_id |-> plan.experiment_id, holdout_pct |-> plan.holdout_pct,
   payment_id |-> d.payment_id, customer_id |-> d.customer_id,
   arm |-> arm, tier |-> ladder.tier, executed |-> TRUE,
   decision_seq |-> seq, rail |-> d.rail, bin |-> d.bin]

\* The run counts what it does, and looks again at the verdict it acts on.
Tallied ==
  [n_actuated |-> tally.n_actuated + 1,
   policy_violations |-> tally.policy_violations + (IF ladder.verdict THEN 0 ELSE 1)]

\* A plausible slip: every decision counts as an attempt.
ActCountingDecisions ==
  /\ pc = "act"
  /\ ledger' = IF take_action THEN Append(ledger, ActuationRow) ELSE ledger
  /\ events' = Recorded(events)
  /\ tally' = IF take_action THEN Tallied ELSE tally
  /\ actioned' = [actioned EXCEPT ![d.payment_id] = take_action]
  /\ pc' = "outcome"
  /\ UNCHANGED <<run, plan, i, ladder, seq, results>>

\* The ACTUATION row, and only then the counters.
Act ==
  /\ pc = "act"
  /\ \/ /\ take_action
        /\ ledger' = Append(ledger, ActuationRow)
        /\ events' = Recorded(events)
        /\ tally' = Tallied
     \/ /\ ~take_action
        /\ UNCHANGED <<ledger, events, tally>>
  /\ actioned' = [actioned EXCEPT ![d.payment_id] = take_action]
  /\ pc' = "outcome"
  /\ UNCHANGED <<run, plan, i, ladder, seq, results>>

\* A plausible slip: the holdout is given what we would have done.
recovered_by_intent == IF take_action_in_any_arm THEN d.y1_recovered ELSE d.y0_recovered

\* The sealed answer of the simulator: recovered with our action, or without.
recovered == IF take_action THEN d.y1_recovered ELSE d.y0_recovered

OutcomeRow(source) ==
  [entry_type |-> "OUTCOME", ts |-> d.ts + OUTCOME_DELAY, run |-> run,
   experiment_id |-> plan.experiment_id, holdout_pct |-> plan.holdout_pct,
   payment_id |-> d.payment_id, customer_id |-> d.customer_id,
   arm |-> arm, decision_seq |-> seq,
   recovered |-> recovered, outcome_source |-> source,
   recovered_amount_paise |-> IF recovered THEN d.amount_paise ELSE 0]

\* The iteration is over.
Forget ==
  /\ ladder' = NoLadder
  /\ seq' = 0
  /\ UNCHANGED <<run, plan, events, actioned, tally, results>>

\* A plausible slip: recovery is credited to what the ladder wanted to do.
OutcomeCreditingIntent ==
  /\ pc = "outcome"
  /\ ledger' = Append(ledger, OutcomeRow(IF ~recovered THEN "none"
                                         ELSE IF take_action_in_any_arm THEN "actuated"
                                         ELSE "natural"))
  /\ i' = IF i = Len(Batch) THEN 1 ELSE i + 1
  /\ pc' = IF i = Len(Batch) THEN "estimate" ELSE "decide"
  /\ Forget

\* A plausible slip: the loop runs one past the end.
OutcomePastTheEnd ==
  /\ pc = "outcome"
  /\ ledger' = Append(ledger, OutcomeRow("none"))
  /\ i' = i + 1
  /\ pc' = "decide"
  /\ Forget

\* The OUTCOME row, and the next decline.
Outcome ==
  /\ pc = "outcome"
  /\ ledger' = Append(ledger, OutcomeRow(IF ~recovered THEN "none"
                                         ELSE IF take_action THEN "actuated"
                                         ELSE "natural"))
  /\ i' = IF i = Len(Batch) THEN 1 ELSE i + 1
  /\ pc' = IF i = Len(Batch) THEN "estimate" ELSE "decide"
  /\ Forget

\* After the loop the run is scored: by the simulator's truth, and from the
\* ledger, which raises unless both arms have outcomes.
Estimate ==
  /\ pc = "estimate"
  /\ LET obs == Observations(1..Len(ledger), plan.experiment_id)
     IN  /\ Estimable(obs)
         /\ results' = [results EXCEPT ![run] = [truth |-> sealed_truth(actioned),
                                                tau_hat |-> estimate_ate(obs),
                                                naive_gross |-> naive_gross(obs),
                                                tally |-> tally]]
  /\ pc' = "ended"
  /\ UNCHANGED <<ledger, run, plan, i, ladder, seq, events, actioned, tally>>

\* An append or the estimate raised, or the process died.
Die ==
  /\ pc # "ended"
  /\ i' = 1
  /\ pc' = "ended"
  /\ Forget
  /\ UNCHANGED ledger

Next ==
  \/ StartRun
  \/ Decide
  \/ Act
  \/ Outcome
  \/ Estimate
  \/ Die

Spec == Init /\ [][Next]_vars

-----------------------------------------------------------------------------
\* What is read back from the ledger.
Seqs(type) == {k \in 1..Len(ledger) : ledger[k].entry_type = type}

executed == {k \in Seqs("ACTUATION") : ledger[k].executed}

\* Laws #3 and #4, as `praman verify` and the overview page count: what was done
\* though no DECISION row that it names allowed it.
overview ==
  [tiers |-> [t \in {"T0", "T1", "T2", "T3", "T4"} |-> {k \in Seqs("DECISION") : ledger[k].tier = t}],
   violations |-> {k \in executed : ~\E s \in Seqs("DECISION") : s = ledger[k].decision_seq
                                                              /\ ledger[s].opa_allow},
   actuations |-> executed]

\* `praman run-batch` is a gate: a run that returned, and counted no violation.
run_batch_passes(result) == result # NoResult /\ result.tally.policy_violations = 0

Unavailable == [tau |-> <<0, 0>>, naive |-> <<0, 0>>]

\* The page estimates the effect of every experiment in the ledger, or says
\* that an arm of it has no outcomes.
_experiments ==
  [name \in {ledger[k].experiment_id : k \in Seqs("DECISION")} |->
     LET obs == Observations(1..Len(ledger), name)
     IN  IF Estimable(obs) THEN [tau |-> estimate_ate(obs), naive |-> naive_gross(obs)]
         ELSE Unavailable]

-----------------------------------------------------------------------------

\* Type invariant.
TypeOK ==
  /\ \A k \in 1..Len(ledger) : ledger[k].run \in 1..run
  /\ plan \in Plans
  /\ Len(results) = run
  /\ run \in 0..MaxRuns
  /\ i \in 1..Len(Batch)
  /\ pc \in {"decide", "act", "outcome", "estimate", "ended"}
  /\ ladder.tier \in {"none", "T0", "T1", "T2", "T3", "T4"}
  /\ seq \in 0..Len(ledger)
  /\ \A k \in DOMAIN events : \A n \in 1..Len(events[k]) : events[k][n] \in Nat

\* Laws #3 and #4, as the overview page counts violations and further: each
\* executed ACTUATION follows the DECISION it names, which is about the same
\* payment in the same run, was allowed by the policy at the same tier, belongs
\* to the treatment arm, and was acted on this once.  No crash or re-run
\* detaches the two, and the gate of a run that returned opens.
EveryActuationIsAuthorised ==
  /\ \A k \in Seqs("ACTUATION") :
       LET a == ledger[k]
           s == a.decision_seq
       IN  /\ s \in Seqs("DECISION") /\ s < k
           /\ ledger[s].payment_id = a.payment_id
           /\ ledger[s].run = a.run
           /\ ledger[s].tier = a.tier /\ ledger[s].opa_allow
           /\ ledger[s].arm = "treatment"
           /\ \A j \in Seqs("ACTUATION") : ledger[j].decision_seq = s => j = k
  /\ overview.violations = {}
  /\ Cardinality(overview.actuations) <=
       Cardinality(UNION {overview.tiers[t] : t \in ACTIONABLE_TIERS})
  /\ \A r \in 1..run : results[r] # NoResult => run_batch_passes(results[r])

\* What the estimate rests on: a decision has at most one outcome, and its
\* recovery is credited to us exactly when an actuation for that decision is
\* on record.
OutcomesAreAttributed ==
  \A k \in Seqs("OUTCOME") :
    LET o == ledger[k]
        acted == \E a \in Seqs("ACTUATION") : ledger[a].decision_seq = o.decision_seq /\ a < k
    IN  /\ ledger[o.decision_seq].payment_id = o.payment_id
        /\ \A j \in Seqs("OUTCOME") : ledger[j].decision_seq = o.decision_seq => j = k
        /\ o.outcome_source = "actuated" => acted
        /\ o.outcome_source = "natural" => ~acted

\* The counters after record() has been called for each time of s in turn.
After(s) ==
  LET counters[n \in 0..Len(s)] ==
        IF n = 0 THEN [key \in {"key"} |-> <<>>] ELSE record(counters[n - 1], "key", s[n])
  IN  counters[Len(s)]

\* "Declines arrive sorted today, but nothing in the contract promises that":
\* whatever order the attempts of a batch are recorded in, and however often
\* one, count() is the number of those at most `window` old, equal times and
\* the oldest instant included, and none from the future.  (It is about no
\* state: one is enough to look.)
CountIsExact ==
  run = 0 =>
  \A s \in SeqOf({x.ts + RETRY_DELAY : x \in Range(Batch)}, Len(Batch)),
     now \in {x.ts : x \in Range(Batch)}, window \in {WINDOW_1H, WINDOW_7D, WINDOW_30D} :
    count(After(s), "key", now, window) =
      Cardinality({n \in 1..Len(s) : s[n] \in (now - window)..now})

\* How the webhook worker counts, in SQL and not in memory: the executed
\* ACTUATION rows among S with these columns, fired at one of these times.
_actuations(S, columns, times) ==
  {k \in S : /\ ledger[k].entry_type = "ACTUATION" /\ ledger[k].executed
             /\ ledger[k].ts \in times
             /\ \A column \in DOMAIN columns : ledger[k][column] = columns[column]}

\* Law #7: what the policy is told is what the ledger says.  When a decline is
\* about to be judged, every counter of the batch, kept in memory, is what the
\* worker's query finds in the rows of this run - no decision, refusal or
\* holdout row counts - and so is the number of actuations it will report.
CountersAreActuations ==
  pc = "decide" =>
    LET c == Context(d, attributed, events)
        Found(columns, times) == Cardinality(_actuations(1..Len(ledger), columns, times))
    IN  /\ c.attempts_30d =
             Found([run |-> run, customer_id |-> d.customer_id], (d.ts - WINDOW_30D)..d.ts)
        /\ c.bin_attempts_1h = Found([run |-> run, bin |-> d.bin], (d.ts - WINDOW_1H)..d.ts)
        /\ c.customer_nudges_7d =
             Found([run |-> run, customer_id |-> d.customer_id, tier |-> "T3"],
                   (d.ts - WINDOW_7D)..d.ts)
        /\ c.attempts_this_payment = Found([run |-> run, payment_id |-> d.payment_id], Nat)
        /\ tally.n_actuated = Found([run |-> run], Nat)

\* No attempt is decided on while the attempts already fired in the hour
\* before reach the BIN's cap, the hour's oldest instant included.
CapBindsOnThePast ==
  \A k \in Seqs("ACTUATION") :
    LET decided == ledger[ledger[k].decision_seq].ts
    IN  Cardinality({j \in Seqs("ACTUATION") :
          /\ j < k /\ ledger[j].run = ledger[k].run /\ ledger[j].bin = ledger[k].bin
          /\ ledger[j].ts \in (decided - WINDOW_1H)..decided}) < config.bin_hourly_cap

\* However the runs of several experiments follow one another in the ledger,
\* dead ones and repeated ones included, an experiment's estimate reads the
\* outcomes of its own runs, all of them and each once, joined to the decision
\* it came from, and in the arm that decision's row can be audited for: the one
\* the hash gives the customer at the share the row states, though another
\* experiment's, or another share's, may be the opposite.  What the run printed
\* is what the page shows.
EstimateReadsItsExperiment ==
  pc = "ended" => \A e \in Experiments :
    LET rows == load_experiment(1..Len(ledger), e)
        obs == Observations(1..Len(ledger), e)
    IN  /\ \A k \in rows :
             /\ obs[k].treated =
                  (assign_arm(e, obs[k].cluster, ledger[ledger[k].decision_seq].holdout_pct)
                     = "treatment")
             /\ \E n \in 1..Len(Batch) : /\ Batch[n].payment_id = ledger[k].payment_id
                                         /\ Batch[n].customer_id = obs[k].cluster
                                         /\ Batch[n].cuped_covariate = obs[k].x
             /\ \A j \in rows : ledger[j].run = ledger[k].run
                               /\ ledger[j].payment_id = ledger[k].payment_id => j = k
        /\ run > 0 /\ results[run] # NoResult /\ plan.experiment_id = e =>
             /\ Len(Batch) = Cardinality({k \in rows : ledger[k].run = run})
             /\ e \in DOMAIN _experiments
             /\ _experiments[e] = [tau |-> results[run].tau_hat,
                                  naive |-> results[run].naive_gross]

\* What the simulator's sealed outcomes say of a run is what the rows it left in
\* the ledger add up to: its gain over doing nothing is that of the payments it
\* acted on, and the gross recovery of the treated is that gain with what would
\* have come to them anyway.  The two are kept apart, by the ledger and by
\* `actioned`.
LedgerAgreesWithSealedTruth ==
  pc = "ended" /\ run > 0 /\ results[run] # NoResult =>
    LET rows == {k \in load_experiment(1..Len(ledger), plan.experiment_id) : ledger[k].run = run}
        treated == {k \in rows : ledger[k].arm = "treatment"}
        Sum(S) == SumFunction([k \in S |-> ledger[k].recovered_amount_paise])
        Natural(P) == SumFunction([n \in 1..Len(Batch) |->
                                     IF Batch[n].y0_recovered /\ Batch[n].payment_id \in P
                                     THEN Batch[n].amount_paise ELSE 0])
    IN  /\ Sum(rows) - Natural({x.payment_id : x \in Range(Batch)}) = results[run].truth[1]
        /\ Sum(treated) - Natural({ledger[k].payment_id : k \in treated}) = results[run].truth[1]
        /\ (\A k \in load_experiment(1..Len(ledger), plan.experiment_id) : ledger[k].run = run) =>
             results[run].naive_gross = <<Sum(treated), Cardinality(treated)>>

-----------------------------------------------------------------------------
\* LIMITATIONS.md section 10: in the batch pipeline the BIN velocity counter
\* "is computed properly and the rule is enforced": no hour sees more attempts
\* on a BIN than the cap.
BinVelocityEnforced ==
  \A k \in Seqs("ACTUATION") :
    Cardinality(_actuations(Seqs("ACTUATION"), [run |-> ledger[k].run, bin |-> ledger[k].bin],
                            (ledger[k].ts - WINDOW_1H)..ledger[k].ts)) <= config.bin_hourly_cap
=============================================================================
