------------------------------ MODULE Ablation ------------------------------
(***************************************************************************)
(* attribution/ablation.py: one batch is run under two attributions, as    *)
(* one experiment, each run into a ledger file of its own, and the two     *)
(* ledgers are compared payment by payment.  Two runs of BatchRun that     *)
(* differ in their posteriors alone are such a pair: a run's file is the   *)
(* rows it wrote, for the command gives each a file in a directory that is *)
(* new.                                                                    *)
(***************************************************************************)
EXTENDS BatchRun

file(r) == {k \in 1..Len(ledger) : ledger[k].run = r}

finished(r) == results[r] # NoResult

\* The outcomes in the order of their seq, as the query returns them.
column(r, experiment) ==
  LET rows == load_experiment(file(r), experiment)
  IN  [n \in 1..Cardinality(rows) |->
         Observations(file(r), experiment)
           [CHOOSE k \in rows : Cardinality({j \in rows : j <= k}) = n]]

tau(r, experiment) == estimate_ate(column(r, experiment))

\* The runs are paired when the same customers, in the same arms, come in the
\* same order.
Paired(h, m) ==
  /\ DOMAIN h = DOMAIN m
  /\ \A n \in DOMAIN h : h[n].cluster = m[n].cluster /\ h[n].treated = m[n].treated

Differences(h, m) == [n \in DOMAIN h |-> [h[n] EXCEPT !.y = m[n].y - @]]

\* A plausible slip: the difference the wrong way round.
paired_delta_reversed(r, s, experiment) ==
  LET h == column(r, experiment)
      m == column(s, experiment)
  IN  IF Paired(h, m) THEN estimate_ate(Differences(m, h)) ELSE <<0, 0>>

\* The effect estimated on the payments' differences; it raises, <<0, 0>>, for
\* runs that are not paired.
paired_delta(r, s, experiment) ==
  LET h == column(r, experiment)
      m == column(s, experiment)
  IN  IF Paired(h, m) THEN estimate_ate(Differences(h, m)) ELSE <<0, 0>>

\* run_ablation() gives both runs one share of holdouts.
SameShare(r, s) ==
  \A j \in file(r), k \in file(s) : ledger[j].holdout_pct = ledger[k].holdout_pct

\* "Only the attribution differs": any two runs of an experiment that ended can
\* be compared, the holdout contributes nothing to their difference, and the
\* difference of their effects is the effect on the differences, covariate and
\* all.  So runs that acted on the same payments differ by nothing, whatever
\* OPA's outages and the counters did to each on the way.
AblationIsPaired ==
  pc = "ended" => \A r, s \in 1..run, e \in Experiments :
    LET h == column(r, e)
        m == column(s, e)
        delta == paired_delta(r, s, e)
        ActedOn(t) == {ledger[k].payment_id : k \in {k \in file(t) : ledger[k].entry_type = "ACTUATION"}}
    IN  r # s /\ finished(r) /\ finished(s) /\ SameShare(r, s) /\ h # <<>> /\ m # <<>> =>
          /\ Paired(h, m)
          /\ \A n \in DOMAIN h : h[n].treated \/ h[n].y = m[n].y
          /\ delta[2] = tau(r, e)[2] /\ delta[1] = tau(s, e)[1] - tau(r, e)[1]
          /\ ActedOn(r) = ActedOn(s) => delta[1] = 0
=============================================================================
