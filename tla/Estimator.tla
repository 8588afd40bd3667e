------------------------------ MODULE Estimator ------------------------------
(***************************************************************************)
(* The arms and the point estimate: measure/assign.py, and estimate_ate()  *)
(* of measure/harness.py.  Numbers are whole, a quotient is the pair of    *)
(* its numerator and denominator, and observations are a function to       *)
(* records: the outcome y, treated, the cluster and the covariate x.  The  *)
(* bootstrap, which draws at random, and its interval are left out.        *)
(***************************************************************************)
EXTENDS Integers, FiniteSetsExt, Functions

CONSTANT bucket   \* the hash: of an experiment and a customer, below BUCKETS

BUCKETS == 10000

ASSUME BucketAssumption ==
  \A e \in DOMAIN bucket : \A c \in DOMAIN bucket[e] : bucket[e][c] \in 0..(BUCKETS - 1)

assign_arm(experiment, customer, holdout_pct) ==
  IF bucket[experiment][customer] < holdout_pct * 100 THEN "holdout" ELSE "treatment"

Arm(obs, treated) == {k \in DOMAIN obs : obs[k].treated = treated}

\* The sum and the number of an arm's values v ("y" or "x"): _arm_totals(),
\* whose clusters matter to the bootstrap only.
_arm_totals(obs, treated, v) ==
  <<SumFunction([k \in Arm(obs, treated) |-> obs[k][v]]), Cardinality(Arm(obs, treated))>>

\* n squared times the covariance of the values v and w, in which a variance is
\* the covariance of a thing with itself.
Cov(obs, v, w) ==
  LET Total(u) == SumFunction([k \in DOMAIN obs |-> obs[k][u]])
      Products == SumFunction([k \in DOMAIN obs |-> obs[k][v] * obs[k][w]])
  IN  Cardinality(DOMAIN obs) * Products - Total(v) * Total(w)

Estimable(obs) == Arm(obs, TRUE) # {} /\ Arm(obs, FALSE) # {}

\* The difference of the arms' means, of the outcome less theta times the
\* covariate's distance from its mean: theta is Cov(y, x) over Var(x), or zero
\* when the covariate does not vary.
estimate_ate(obs) ==
  LET Difference(v) ==   \* of the means, times both sizes
        LET t == _arm_totals(obs, TRUE, v)
            h == _arm_totals(obs, FALSE, v)
        IN  t[1] * h[2] - h[1] * t[2]
      sizes == Cardinality(Arm(obs, TRUE)) * Cardinality(Arm(obs, FALSE))
      var == Cov(obs, "x", "x")
  IN  IF var = 0 THEN <<Difference("y"), sizes>>
      ELSE <<var * Difference("y") - Cov(obs, "y", "x") * Difference("x"), var * sizes>>
=============================================================================
