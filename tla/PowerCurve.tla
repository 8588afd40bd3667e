----------------------------- MODULE PowerCurve -----------------------------
(***************************************************************************)
(* measure/power.py: which batch size the measured curve recommends.  A    *)
(* point is a number k and the effect its batch of 1000 * k^2 declines can *)
(* detect, in paise, so that the root of a size is whole but for a common  *)
(* factor.  The standard errors behind the points come from random worlds  *)
(* and are inputs.  Nothing here is about a state of the batch runner but  *)
(* that the size is chosen before the first run.                           *)
(***************************************************************************)
EXTENDS BatchRun, TableRows, SequencesExt

CONSTANTS Grid,      \* the sizes measured, each as its number k
          Effects    \* detectable effects a run may measure, and ask for

ASSUME PowerAssumption ==
  /\ Grid \subseteq Nat \ {0} /\ IsFiniteSet(Grid)
  /\ Effects \subseteq Nat

size(point) == 1000 * point.k * point.k

CeilDiv(a, b) == (a + b - 1) \div b

\* The r-th smallest of the values, equal ones counted.
Smallest(values, r) ==
  CHOOSE v \in Range(values) :
    /\ Cardinality({n \in 1..Len(values) : values[n] < v}) < r
    /\ Cardinality({n \in 1..Len(values) : values[n] <= v}) >= r

\* Twice the median, which for an even number is the mean of the middle two.
TwiceMedian(values) ==
  Smallest(values, (Len(values) + 1) \div 2) + Smallest(values, Len(values) \div 2 + 1)

\* z times k in SE(n) = k / sqrt(n), twice: the median over the points of the
\* detectable effect times the root of the size.
TwiceScale(points) == TwiceMedian([n \in 1..Len(points) |-> points[n].mde * points[n].k])

required_n_fitted(points, effect) ==
  IF effect = 0 \/ points = <<>> \/ TwiceScale(points) = 0 THEN 0
  ELSE 1000 * CeilDiv(TwiceScale(points) * TwiceScale(points), 4 * effect * effect)

\* By size, those of one size as they were measured: the sort is stable.
ordered(points) ==
  LET Key(n) == points[n].k * Len(points) + n
      keys == {Key(n) : n \in 1..Len(points)}
  IN  [j \in 1..Len(points) |-> points[CHOOSE n \in 1..Len(points) : Key(n) = Nth(keys, j)]]

\* A plausible slip: the first crossing.
required_n_first_crossing(points, effect) ==
  LET curve == ordered(points)
      detecting == {n \in 1..Len(curve) : curve[n].mde <= effect}
  IN  IF effect = 0 \/ detecting = {} THEN 0
      ELSE size(curve[CHOOSE n \in detecting : \A l \in detecting : n <= l])

\* The smallest size from which on every point detects.
required_n_measured(points, effect) ==
  LET curve == ordered(points)
      detecting == {n \in 1..Len(curve) : \A l \in n..Len(curve) : curve[l].mde <= effect}
  IN  IF effect = 0 \/ detecting = {} THEN 0
      ELSE size(curve[CHOOSE n \in detecting : \A l \in detecting : n <= l])

required_n(points, effect) ==
  LET measured == required_n_measured(points, effect)
      fitted == required_n_fitted(points, effect)
  IN  IF measured >= fitted THEN measured ELSE fitted

\* Whether `praman power` recommends a size, and exits with success.
recommends(points, effect) == required_n(points, effect) # 0

\* Every curve over the grid, of all of it or of a part, in any order; a size that
\* --grid repeats is measured again.
Curves == SeqOf([k : Grid, mde : Effects], Cardinality(Grid))

\* When the measured rule names a size, no batch that was measured to miss the
\* effect is as large as the one recommended, nor is the fit's size larger - but
\* for one that was measured again, at the same size, and then detected.
MissesAreBehindOn(points, effect) ==
  /\ required_n_measured(points, effect) # 0 =>
       /\ recommends(points, effect)
       /\ \A n \in 1..Len(points) : points[n].mde > effect =>
            \/ size(points[n]) < required_n(points, effect)
            \/ \E l \in n..Len(points) : points[l].k = points[n].k /\ points[l].mde <= effect
  /\ effect = 0 => ~recommends(points, effect)

\* power.py: "a single lucky point cannot select the batch size", and nor can an
\* optimistic fit: whatever curve was measured when a size is first chosen.
MissesAreBehind ==
  run = 0 => \A points \in Curves, effect \in Effects : MissesAreBehindOn(points, effect)
=============================================================================
