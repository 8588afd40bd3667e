--------------------------- MODULE MCLedgerTamper ---------------------------
(* Two operators and a growing ledger.                                      *)
EXTENDS LedgerTamper, TLC

CONSTANTS o1, o2

TwoOperators == {o1, o2}
Symmetry == Permutations(TwoOperators)
=============================================================================
