--------------------------- MODULE MCLedgerChain ---------------------------
(* Two processes sharing one ledger file, one of them with two threads.    *)
EXTENDS LedgerChain, TLC

CONSTANTS w1, w2, w3, p1, p2

TwoProcesses == (w1 :> p1) @@ (w2 :> p1) @@ (w3 :> p2)
=============================================================================
