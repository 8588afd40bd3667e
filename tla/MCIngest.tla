------------------------------ MODULE MCIngest ------------------------------
(* Three events of one payment.  Two come without an event id header and   *)
(* share a made-up key, so that whichever is delivered first is stored; one *)
(* of the two cannot be read.                                               *)
EXTENDS Ingest, TLC

CONSTANTS e1, e2, bad, pay1, x1, email, contact

Ids == (e1 :> x1) @@ (e2 :> NoId) @@ (bad :> NoId)
Payments == (e1 :> pay1) @@ (e2 :> pay1) @@ (bad :> pay1)
Identifiers == (e1 :> <<email, contact>>) @@ (e2 :> <<contact>>) @@ (bad :> <<email, contact>>)
Arms == (email :> "treatment") @@ (contact :> "holdout")
=============================================================================
