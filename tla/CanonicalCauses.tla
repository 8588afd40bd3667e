--------------------------- MODULE CanonicalCauses ---------------------------
(***************************************************************************)
(* The nine canonical decline causes of taxonomy/canonical_causes.yaml and *)
(* what cause_meta() says of each.                                         *)
(***************************************************************************)

HardCauses == {"LOST_STOLEN_FRAUD", "MANDATE_TERMINATED"}

NotRetryable == HardCauses \union {"EXPIRED_OR_INVALID_CREDENTIAL", "INSTRUMENT_DISABLED"}

CAUSES == NotRetryable \union
  {"INSUFFICIENT_FUNDS", "ISSUER_RISK_BLOCK", "VELOCITY_LIMIT", "AUTH_FAILURE",
   "TECHNICAL_DECLINE"}

cause_class(c) == IF c \in HardCauses THEN "hard" ELSE "soft"

retryable(c) == c \notin NotRetryable

default_tier(c) ==
  CASE c \in HardCauses -> "T0"
    [] c = "ISSUER_RISK_BLOCK" -> "T2"
    [] c \in {"AUTH_FAILURE", "EXPIRED_OR_INVALID_CREDENTIAL", "INSTRUMENT_DISABLED"} -> "T3"
    [] OTHER -> "T1"
=============================================================================
