----------------------------- MODULE Normalise -----------------------------
(***************************************************************************)
(* taxonomy/normalise.py for Razorpay's webhooks, and what the worker      *)
(* makes of an observation: a decline for the ladder to judge.             *)
(*                                                                         *)
(* A processor's reason is the entry it has in the normaliser's table:     *)
(* reasons with equal entries are one.                                     *)
(***************************************************************************)
EXTENDS Ladder, Taxonomy

Entry(card, upi, cause) == [card |-> card, upi |-> upi, cause |-> cause]

_RAZORPAY ==
  { Entry("51", "Z9", "INSUFFICIENT_FUNDS"), Entry("91", "U30", "TECHNICAL_DECLINE"),
    Entry("96", "U28", "TECHNICAL_DECLINE"), Entry("91", "U28", "TECHNICAL_DECLINE"),
    Entry("96", "U30", "TECHNICAL_DECLINE"), Entry("1A", "ZM", "AUTH_FAILURE"),
    Entry("82", "ZM", "AUTH_FAILURE"), Entry("17", "ZA", "AUTH_FAILURE"),
    Entry("17", "U69", "AUTH_FAILURE"), Entry("54", "U17", "EXPIRED_OR_INVALID_CREDENTIAL"),
    Entry("14", "U17", "EXPIRED_OR_INVALID_CREDENTIAL"),
    Entry("57", "U16", "INSTRUMENT_DISABLED"), Entry("62", "U16", "INSTRUMENT_DISABLED"),
    Entry("59", "U16", "ISSUER_RISK_BLOCK"), Entry("61", "Z8", "VELOCITY_LIMIT"),
    Entry("05", "U30", "none"), Entry(UNKNOWN_SYMBOL, UNKNOWN_SYMBOL, "none") }

\* The symbol of a reason on a rail, with what it carries and the hint.
normalise_razorpay(entry, rail) ==
  LET symbol == IF rail \in {"upi", "upi_autopay"} THEN entry.upi ELSE entry.card
      meta == symbol_meta(symbol)
  IN  [rail |-> rail, symbol |-> symbol, cause_hint |-> entry.cause,
       network_category |-> meta.network_category,
       merchant_advice_code |-> meta.merchant_advice_code,
       npci_retry_remark |-> meta.npci_retry_remark]

\* The DeclineContext the worker makes of a webhook, when the rest of it is as
\* in c and the cause is taken to be `cause`.
WebhookContext(c, obs, cause) ==
  LET best == attributed_cause(obs.rail, obs.symbol)
  IN  [c EXCEPT !.cause = cause, !.max_posterior = posterior(obs.rail, obs.symbol, best),
                !.rail = obs.rail, !.network_category = obs.network_category,
                !.merchant_advice_code = obs.merchant_advice_code,
                !.npci_retry_remark = obs.npci_retry_remark,
                !.is_emandate = @ \/ obs.rail = "upi_autopay"]

\* The tier selected by a policy, with or without T4's exemption.
TierOf(exempt, c) ==
  SelectTier(c.cause, {t \in Range(QUERIED_TIERS) : allow(exempt, build_policy_input(c, t))})

CodesAreEvidence(c) ==
  \A entry \in _RAZORPAY, rail \in Rails :
    LET obs == normalise_razorpay(entry, rail)
        best == attributed_cause(rail, obs.symbol)
    IN  /\ rail # "netbanking" /\ obs.symbol # UNKNOWN_SYMBOL =>
             /\ symbol_is_known(rail, obs.symbol)
             /\ obs.cause_hint # "none" => Weight(rail, obs.symbol, obs.cause_hint) > 0
        /\ obs.cause_hint # "none" => \A exempt \in BOOLEAN :
             TierOf(exempt, WebhookContext(c, obs, best))
               = TierOf(exempt, WebhookContext(c, obs, obs.cause_hint))

\* A code is judged on its evidence, on every rail that has any, AutoPay
\* included: the symbol of a reason the normaliser knows is known there, and
\* the cause the processor names is possible.  And though nothing reads the
\* hint, it is not missed: the taxonomy may find another cause likelier, but
\* the tier selected is the one the hinted cause would have got, whatever else
\* is so of the decline.  (Each decline is looked at once.)
WebhookCodesAreEvidence == pc = "idle" /\ row = NoRow /\ opa = Down => CodesAreEvidence(ctx)
=============================================================================
