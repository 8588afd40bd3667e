------------------------------ MODULE Taxonomy ------------------------------
(***************************************************************************)
(* The evidence of taxonomy/canonical_causes.yaml, in percent, and         *)
(* taxonomy's posterior.  The side signals are left out: no webhook        *)
(* carries one.                                                            *)
(***************************************************************************)
EXTENDS LadderRules

UNKNOWN_SYMBOL == "UNKNOWN"

priors ==
  [INSUFFICIENT_FUNDS |-> 26, ISSUER_RISK_BLOCK |-> 16, VELOCITY_LIMIT |-> 8,
   AUTH_FAILURE |-> 18, TECHNICAL_DECLINE |-> 16, EXPIRED_OR_INVALID_CREDENTIAL |-> 9,
   INSTRUMENT_DISABLED |-> 5, LOST_STOLEN_FRAUD |-> 1, MANDATE_TERMINATED |-> 1]

\* P(symbol | cause, rail), of the symbols a cause can emit.
emissions ==
  [card |->
    [INSUFFICIENT_FUNDS |-> {<<"05", 50>>, <<"51", 50>>},
     ISSUER_RISK_BLOCK |-> {<<"05", 30>>, <<"59", 35>>, <<"62", 15>>, <<"63", 12>>,
                            <<"07", 8>>},
     VELOCITY_LIMIT |-> {<<"05", 12>>, <<"65", 43>>, <<"61", 30>>, <<"51", 5>>, <<"12", 10>>},
     AUTH_FAILURE |-> {<<"05", 12>>, <<"55", 25>>, <<"82", 22>>, <<"1A", 22>>, <<"63", 9>>,
                       <<"17", 10>>},
     TECHNICAL_DECLINE |-> {<<"05", 8>>, <<"91", 40>>, <<"96", 25>>, <<"06", 15>>,
                            <<"92", 12>>},
     EXPIRED_OR_INVALID_CREDENTIAL |-> {<<"05", 5>>, <<"54", 55>>, <<"14", 30>>, <<"15", 10>>},
     INSTRUMENT_DISABLED |-> {<<"05", 8>>, <<"57", 40>>, <<"58", 20>>, <<"62", 20>>,
                              <<"39", 10>>, <<"51", 2>>},
     LOST_STOLEN_FRAUD |-> {<<"05", 5>>, <<"41", 35>>, <<"43", 30>>, <<"04", 15>>,
                            <<"07", 15>>},
     MANDATE_TERMINATED |-> {<<"05", 10>>, <<"21", 45>>, <<"02", 25>>, <<"03", 20>>}],
   upi |->
    [INSUFFICIENT_FUNDS |-> {<<"Z9", 92>>, <<"U30", 8>>},
     ISSUER_RISK_BLOCK |-> {<<"U16", 55>>, <<"Z7", 25>>, <<"U30", 20>>},
     VELOCITY_LIMIT |-> {<<"Z8", 50>>, <<"Z7", 42>>, <<"U30", 8>>},
     AUTH_FAILURE |-> {<<"ZM", 40>>, <<"U69", 35>>, <<"ZA", 25>>},
     TECHNICAL_DECLINE |-> {<<"U28", 40>>, <<"U30", 35>>, <<"U17", 25>>},
     EXPIRED_OR_INVALID_CREDENTIAL |-> {<<"U17", 60>>, <<"U30", 40>>},
     INSTRUMENT_DISABLED |-> {<<"U16", 35>>, <<"U30", 42>>, <<"Z7", 20>>, <<"Z9", 3>>},
     LOST_STOLEN_FRAUD |-> {<<"U16", 70>>, <<"Z7", 30>>},
     MANDATE_TERMINATED |-> {<<"ZA", 60>>, <<"U30", 40>>}]]

\* The policy's signals that a symbol carries, beside the evidence.
symbol_meta(symbol) ==
  [network_category |->
     CASE symbol \in {"05", "51", "61", "65", "91", "96", "06", "92"} -> 2
       [] symbol \in {"12", "14", "15", "54", "55", "82", "1A", "17"} -> 3
       [] symbol \in {"04", "07", "39", "41", "43", "57", "58", "59", "62", "63",
                      "21", "02", "03"} -> 1
       [] OTHER -> 0,
   merchant_advice_code |-> IF symbol \in {"21", "03"} THEN symbol ELSE "none",
   npci_retry_remark |->
     CASE symbol \in {"Z9", "Z8", "Z7", "ZM", "U69"} -> "reinitiate_new_crn"
       [] symbol \in {"U28", "U30"} -> "reinitiate_same_crn"
       [] symbol = "U54" -> "check_status"
       [] symbol \in {"U16", "U17", "ZA"} -> "do_not_reinitiate"
       [] OTHER -> "none"]

-----------------------------------------------------------------------------
(* The posterior.                                                          *)

\* What _rail() makes of a payment's method: AutoPay is a mandate on UPI, and
\* other methods pass as they are.
Rails == {"card", "upi", "upi_autopay", "cardless_emi", "netbanking"}

\* A plausible slip, once a real one: a rail in its own right.
rail_key_exact(rail) == rail

\* The family whose emissions a rail shares: that whose name its own begins with.
rail_key(rail) ==
  CASE rail = "upi_autopay" -> "upi"
    [] rail = "cardless_emi" -> "card"
    [] OTHER -> rail

symbol_is_known(rail, symbol) ==
  /\ rail_key(rail) \in DOMAIN emissions
  /\ \E c \in CAUSES : \E p \in emissions[rail_key(rail)][c] : p[1] = symbol

Emitted(row, symbol) ==
  IF \E p \in row : p[1] = symbol THEN (CHOOSE p \in row : p[1] = symbol)[2] ELSE 0

\* P(observation | cause): flat if the symbol is unknown on the rail.
likelihood(rail, symbol, c) ==
  IF symbol_is_known(rail, symbol) THEN Emitted(emissions[rail_key(rail)][c], symbol) ELSE 1

Weight(rail, symbol, c) == priors[c] * likelihood(rail, symbol, c)

\* In ten-millionths, of which the first five digits are right.
posterior(rail, symbol, c) ==
  100 * ((Weight(rail, symbol, c) * 100000)
           \div SumFunction([k \in CAUSES |-> Weight(rail, symbol, k)]))

\* The worker takes the likeliest cause.  No two tie.
attributed_cause(rail, symbol) ==
  CHOOSE c \in CAUSES : \A k \in CAUSES : Weight(rail, symbol, k) <= Weight(rail, symbol, c)

=============================================================================
