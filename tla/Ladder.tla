------------------------------- MODULE Ladder -------------------------------
(***************************************************************************)
(* kernel/ladder.py and kernel/opa_client.py: one decline after another is *)
(* put to OPA four times, once per tier, then a tier is selected and a     *)
(* DECISION row written.  OPA is another process: it can be gone for any   *)
(* of the four queries, or back with another bundle.                       *)
(***************************************************************************)
EXTENDS LadderRules, Sequences

CONSTANTS Contexts,   \* the declines, each a DeclineContext
          Revisions,  \* revisions of the bundles OPA may run
          Exempt,     \* does a revision's policy exempt T4?
          Has,        \* the fields of the result at the path asked, bundle by bundle
          Down,       \* OPA is not running
          UNKNOWN     \* UNKNOWN_REVISION

ASSUME ContextsAssumption == Contexts \subseteq DeclineContext

ASSUME RevisionsAssumption ==
  /\ Exempt \in [Revisions -> BOOLEAN]
  /\ Has \in [Revisions -> SUBSET {"allow", "deny_reason", "bundle_revision"}]
  /\ Down \notin Revisions
  /\ UNKNOWN \notin Revisions

VARIABLES opa,          \* the revision OPA runs, or Down
          ctx,          \* the decline being judged
          evaluations,  \* TierEvaluations so far, in the order of QUERIED_TIERS
          pc,           \* "idle" or "asking"
          row           \* the decline's DECISION row: what it says of the ladder

vars == <<opa, ctx, evaluations, pc, row>>

-----------------------------------------------------------------------------
\* PolicyClient.evaluate() when OPA answers: what the bundle says, with the
\* revision it echoes.  A bundle without data.revision echoes none, and a path
\* that leads elsewhere has none of the fields; what is missing has its default,
\* and no failure is noted.  `by` is history: the bundle that answered.
Answer(r, input) ==
  [allow |-> "allow" \in Has[r] /\ allow(Exempt[r], input),
   deny_reasons |-> IF "deny_reason" \in Has[r] THEN deny_reason(Exempt[r], input) ELSE {},
   failed_closed |-> FALSE,
   bundle_revision |-> IF "bundle_revision" \in Has[r] THEN r ELSE UNKNOWN,
   by |-> r]

\* A plausible slip: `.get("allow", True)`.
deny_closed_open ==
  [allow |-> TRUE, deny_reasons |-> {}, failed_closed |-> TRUE,
   bundle_revision |-> UNKNOWN, by |-> Down]

\* Every failure: no connection, a timeout, an HTTP error, a reply without a
\* result.
deny_closed ==
  [allow |-> FALSE, deny_reasons |-> {"opa_unavailable"}, failed_closed |-> TRUE,
   bundle_revision |-> UNKNOWN, by |-> Down]

-----------------------------------------------------------------------------
NoRow == [tier |-> "none"]

Init ==
  /\ opa \in Revisions \union {Down}
  /\ ctx \in Contexts
  /\ evaluations = <<>>
  /\ pc = "idle"
  /\ row = NoRow

\* The next decline reaches evaluate_ladder().
Decline(c) ==
  /\ pc = "idle"
  /\ ctx' = c
  /\ evaluations' = <<>>
  /\ pc' = "asking"
  /\ row' = NoRow
  /\ UNCHANGED opa

\* A plausible slip: a client without a timeout.
QueryWithoutTimeout ==
  /\ pc = "asking"
  /\ Len(evaluations) < 4
  /\ opa # Down
  /\ LET input == build_policy_input(ctx, QUERIED_TIERS[Len(evaluations) + 1])
     IN  evaluations' = Append(evaluations, Answer(opa, input))
  /\ UNCHANGED <<opa, ctx, pc, row>>

\* The loop's next client.evaluate().  A running OPA may still fail one query.
Query ==
  /\ pc = "asking"
  /\ Len(evaluations) < 4
  /\ LET input == build_policy_input(ctx, QUERIED_TIERS[Len(evaluations) + 1])
     IN  \E d \in {deny_closed} \union (IF opa = Down THEN {} ELSE {Answer(opa, input)}) :
           evaluations' = Append(evaluations, d)
  /\ UNCHANGED <<opa, ctx, pc, row>>

Evaluation(tier) == evaluations[IndexOf(tier)]

Allowed == {t \in Range(QUERIED_TIERS) : Evaluation(t).allow}

selected_tier == SelectTier(ctx.cause, Allowed)

recorded_tier == RecordedTier(selected_tier)

\* A plausible slip: what OPA runs by the time it is asked.
bundle_revision_at_the_end == opa

\* The first revision that is not UNKNOWN.
bundle_revision ==
  LET known == {i \in 1..4 : evaluations[i].bundle_revision # UNKNOWN}
  IN  IF known = {} THEN UNKNOWN
      ELSE evaluations[CHOOSE i \in known : \A j \in known : i <= j].bundle_revision

\* A plausible slip: what was done is recorded as what the policy said.
DecideRecordsAction ==
  /\ pc = "asking"
  /\ Len(evaluations) = 4
  /\ row' = [tier |-> selected_tier,
             is_action |-> selected_tier \in ACTIONABLE_TIERS,
             opa_allow |-> selected_tier \in ACTIONABLE_TIERS,
             deny_reasons |-> Evaluation(recorded_tier).deny_reasons,
             policy_input |-> build_policy_input(ctx, recorded_tier),
             bundle_revision |-> bundle_revision]
  /\ pc' = "idle"
  /\ UNCHANGED <<opa, ctx, evaluations>>

\* The selection, and the DECISION row that the caller appends at once.
Decide ==
  /\ pc = "asking"
  /\ Len(evaluations) = 4
  /\ row' = [tier |-> selected_tier,
             is_action |-> selected_tier \in ACTIONABLE_TIERS,
             opa_allow |-> Evaluation(recorded_tier).allow,
             deny_reasons |-> Evaluation(recorded_tier).deny_reasons,
             policy_input |-> build_policy_input(ctx, recorded_tier),
             bundle_revision |-> bundle_revision]
  /\ pc' = "idle"
  /\ UNCHANGED <<opa, ctx, evaluations>>

\* OPA stops, or starts with whatever bundle it finds.
OpaChanges(r) ==
  /\ opa' = r
  /\ UNCHANGED <<ctx, evaluations, pc, row>>

Next ==
  \/ \E c \in Contexts : Decline(c)
  \/ Query
  \/ Decide
  \/ \E r \in Revisions \union {Down} : OpaChanges(r)

Spec == Init /\ [][Next]_vars

\* The caller runs on, and the client's timeout ends every query.
FairSpec == Spec /\ WF_vars(Query) /\ WF_vars(Decide)

-----------------------------------------------------------------------------
\* Type invariant.
TypeOK ==
  /\ opa \in Revisions \union {Down}
  /\ ctx \in Contexts
  /\ Len(evaluations) \in 0..4
  /\ \A i \in 1..Len(evaluations) :
       /\ evaluations[i].allow \in BOOLEAN
       /\ evaluations[i].bundle_revision \in Revisions \union {UNKNOWN}
  /\ pc \in {"idle", "asking"}
  /\ row # NoRow =>
       /\ row.tier \in {"T0", "T1", "T2", "T3", "T4"}
       /\ row.bundle_revision \in Revisions \union {UNKNOWN}

\* The last pass is over; ctx and evaluations are still the ones it used.
Decided == pc = "idle" /\ row # NoRow

\* An action is taken only on the word of a policy that really ran: the
\* selected tier's query was answered, and the bundle that answered allows
\* exactly this decline at exactly this tier.  No outage, restart or left-over
\* answer authorises anything (law #9), and a permission the ladder did not
\* ask for - a retry of an expired card - is not used.
ActsOnlyIfPermitted ==
  Decided /\ row.is_action =>
    LET r == Evaluation(row.tier).by
    IN  /\ r \in Revisions
        /\ allow(Exempt[r], build_policy_input(ctx, row.tier))
        /\ row.tier = "T3" \/ retryable(ctx.cause)

\* S5: the posterior is rounded on its way to the policy, but no action is
\* taken on a cause whose posterior is more than half a millionth below the
\* confidence floor.
GuessesAreNotActedOn ==
  Decided /\ row.is_action => ctx.max_posterior + 5 >= 10 * config.confidence_floor

\* "Nothing is legal, not even telling a human" is not a decision the ladder
\* may reach: a soft decline is terminated only if the T4 query failed, or was
\* answered by a bundle from before the exemption or by none of ours.
HumanIsAlwaysLegal ==
  Decided /\ cause_class(ctx.cause) = "soft" /\ row.tier = "T0" =>
    \/ Evaluation("T4").failed_closed
    \/ ~Exempt[Evaluation("T4").by]
    \/ "allow" \notin Has[Evaluation("T4").by]

\* What _compare() of ledger/replay.py checks, against the row's own bundle.
Reproduced ==
  LET answer == Answer(row.bundle_revision, row.policy_input)
  IN  row.opa_allow = answer.allow /\ row.deny_reasons = answer.deny_reasons

Answered == {i \in 1..4 : ~evaluations[i].failed_closed}

\* A row whose own tier was answered replays against the bundle it names, if it
\* names one, whichever other queries of the pass failed, as long as the answers
\* came from one bundle.
RowsReplay ==
  /\ Decided
  /\ row.bundle_revision # UNKNOWN
  /\ ~Evaluation(row.policy_input.tier).failed_closed
  /\ \A i, j \in Answered : evaluations[i].by = evaluations[j].by
  => Reproduced

\* Judging a decline ends, whatever OPA does.
EveryDeclineIsDecided == pc = "asking" ~> pc = "idle"

-----------------------------------------------------------------------------
\* metrics.py and docker-compose.yml: with OPA unreachable "the app denies and
\* escalates to T4".
FailsClosedToT4 ==
  Decided /\ Answered = {} /\ cause_class(ctx.cause) = "soft" => row.tier = "T4"

\* ladder.py on the DECISION row: its input, verdict and deny-set describe one
\* tier, so that re-posting the input to the pinned bundle gives that verdict.
EveryPinnedRowReplays == Decided /\ row.bundle_revision # UNKNOWN => Reproduced
=============================================================================
