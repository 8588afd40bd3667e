---------------------------- MODULE LadderProofs ----------------------------
(***************************************************************************)
(* Theorems about Ladder for every set of declines, every configuration of *)
(* the policy and any bundles, however OPA comes and goes.                 *)
(*                                                                         *)
(* A pass is sound because of what its evaluations are: each one is either *)
(* the fail-closed denial or the answer of a bundle that ran, to the input *)
(* of this decline at this tier.  The row is computed from nothing else.   *)
(*                                                                         *)
(* The last section is about the declines that webhooks make.              *)
(***************************************************************************)
EXTENDS Normalise, OperatorLemmas

Tiers == Range(QUERIED_TIERS)

\* What the query for a tier may have come back with.
Possible(tier, e) ==
  \/ e = deny_closed
  \/ \E r \in Revisions : e = Answer(r, build_policy_input(ctx, tier))

EvaluationSet ==
  {deny_closed} \union
  {Answer(r, build_policy_input(c, t)) : r \in Revisions, c \in Contexts, t \in Tiers}

EvaluationsInv ==
  /\ evaluations \in Seq(EvaluationSet)
  /\ Len(evaluations) <= 4
  /\ \A n \in 1..Len(evaluations) : Possible(QUERIED_TIERS[n], evaluations[n])

\* The row the pass leads to.
RowOfPass ==
  [tier |-> selected_tier,
   is_action |-> selected_tier \in ACTIONABLE_TIERS,
   opa_allow |-> Evaluation(recorded_tier).allow,
   deny_reasons |-> Evaluation(recorded_tier).deny_reasons,
   policy_input |-> build_policy_input(ctx, recorded_tier),
   bundle_revision |-> bundle_revision]

RowInv ==
  /\ pc = "asking" => row = NoRow
  /\ row # NoRow => Len(evaluations) = 4 /\ row = RowOfPass

IInv ==
  /\ opa \in Revisions \union {Down}
  /\ ctx \in Contexts
  /\ pc \in {"idle", "asking"}
  /\ EvaluationsInv
  /\ RowInv

-----------------------------------------------------------------------------
\* The tiers in the order of the queries.
LEMMA TierOrder ==
  /\ Tiers = {"T1", "T2", "T3", "T4"}
  /\ \A n \in 1..4 : QUERIED_TIERS[n] \in Tiers /\ IndexOf(QUERIED_TIERS[n]) = n
  /\ \A t \in Tiers : IndexOf(t) \in 1..4 /\ QUERIED_TIERS[IndexOf(t)] = t
  <1>1. /\ QUERIED_TIERS[1] = "T1" /\ QUERIED_TIERS[2] = "T2"
        /\ QUERIED_TIERS[3] = "T3" /\ QUERIED_TIERS[4] = "T4"
        /\ DOMAIN QUERIED_TIERS = 1..4
    BY DEF QUERIED_TIERS
  <1> HIDE DEF QUERIED_TIERS
  <1>2. Tiers = {"T1", "T2", "T3", "T4"}
    BY <1>1 DEF Tiers, Range
  <1>3. \A n \in 1..4 : IndexOf(QUERIED_TIERS[n]) = n
    BY <1>1 DEF IndexOf
  <1>4. QED BY <1>1, <1>2, <1>3

\* What the ladder selects: an action only if it proposes it for the cause and
\* the policy allows it; a human if it may and no action is left; and nothing
\* only if neither is possible.
LEMMA Selection ==
  ASSUME NEW cause, NEW allowed
  PROVE  LET tier == SelectTier(cause, allowed)
         IN  /\ tier \in {"T0", "T1", "T2", "T3", "T4"}
             /\ tier \in ACTIONABLE_TIERS => tier \in proposed_tiers_for(cause) \intersect allowed
             /\ tier = "T4" => "T4" \in allowed
             /\ tier = "T0" => cause_class(cause) = "hard" \/ "T4" \notin allowed
  <1> DEFINE permitted == proposed_tiers_for(cause) \intersect allowed
             default == default_tier(cause)
             Best(t) == \A s \in permitted \ {t} : Prefers(cause, t, s)
  <1>1. permitted \subseteq {"T1", "T2", "T3"}
    BY DEF proposed_tiers_for, ACTIONABLE_TIERS
  <1>2. IndexOf("T1") = 1 /\ IndexOf("T2") = 2 /\ IndexOf("T3") = 3
    BY TierOrder DEF QUERIED_TIERS
  <1>3. CASE permitted # {}
    <2>1. \E t \in permitted : Best(t)
      <3>1. CASE default \in permitted
        BY <3>1 DEF Prefers
      <3>2. CASE default \notin permitted
        <4>1. \A s, t \in permitted : IndexOf(s) < IndexOf(t) => Prefers(cause, s, t)
          BY <3>2 DEF Prefers
        <4>2. CASE "T1" \in permitted
          BY <1>1, <1>2, <4>1, <4>2
        <4>3. CASE "T1" \notin permitted /\ "T2" \in permitted
          BY <1>1, <1>2, <4>1, <4>3
        <4>4. CASE "T1" \notin permitted /\ "T2" \notin permitted
          BY <1>1, <1>3, <4>4
        <4>5. QED BY <4>2, <4>3, <4>4
      <3>3. QED BY <3>1, <3>2
    <2>2. SelectTier(cause, allowed) = CHOOSE t \in permitted : Best(t)
      BY <1>3 DEF SelectTier
    <2>3. SelectTier(cause, allowed) \in permitted
      <3> HIDE DEF Best, permitted
      <3> QED BY <2>1, <2>2
    <2>4. QED BY <1>1, <2>3 DEF ACTIONABLE_TIERS
  <1>4. CASE permitted = {}
    <2>1. SelectTier(cause, allowed) =
            IF cause_class(cause) # "hard" /\ "T4" \in allowed THEN "T4" ELSE "T0"
      BY <1>4 DEF SelectTier
    <2>2. QED BY <2>1 DEF ACTIONABLE_TIERS
  <1>5. QED BY <1>3, <1>4

\* What build_policy_input() sends of a decline.
LEMMA PolicyInput ==
  ASSUME NEW c \in DeclineContext, NEW t
  PROVE  LET input == build_policy_input(c, t)
         IN  /\ input.tier = t
             /\ input.max_posterior = prob_str(c.max_posterior)
             /\ input.cause_class = cause_class(c.cause)
  BY DEF build_policy_input, DeclineContext

-----------------------------------------------------------------------------
\* The inductive invariant.
LEMMA InvInit == Init => IInv
  <1> SUFFICES ASSUME Init PROVE IInv
    OBVIOUS
  <1>1. EvaluationsInv
    BY DEF Init, EvaluationsInv
  <1>2. QED BY <1>1 DEF Init, IInv, RowInv

\* Both outcomes of a query are possible ones.
LEMMA QueryInv ==
  ASSUME IInv, Query
  PROVE  EvaluationsInv'
  <1> DEFINE n == Len(evaluations) + 1
             tier == QUERIED_TIERS[n]
  <1>1. PICK e : /\ evaluations' = Append(evaluations, e)
                 /\ \/ e = deny_closed
                    \/ opa \in Revisions /\ e = Answer(opa, build_policy_input(ctx, tier))
    BY DEF Query, IInv
  <1>2. n \in 1..4 /\ evaluations \in Seq(EvaluationSet) /\ Len(evaluations) \in Nat
    BY LenProperties DEF Query, IInv, EvaluationsInv
  <1>3. tier \in Tiers /\ ctx \in Contexts
    BY <1>2, TierOrder DEF IInv
  <1>4. e \in EvaluationSet /\ Possible(tier, e)
    BY <1>1, <1>3 DEF EvaluationSet, Possible
  <1>5. /\ evaluations' \in Seq(EvaluationSet)
        /\ Len(evaluations') = n
        /\ \A k \in 1..Len(evaluations) : evaluations'[k] = evaluations[k]
        /\ evaluations'[n] = e
    BY <1>1, <1>2, <1>4, AppendProperties
  <1>6. ASSUME NEW k \in 1..n PROVE Possible(QUERIED_TIERS[k], evaluations'[k])
    <2> HIDE DEF tier
    <2>1. CASE k = n
      BY <2>1, <1>4, <1>5 DEF tier
    <2>2. CASE k # n
      BY <2>2, <1>2, <1>5 DEF IInv, EvaluationsInv
    <2>3. QED BY <2>1, <2>2
  <1>7. \A t, x : Possible(t, x) => Possible(t, x)'
    BY DEF Query, Possible
  <1>8. QED BY <1>2, <1>5, <1>6, <1>7 DEF EvaluationsInv

LEMMA InvNext == IInv /\ [Next]_vars => IInv'
  <1> SUFFICES ASSUME IInv, [Next]_vars PROVE IInv'
    OBVIOUS
  <1>1. ASSUME NEW c \in Contexts, Decline(c) PROVE IInv'
    <2>1. EvaluationsInv'
      BY <1>1 DEF Decline, EvaluationsInv
    <2>2. QED BY <1>1, <2>1 DEF IInv, Decline, RowInv
  <1>2. CASE Query
    <2>1. EvaluationsInv'
      BY <1>2, QueryInv
    <2>2. row = NoRow /\ UNCHANGED <<opa, ctx, pc, row>>
      BY <1>2 DEF Query, IInv, RowInv
    <2>3. QED BY <2>1, <2>2 DEF IInv, RowInv
  <1>3. CASE Decide
    <2>1. /\ row' = RowOfPass
          /\ Len(evaluations) = 4
          /\ pc' = "idle"
          /\ UNCHANGED <<opa, ctx, evaluations>>
      BY <1>3 DEF Decide, RowOfPass
    <2>2. RowOfPass' = RowOfPass
      BY <2>1 DEF RowOfPass, selected_tier, recorded_tier, Allowed, Evaluation, bundle_revision
    <2>3. QED
      BY <2>1, <2>2 DEF IInv, RowInv, EvaluationsInv, Possible
  <1>4. ASSUME NEW r \in Revisions \union {Down}, OpaChanges(r) PROVE IInv'
    <2>1. opa' = r /\ UNCHANGED <<ctx, evaluations, pc, row>>
      BY <1>4 DEF OpaChanges
    <2>2. RowOfPass' = RowOfPass
      BY <2>1 DEF RowOfPass, selected_tier, recorded_tier, Allowed, Evaluation, bundle_revision
    <2>3. QED BY <2>1, <2>2 DEF IInv, RowInv, EvaluationsInv, Possible
  <1>5. CASE UNCHANGED vars
    <2>1. UNCHANGED <<opa, ctx, evaluations, pc, row>>
      BY <1>5 DEF vars
    <2>2. RowOfPass' = RowOfPass
      BY <2>1 DEF RowOfPass, selected_tier, recorded_tier, Allowed, Evaluation, bundle_revision
    <2>3. QED BY <2>1, <2>2 DEF IInv, RowInv, EvaluationsInv, Possible
  <1>6. QED BY <1>1, <1>2, <1>3, <1>4, <1>5 DEF Next

LEMMA Invariance == Spec => []IInv
  BY InvInit, InvNext, PTL DEF Spec

-----------------------------------------------------------------------------
\* What the invariant says of a pass that is over.

\* Every tier has its evaluation, one of the two possible kinds.
LEMMA PassIsComplete ==
  ASSUME IInv, Len(evaluations) = 4, NEW t \in Tiers
  PROVE  /\ IndexOf(t) \in 1..4
         /\ Possible(t, Evaluation(t))
  <1>1. IndexOf(t) \in 1..4 /\ QUERIED_TIERS[IndexOf(t)] = t
    BY TierOrder
  <1>2. QED BY <1>1 DEF IInv, EvaluationsInv, Evaluation

\* An answer is that of a bundle; a failure is told from it.  What is missing
\* from a result allows nothing and names no revision.
LEMMA AnswersAreAnswers ==
  ASSUME NEW t, NEW e, Possible(t, e)
  PROVE  /\ e.allow \in BOOLEAN
         /\ e.failed_closed \in BOOLEAN
         /\ e.bundle_revision \in Revisions \union {UNKNOWN}
         /\ e.failed_closed => ~e.allow /\ e.bundle_revision = UNKNOWN
         /\ ~e.failed_closed =>
              LET input == build_policy_input(ctx, t)
              IN  /\ e.by \in Revisions
                  /\ e = Answer(e.by, input)
                  /\ e.allow => allow(Exempt[e.by], input)
                  /\ "allow" \in Has[e.by] => e.allow = allow(Exempt[e.by], input)
                  /\ e.bundle_revision # UNKNOWN => e.bundle_revision = e.by
  <1>1. CASE e = deny_closed
    BY <1>1 DEF deny_closed
  <1>2. ASSUME NEW r \in Revisions, e = Answer(r, build_policy_input(ctx, t))
        PROVE  /\ e.allow = ("allow" \in Has[r] /\ allow(Exempt[r], build_policy_input(ctx, t)))
               /\ e.bundle_revision = IF "bundle_revision" \in Has[r] THEN r ELSE UNKNOWN
               /\ e.failed_closed = FALSE
               /\ e.by = r
    BY <1>2 DEF Answer
  <1>3. \A r, input : allow(r, input) \in BOOLEAN
    BY DEF allow
  <1>4. CASE e # deny_closed
    <2>1. PICK r \in Revisions : e = Answer(r, build_policy_input(ctx, t))
      BY <1>4 DEF Possible
    <2>2. r # UNKNOWN
      BY RevisionsAssumption
    <2>3. QED BY <1>2, <1>3, <2>1, <2>2
  <1>5. QED BY <1>1, <1>4

\* The revision of the row, if it names one, is that of an answer.
LEMMA RowRevision ==
  ASSUME IInv, Len(evaluations) = 4, bundle_revision # UNKNOWN
  PROVE  \E i \in Answered : bundle_revision = evaluations[i].bundle_revision
  <1> DEFINE known == {i \in 1..4 : evaluations[i].bundle_revision # UNKNOWN}
             First(i) == \A j \in known : i <= j
  <1>1. known \subseteq Answered
    <2>1. ASSUME NEW i \in 1..4, evaluations[i].bundle_revision # UNKNOWN
          PROVE  ~evaluations[i].failed_closed
      <3>1. Possible(QUERIED_TIERS[i], evaluations[i])
        BY DEF IInv, EvaluationsInv
      <3>2. QED BY <2>1, <3>1, AnswersAreAnswers
    <2>2. QED BY <2>1 DEF Answered
  <1>2. known # {}
    BY DEF bundle_revision
  <1>3. \E i \in known : First(i)
    BY <1>2
  <1>4. bundle_revision = evaluations[CHOOSE i \in known : First(i)].bundle_revision
    BY <1>2 DEF bundle_revision
  <1>5. (CHOOSE i \in known : First(i)) \in known
    <2> HIDE DEF known, First
    <2> QED BY <1>3
  <1>6. QED BY <1>1, <1>4, <1>5

\* The row is the one its pass leads to, as long as the pass can be seen.
LEMMA RowIsOfItsPass ==
  ASSUME IInv, Decided
  PROVE  /\ Len(evaluations) = 4
         /\ row = RowOfPass
         /\ row.tier = selected_tier
         /\ row.is_action => row.tier \in ACTIONABLE_TIERS
         /\ row.policy_input = build_policy_input(ctx, recorded_tier)
  <1>1. Len(evaluations) = 4 /\ row = RowOfPass
    BY DEF IInv, RowInv, Decided
  <1>2. /\ RowOfPass.tier = selected_tier
        /\ RowOfPass.is_action = (selected_tier \in ACTIONABLE_TIERS)
        /\ RowOfPass.policy_input = build_policy_input(ctx, recorded_tier)
    BY DEF RowOfPass
  <1>3. QED BY <1>1, <1>2

\* The tier a row describes was queried.
LEMMA RecordedIsQueried == recorded_tier \in Tiers
  BY Selection, TierOrder DEF recorded_tier, RecordedTier, selected_tier

-----------------------------------------------------------------------------
\* Every variable of the ladder model keeps its type.
THEOREM TypeCorrect == Spec => []TypeOK
  <1>1. IInv => TypeOK
    <2> SUFFICES ASSUME IInv PROVE TypeOK
      OBVIOUS
    <2>1. Len(evaluations) \in 0..4
      <3>1. evaluations \in Seq(EvaluationSet)
        BY DEF IInv, EvaluationsInv
      <3>2. Len(evaluations) <= 4
        BY DEF IInv, EvaluationsInv
      <3>3. Len(evaluations) \in Nat
        BY <3>1, LenProperties
      <3>4. \A n \in Nat : n <= 4 => n \in 0..4
        OBVIOUS
      <3>5. QED BY <3>2, <3>3, <3>4, Zenon
    <2>2. ASSUME NEW n \in 1..Len(evaluations)
          PROVE  /\ evaluations[n].allow \in BOOLEAN
                 /\ evaluations[n].bundle_revision \in Revisions \union {UNKNOWN}
      <3>1. Possible(QUERIED_TIERS[n], evaluations[n])
        BY DEF IInv, EvaluationsInv
      <3>2. QED BY <3>1, AnswersAreAnswers
    <2>3. ASSUME row # NoRow
          PROVE  /\ row.tier \in {"T0", "T1", "T2", "T3", "T4"}
                 /\ row.bundle_revision \in Revisions \union {UNKNOWN}
      <3>1. Len(evaluations) = 4 /\ row.tier = selected_tier /\ row.bundle_revision = bundle_revision
        BY <2>3 DEF IInv, RowInv, RowOfPass
      <3>2. row.tier \in {"T0", "T1", "T2", "T3", "T4"}
        BY <3>1, Selection DEF selected_tier
      <3>3. Answered \subseteq 1..Len(evaluations)
        BY <3>1 DEF Answered
      <3>4. CASE row.bundle_revision = UNKNOWN
        BY <3>2, <3>4
      <3>5. CASE row.bundle_revision # UNKNOWN
        BY <2>2, <3>1, <3>2, <3>3, <3>5, RowRevision
      <3>6. QED BY <3>4, <3>5
    <2>4. QED BY <2>1, <2>2, <2>3 DEF IInv, TypeOK
  <1>2. QED BY <1>1, Invariance, PTL

\* Law #9 for every decline, policy and outage: whatever action is taken, the
\* bundle that answered the query for its tier allows it.
THEOREM ActionsArePermitted == Spec => []ActsOnlyIfPermitted
  <1>1. IInv => ActsOnlyIfPermitted
    <2> SUFFICES ASSUME IInv, Decided, row.is_action
                 PROVE  LET r == Evaluation(row.tier).by
                        IN  /\ r \in Revisions
                            /\ allow(Exempt[r], build_policy_input(ctx, row.tier))
                            /\ row.tier = "T3" \/ retryable(ctx.cause)
      BY DEF ActsOnlyIfPermitted
    <2>1. /\ Len(evaluations) = 4
          /\ row.tier = selected_tier
          /\ row.tier \in ACTIONABLE_TIERS
      BY RowIsOfItsPass
    <2>2. row.tier \in proposed_tiers_for(ctx.cause) \intersect Allowed
      BY <2>1, Selection DEF selected_tier
    <2>3. row.tier \in Tiers /\ Evaluation(row.tier).allow
      BY <2>2 DEF Allowed, Tiers
    <2>4. Possible(row.tier, Evaluation(row.tier))
      BY <2>1, <2>3, PassIsComplete
    <2>5. row.tier = "T3" \/ retryable(ctx.cause)
      BY <2>2 DEF proposed_tiers_for, ACTIONABLE_TIERS
    <2>6. QED BY <2>3, <2>4, <2>5, AnswersAreAnswers
  <1>2. QED BY <1>1, Invariance, PTL

\* A policy that allows an actionable tier found the rounded posterior at or
\* above the floor.
LEMMA AllowedIsConfident ==
  ASSUME NEW exempt, NEW input, input.tier \in ACTIONABLE_TIERS, allow(exempt, input)
  PROVE  ~(input.max_posterior < config.confidence_floor)
  <1>1. rule_fired(input) = {}
    BY DEF allow, deny_reason, ACTIONABLE_TIERS
  <1>2. If(/\ input.tier \in {"T0", "T1", "T2", "T3"}
           /\ input.max_posterior < config.confidence_floor, "low_confidence") = {}
    BY <1>1, Zenon DEF rule_fired
  <1>3. QED BY <1>2 DEF If, ACTIONABLE_TIERS

\* Law S5 for every posterior and floor: rounding never lets a guess through
\* that is more than half a millionth below the floor.
THEOREM GuessesNeverActedOn == Spec => []GuessesAreNotActedOn
  <1>1. IInv /\ ActsOnlyIfPermitted => GuessesAreNotActedOn
    <2> SUFFICES ASSUME IInv, ActsOnlyIfPermitted, Decided, row.is_action
                 PROVE  ctx.max_posterior + 5 >= 10 * config.confidence_floor
      BY DEF GuessesAreNotActedOn
    <2> DEFINE input == build_policy_input(ctx, row.tier)
    <2>1. row.tier \in ACTIONABLE_TIERS
      BY RowIsOfItsPass
    <2>2. ctx \in DeclineContext
      BY ContextsAssumption DEF IInv
    <2>3. input.tier = row.tier /\ input.max_posterior = prob_str(ctx.max_posterior)
      BY <2>2, PolicyInput
    <2>4. \E exempt : allow(exempt, input)
      BY DEF ActsOnlyIfPermitted
    <2>5. ~(prob_str(ctx.max_posterior) < config.confidence_floor)
      BY <2>1, <2>3, <2>4, AllowedIsConfident
    <2>6. ctx.max_posterior \in Nat /\ config.confidence_floor \in Nat
      BY <2>2, ConfigAssumption DEF DeclineContext
    <2>7. QED BY <2>5, <2>6 DEF prob_str
  <1>2. QED BY <1>1, Invariance, ActionsArePermitted, PTL

\* No soft decline is terminated while a policy with T4's exemption, and with an
\* `allow`, answers the query for T4.
THEOREM HumanAlwaysLegal == Spec => []HumanIsAlwaysLegal
  <1>1. IInv => HumanIsAlwaysLegal
    <2> SUFFICES ASSUME IInv, Decided, cause_class(ctx.cause) = "soft", row.tier = "T0",
                        ~Evaluation("T4").failed_closed,
                        Exempt[Evaluation("T4").by], "allow" \in Has[Evaluation("T4").by]
                 PROVE  FALSE
      BY DEF HumanIsAlwaysLegal
    <2> DEFINE input == build_policy_input(ctx, "T4")
    <2>1. Len(evaluations) = 4 /\ row.tier = selected_tier
      BY RowIsOfItsPass
    <2>2. "T4" \notin Allowed
      BY <2>1, Selection DEF selected_tier
    <2>3. "T4" \in Tiers
      BY TierOrder
    <2>4. ~Evaluation("T4").allow
      BY <2>2, <2>3 DEF Allowed, Tiers
    <2>5. Possible("T4", Evaluation("T4"))
      BY <2>1, <2>3, PassIsComplete
    <2>6. ~allow(Exempt[Evaluation("T4").by], input)
      BY <2>4, <2>5, AnswersAreAnswers
    <2>7. input.tier = "T4"
      BY ContextsAssumption, PolicyInput DEF IInv
    <2>8. QED BY <2>6, <2>7 DEF allow, deny_reason
  <1>2. QED BY <1>1, Invariance, PTL

\* A row that names a bundle and whose own tier was answered replays, whichever
\* queries failed, when one bundle gave every answer.
THEOREM RowsAlwaysReplay == Spec => []RowsReplay
  <1>1. IInv => RowsReplay
    <2> SUFFICES ASSUME IInv, Decided, row.bundle_revision # UNKNOWN,
                        ~Evaluation(row.policy_input.tier).failed_closed,
                        \A i, j \in Answered : evaluations[i].by = evaluations[j].by
                 PROVE  Reproduced
      BY DEF RowsReplay
    <2> DEFINE t == recorded_tier
               e == Evaluation(t)
    <2>1. Len(evaluations) = 4 /\ row = RowOfPass
      BY RowIsOfItsPass
    <2>2. t \in Tiers
      BY RecordedIsQueried
    <2>3. row.policy_input = build_policy_input(ctx, t) /\ row.policy_input.tier = t
      BY <2>1, ContextsAssumption, PolicyInput DEF RowOfPass, IInv
    <2>4. IndexOf(t) \in 1..4 /\ Possible(t, e)
      BY <2>1, <2>2, PassIsComplete
    <2>5. ~e.failed_closed /\ IndexOf(t) \in Answered
      BY <2>3, <2>4 DEF Answered, Evaluation
    <2>6. row.bundle_revision = e.by
      <3>1. row.bundle_revision = bundle_revision
        BY <2>1 DEF RowOfPass
      <3>2. PICK i \in Answered : bundle_revision = evaluations[i].bundle_revision
        BY <2>1, <3>1, RowRevision
      <3>3. Possible(QUERIED_TIERS[i], evaluations[i]) /\ ~evaluations[i].failed_closed
        BY <2>1 DEF IInv, EvaluationsInv, Answered
      <3>4. evaluations[i].bundle_revision = evaluations[i].by
        BY <3>1, <3>2, <3>3, AnswersAreAnswers
      <3>5. evaluations[i].by = e.by
        BY <2>5 DEF Evaluation
      <3>6. QED BY <3>1, <3>2, <3>4, <3>5
    <2>7. row.opa_allow = e.allow /\ row.deny_reasons = e.deny_reasons
      BY <2>1 DEF RowOfPass
    <2>8. e = Answer(e.by, row.policy_input)
      BY <2>3, <2>4, <2>5, AnswersAreAnswers
    <2>9. QED BY <2>6, <2>7, <2>8 DEF Reproduced
  <1>2. QED BY <1>1, Invariance, PTL

-----------------------------------------------------------------------------
(* Webhooks.  A code points to one cause.  It is the hinted one but for    *)
(* two codes, and on these, as on a rail without evidence, the policy      *)
(* forbids every action, so that any two soft causes end alike.            *)


\* A symbol points to a cause: weighed with the priors, no other that emits it
\* on the family's rails comes near.
PointsTo(family, symbol, c) ==
  \E v \in Nat \ {0} :
    /\ <<symbol, v>> \in emissions[family][c]
    /\ \A p \in emissions[family][c] : p[1] = symbol => p = <<symbol, v>>
    /\ \A k \in CAUSES \ {c} : \A p \in emissions[family][k] :
         p[1] = symbol => p[2] \in Nat /\ priors[k] * p[2] < priors[c] * v

\* The tables, written out for the provers.
LEMMA PriorsAre ==
  /\ priors["INSUFFICIENT_FUNDS"] = 26
  /\ priors["ISSUER_RISK_BLOCK"] = 16
  /\ priors["VELOCITY_LIMIT"] = 8
  /\ priors["AUTH_FAILURE"] = 18
  /\ priors["TECHNICAL_DECLINE"] = 16
  /\ priors["EXPIRED_OR_INVALID_CREDENTIAL"] = 9
  /\ priors["INSTRUMENT_DISABLED"] = 5
  /\ priors["LOST_STOLEN_FRAUD"] = 1
  /\ priors["MANDATE_TERMINATED"] = 1
  BY DEF priors

LEMMA CardRows ==
  /\ emissions["card"]["INSUFFICIENT_FUNDS"] = {<<"05", 50>>, <<"51", 50>>}
  /\ emissions["card"]["ISSUER_RISK_BLOCK"] =
       {<<"05", 30>>, <<"59", 35>>, <<"62", 15>>, <<"63", 12>>, <<"07", 8>>}
  /\ emissions["card"]["VELOCITY_LIMIT"] =
       {<<"05", 12>>, <<"65", 43>>, <<"61", 30>>, <<"51", 5>>, <<"12", 10>>}
  /\ emissions["card"]["AUTH_FAILURE"] =
       {<<"05", 12>>, <<"55", 25>>, <<"82", 22>>, <<"1A", 22>>, <<"63", 9>>, <<"17", 10>>}
  /\ emissions["card"]["TECHNICAL_DECLINE"] =
       {<<"05", 8>>, <<"91", 40>>, <<"96", 25>>, <<"06", 15>>, <<"92", 12>>}
  /\ emissions["card"]["EXPIRED_OR_INVALID_CREDENTIAL"] =
       {<<"05", 5>>, <<"54", 55>>, <<"14", 30>>, <<"15", 10>>}
  /\ emissions["card"]["INSTRUMENT_DISABLED"] =
       {<<"05", 8>>, <<"57", 40>>, <<"58", 20>>, <<"62", 20>>, <<"39", 10>>, <<"51", 2>>}
  /\ emissions["card"]["LOST_STOLEN_FRAUD"] =
       {<<"05", 5>>, <<"41", 35>>, <<"43", 30>>, <<"04", 15>>, <<"07", 15>>}
  /\ emissions["card"]["MANDATE_TERMINATED"] =
       {<<"05", 10>>, <<"21", 45>>, <<"02", 25>>, <<"03", 20>>}
  BY DEF emissions

LEMMA UpiRows ==
  /\ emissions["upi"]["INSUFFICIENT_FUNDS"] = {<<"Z9", 92>>, <<"U30", 8>>}
  /\ emissions["upi"]["ISSUER_RISK_BLOCK"] = {<<"U16", 55>>, <<"Z7", 25>>, <<"U30", 20>>}
  /\ emissions["upi"]["VELOCITY_LIMIT"] = {<<"Z8", 50>>, <<"Z7", 42>>, <<"U30", 8>>}
  /\ emissions["upi"]["AUTH_FAILURE"] = {<<"ZM", 40>>, <<"U69", 35>>, <<"ZA", 25>>}
  /\ emissions["upi"]["TECHNICAL_DECLINE"] = {<<"U28", 40>>, <<"U30", 35>>, <<"U17", 25>>}
  /\ emissions["upi"]["EXPIRED_OR_INVALID_CREDENTIAL"] = {<<"U17", 60>>, <<"U30", 40>>}
  /\ emissions["upi"]["INSTRUMENT_DISABLED"] =
       {<<"U16", 35>>, <<"U30", 42>>, <<"Z7", 20>>, <<"Z9", 3>>}
  /\ emissions["upi"]["LOST_STOLEN_FRAUD"] = {<<"U16", 70>>, <<"Z7", 30>>}
  /\ emissions["upi"]["MANDATE_TERMINATED"] = {<<"ZA", 60>>, <<"U30", 40>>}
  BY DEF emissions

LEMMA CardSymbolsPoint ==
  /\ PointsTo("card", "05", "INSUFFICIENT_FUNDS")
  /\ PointsTo("card", "51", "INSUFFICIENT_FUNDS")
  /\ PointsTo("card", "91", "TECHNICAL_DECLINE")
  /\ PointsTo("card", "96", "TECHNICAL_DECLINE")
  /\ PointsTo("card", "1A", "AUTH_FAILURE")
  /\ PointsTo("card", "82", "AUTH_FAILURE")
  /\ PointsTo("card", "17", "AUTH_FAILURE")
  /\ PointsTo("card", "54", "EXPIRED_OR_INVALID_CREDENTIAL")
  /\ PointsTo("card", "14", "EXPIRED_OR_INVALID_CREDENTIAL")
  /\ PointsTo("card", "57", "INSTRUMENT_DISABLED")
  /\ PointsTo("card", "62", "ISSUER_RISK_BLOCK")
  /\ PointsTo("card", "59", "ISSUER_RISK_BLOCK")
  /\ PointsTo("card", "61", "VELOCITY_LIMIT")
  BY CardRows, PriorsAre DEF PointsTo, CAUSES, NotRetryable, HardCauses

LEMMA UpiSymbolsPoint ==
  /\ PointsTo("upi", "Z9", "INSUFFICIENT_FUNDS")
  /\ PointsTo("upi", "U30", "TECHNICAL_DECLINE")
  /\ PointsTo("upi", "U28", "TECHNICAL_DECLINE")
  /\ PointsTo("upi", "ZM", "AUTH_FAILURE")
  /\ PointsTo("upi", "ZA", "AUTH_FAILURE")
  /\ PointsTo("upi", "U69", "AUTH_FAILURE")
  /\ PointsTo("upi", "U17", "EXPIRED_OR_INVALID_CREDENTIAL")
  /\ PointsTo("upi", "U16", "ISSUER_RISK_BLOCK")
  /\ PointsTo("upi", "Z8", "VELOCITY_LIMIT")
  BY UpiRows, PriorsAre DEF PointsTo, CAUSES, NotRetryable, HardCauses

\* What a row gives a symbol.
LEMMA EmittedIs ==
  ASSUME NEW emitted, NEW symbol, NEW v, <<symbol, v>> \in emitted,
         \A p \in emitted : p[1] = symbol => p = <<symbol, v>>
  PROVE  Emitted(emitted, symbol) = v
  <1>1. (CHOOSE p \in emitted : p[1] = symbol) = <<symbol, v>>
    OBVIOUS
  <1>2. \E p \in emitted : p[1] = symbol
    OBVIOUS
  <1>3. QED BY <1>1, <1>2 DEF Emitted

\* The cause a symbol points to is the one the worker takes.
LEMMA PointedCause ==
  ASSUME NEW rail, NEW symbol, NEW c \in CAUSES,
         rail_key(rail) \in DOMAIN emissions, PointsTo(rail_key(rail), symbol, c)
  PROVE  /\ symbol_is_known(rail, symbol)
         /\ Weight(rail, symbol, c) > 0
         /\ attributed_cause(rail, symbol) = c
  <1> DEFINE family == rail_key(rail)
             of(k) == emissions[family][k]
  <1>1. PICK v \in Nat \ {0} :
          /\ <<symbol, v>> \in of(c)
          /\ \A p \in of(c) : p[1] = symbol => p = <<symbol, v>>
          /\ \A k \in CAUSES \ {c} : \A p \in of(k) :
               p[1] = symbol => p[2] \in Nat /\ priors[k] * p[2] < priors[c] * v
    BY DEF PointsTo
  <1>2. symbol_is_known(rail, symbol)
    <2>1. <<symbol, v>>[1] = symbol
      OBVIOUS
    <2>2. QED BY <1>1, <2>1 DEF symbol_is_known
  <1>3. \A k \in CAUSES : Weight(rail, symbol, k) = priors[k] * Emitted(of(k), symbol)
    BY <1>2 DEF Weight, likelihood
  <1>4. \A k \in CAUSES : priors[k] \in Nat \ {0}
    BY PriorsAre DEF CAUSES, NotRetryable, HardCauses
  <1>5. Weight(rail, symbol, c) = priors[c] * v
    <2> HIDE DEF of
    <2>1. QED BY <1>1, <1>3, EmittedIs
  <1>6. priors[c] * v \in Nat \ {0}
    BY <1>4
  <1>7. ASSUME NEW k \in CAUSES \ {c}
        PROVE  Weight(rail, symbol, k) \in Nat /\ Weight(rail, symbol, k) < priors[c] * v
    <2> DEFINE p == CHOOSE p \in of(k) : p[1] = symbol
    <2>1. CASE \E q \in of(k) : q[1] = symbol
      <3>1. p \in of(k) /\ p[1] = symbol
        BY <2>1
      <3>2. Emitted(of(k), symbol) = p[2]
        BY <2>1 DEF Emitted
      <3> HIDE DEF p, of
      <3>3. Weight(rail, symbol, k) = priors[k] * p[2]
        BY <1>3, <3>2
      <3>4. p[2] \in Nat /\ priors[k] * p[2] < priors[c] * v
        BY <1>1, <3>1
      <3>5. QED BY <1>4, <3>3, <3>4
    <2>2. CASE ~\E q \in of(k) : q[1] = symbol
      <3>1. Emitted(of(k), symbol) = 0
        BY <2>2 DEF Emitted
      <3> HIDE DEF of
      <3>2. Weight(rail, symbol, k) = priors[k] * 0
        BY <1>3, <3>1
      <3>3. QED BY <1>4, <1>6, <3>2
    <2>3. QED BY <2>1, <2>2
  <1>8. attributed_cause(rail, symbol) = c
    <2> DEFINE Likeliest(x) ==
                 \A k \in CAUSES : Weight(rail, symbol, k) <= Weight(rail, symbol, x)
    <2>1. Likeliest(c)
      BY <1>5, <1>6, <1>7
    <2>2. ASSUME NEW x \in CAUSES, Likeliest(x) PROVE x = c
      BY <1>5, <1>6, <1>7, <2>2
    <2>3. attributed_cause(rail, symbol) = CHOOSE x \in CAUSES : Likeliest(x)
      BY DEF attributed_cause
    <2> HIDE DEF Likeliest
    <2>4. QED BY <2>1, <2>2, <2>3
  <1>9. QED BY <1>2, <1>5, <1>6, <1>8

LEMMA RailKeys ==
  /\ rail_key("card") = "card" /\ rail_key("cardless_emi") = "card"
  /\ rail_key("upi") = "upi" /\ rail_key("upi_autopay") = "upi"
  /\ rail_key("netbanking") = "netbanking"
  BY DEF rail_key

\* What a symbol weighs for a cause that emits it.
LEMMA EmittedWeighs ==
  ASSUME NEW rail, NEW symbol, NEW c \in CAUSES, NEW v \in Nat \ {0},
         symbol_is_known(rail, symbol), <<symbol, v>> \in emissions[rail_key(rail)][c],
         \A p \in emissions[rail_key(rail)][c] : p[1] = symbol => p = <<symbol, v>>
  PROVE  Weight(rail, symbol, c) > 0
  <1>1. Emitted(emissions[rail_key(rail)][c], symbol) = v
    BY EmittedIs
  <1>2. Weight(rail, symbol, c) = priors[c] * v
    BY <1>1 DEF Weight, likelihood
  <1>3. priors[c] \in Nat \ {0}
    BY PriorsAre DEF CAUSES, NotRetryable, HardCauses
  <1>4. QED BY <1>2, <1>3

\* What a reason says agrees with what its symbol points to, but for two codes.
Agrees(family, symbol, hint) ==
  \E c \in CAUSES :
    /\ PointsTo(family, symbol, c)
    /\ \/ hint \in {"none", c}
       \/ /\ hint = "INSTRUMENT_DISABLED" /\ c = "ISSUER_RISK_BLOCK"
          /\ <<family, symbol>> \in {<<"card", "62">>, <<"upi", "U16">>}

LEMMA ReasonsAgree ==
  ASSUME NEW entry \in _RAZORPAY
  PROVE  /\ entry.card # UNKNOWN_SYMBOL => Agrees("card", entry.card, entry.cause)
         /\ entry.upi # UNKNOWN_SYMBOL => Agrees("upi", entry.upi, entry.cause)
  <1>1. /\ Agrees("card", "51", "INSUFFICIENT_FUNDS")
        /\ Agrees("card", "91", "TECHNICAL_DECLINE")
        /\ Agrees("card", "96", "TECHNICAL_DECLINE")
        /\ Agrees("card", "1A", "AUTH_FAILURE")
        /\ Agrees("card", "82", "AUTH_FAILURE")
        /\ Agrees("card", "17", "AUTH_FAILURE")
        /\ Agrees("card", "54", "EXPIRED_OR_INVALID_CREDENTIAL")
        /\ Agrees("card", "14", "EXPIRED_OR_INVALID_CREDENTIAL")
        /\ Agrees("card", "57", "INSTRUMENT_DISABLED")
        /\ Agrees("card", "62", "INSTRUMENT_DISABLED")
        /\ Agrees("card", "59", "ISSUER_RISK_BLOCK")
        /\ Agrees("card", "61", "VELOCITY_LIMIT")
        /\ Agrees("card", "05", "none")
    BY CardSymbolsPoint DEF Agrees, CAUSES, NotRetryable, HardCauses
  <1>2. /\ Agrees("upi", "Z9", "INSUFFICIENT_FUNDS")
        /\ Agrees("upi", "U30", "TECHNICAL_DECLINE")
        /\ Agrees("upi", "U28", "TECHNICAL_DECLINE")
        /\ Agrees("upi", "ZM", "AUTH_FAILURE")
        /\ Agrees("upi", "ZA", "AUTH_FAILURE")
        /\ Agrees("upi", "U69", "AUTH_FAILURE")
        /\ Agrees("upi", "U17", "EXPIRED_OR_INVALID_CREDENTIAL")
        /\ Agrees("upi", "U16", "INSTRUMENT_DISABLED")
        /\ Agrees("upi", "U16", "ISSUER_RISK_BLOCK")
        /\ Agrees("upi", "Z8", "VELOCITY_LIMIT")
        /\ Agrees("upi", "U30", "none")
    BY UpiSymbolsPoint DEF Agrees, CAUSES, NotRetryable, HardCauses
  <1>3. QED BY <1>1, <1>2 DEF _RAZORPAY, Entry

\* The two codes whose hint is not what the taxonomy makes of them; the policy
\* forbids every action on either.
Overruled(obs) ==
  /\ obs.cause_hint = "INSTRUMENT_DISABLED"
  /\ attributed_cause(obs.rail, obs.symbol) = "ISSUER_RISK_BLOCK"
  /\ obs.network_category = 1 \/ obs.npci_retry_remark = "do_not_reinitiate"

LEMMA KnownCodes ==
  ASSUME NEW entry \in _RAZORPAY, NEW rail \in Rails \ {"netbanking"},
         normalise_razorpay(entry, rail).symbol # UNKNOWN_SYMBOL
  PROVE  LET obs == normalise_razorpay(entry, rail)
         IN  /\ symbol_is_known(rail, obs.symbol)
             /\ obs.cause_hint # "none" =>
                  /\ Weight(rail, obs.symbol, obs.cause_hint) > 0
                  /\ obs.cause_hint = attributed_cause(rail, obs.symbol) \/ Overruled(obs)
  <1> DEFINE obs == normalise_razorpay(entry, rail)
             family == rail_key(rail)
  <1>1. /\ obs.rail = rail /\ obs.cause_hint = entry.cause
        /\ obs.symbol = (IF rail \in {"upi", "upi_autopay"} THEN entry.upi ELSE entry.card)
        /\ obs.network_category = symbol_meta(obs.symbol).network_category
        /\ obs.npci_retry_remark = symbol_meta(obs.symbol).npci_retry_remark
    BY DEF normalise_razorpay
  <1>2. family = (IF rail \in {"upi", "upi_autopay"} THEN "upi" ELSE "card")
    BY RailKeys DEF Rails
  <1>3. family \in DOMAIN emissions
    BY <1>2 DEF emissions
  <1>4. Agrees(family, obs.symbol, obs.cause_hint)
    <2>1. CASE rail \in {"upi", "upi_autopay"}
      BY <1>1, <1>2, <2>1, ReasonsAgree
    <2>2. CASE rail \notin {"upi", "upi_autopay"}
      BY <1>1, <1>2, <2>2, ReasonsAgree
    <2>3. QED BY <2>1, <2>2
  <1>5. PICK c \in CAUSES : /\ PointsTo(family, obs.symbol, c)
                            /\ \/ obs.cause_hint \in {"none", c}
                               \/ /\ obs.cause_hint = "INSTRUMENT_DISABLED"
                                  /\ c = "ISSUER_RISK_BLOCK"
                                  /\ \/ family = "card" /\ obs.symbol = "62"
                                     \/ family = "upi" /\ obs.symbol = "U16"
    BY <1>4 DEF Agrees
  <1>6. /\ symbol_is_known(rail, obs.symbol)
        /\ Weight(rail, obs.symbol, c) > 0
        /\ attributed_cause(rail, obs.symbol) = c
    BY <1>3, <1>5, PointedCause
  <1>7. CASE obs.cause_hint \in {"none", c}
    BY <1>6, <1>7
  <1>8. CASE /\ c = "ISSUER_RISK_BLOCK" /\ obs.cause_hint = "INSTRUMENT_DISABLED"
             /\ family = "card" /\ obs.symbol = "62"
    <2>1. obs.network_category = 1
      <3>1. symbol_meta("62").network_category = 1
        BY DEF symbol_meta
      <3> HIDE DEF obs, family
      <3>2. QED BY <1>1, <1>8, <3>1
    <2>2. /\ <<"62", 20>> \in emissions["card"]["INSTRUMENT_DISABLED"]
          /\ \A p \in emissions["card"]["INSTRUMENT_DISABLED"] :
               p[1] = "62" => p = <<"62", 20>>
      BY CardRows
    <2>3. "INSTRUMENT_DISABLED" \in CAUSES
      BY DEF CAUSES, NotRetryable
    <2>4. Weight(rail, "62", "INSTRUMENT_DISABLED") > 0
      <3>1. symbol_is_known(rail, "62") /\ rail_key(rail) = "card"
        BY <1>6, <1>8
      <3>2. QED BY <2>2, <2>3, <3>1, EmittedWeighs
    <2>5. QED BY <1>1, <1>6, <1>8, <2>1, <2>4 DEF Overruled
  <1>9. CASE /\ c = "ISSUER_RISK_BLOCK" /\ obs.cause_hint = "INSTRUMENT_DISABLED"
             /\ family = "upi" /\ obs.symbol = "U16"
    <2>1. obs.npci_retry_remark = "do_not_reinitiate"
      <3>1. symbol_meta("U16").npci_retry_remark = "do_not_reinitiate"
        BY DEF symbol_meta
      <3> HIDE DEF obs, family
      <3>2. QED BY <1>1, <1>9, <3>1
    <2>2. /\ <<"U16", 35>> \in emissions["upi"]["INSTRUMENT_DISABLED"]
          /\ \A p \in emissions["upi"]["INSTRUMENT_DISABLED"] :
               p[1] = "U16" => p = <<"U16", 35>>
      BY UpiRows
    <2>3. "INSTRUMENT_DISABLED" \in CAUSES
      BY DEF CAUSES, NotRetryable
    <2>4. Weight(rail, "U16", "INSTRUMENT_DISABLED") > 0
      <3>1. symbol_is_known(rail, "U16") /\ rail_key(rail) = "upi"
        BY <1>6, <1>9
      <3>2. QED BY <2>2, <2>3, <3>1, EmittedWeighs
    <2>5. QED BY <1>1, <1>6, <1>9, <2>1, <2>4 DEF Overruled
  <1>10. QED BY <1>5, <1>7, <1>8, <1>9

\* The rail without emissions keeps the priors.
LEMMA PriorsDecide ==
  ASSUME NEW symbol
  PROVE  /\ attributed_cause("netbanking", symbol) = "INSUFFICIENT_FUNDS"
         /\ prob_str(posterior("netbanking", symbol, "INSUFFICIENT_FUNDS"))
              = 10000 * priors["INSUFFICIENT_FUNDS"]
  <1> DEFINE weights == [k \in CAUSES |-> Weight("netbanking", symbol, k)]
  <1>1. \A k \in CAUSES : Weight("netbanking", symbol, k) = priors[k]
    <2>1. ~symbol_is_known("netbanking", symbol)
      <3>1. "netbanking" \notin DOMAIN emissions
        BY DEF emissions
      <3>2. QED BY <3>1, RailKeys DEF symbol_is_known
    <2>2. \A k \in CAUSES : priors[k] \in Nat
      BY PriorsAre DEF CAUSES, NotRetryable, HardCauses
    <2>3. QED BY <2>1, <2>2 DEF Weight, likelihood
  <1>2. attributed_cause("netbanking", symbol) = "INSUFFICIENT_FUNDS"
    <2> DEFINE Likeliest(x) == \A k \in CAUSES : Weight("netbanking", symbol, k)
                                                  <= Weight("netbanking", symbol, x)
    <2>1. \A x \in CAUSES : Likeliest(x) <=> x = "INSUFFICIENT_FUNDS"
      BY <1>1, PriorsAre DEF CAUSES, NotRetryable, HardCauses
    <2>2. "INSUFFICIENT_FUNDS" \in CAUSES
      BY DEF CAUSES
    <2>3. attributed_cause("netbanking", symbol) = CHOOSE x \in CAUSES : Likeliest(x)
      BY DEF attributed_cause
    <2> HIDE DEF Likeliest
    <2>4. QED BY <2>1, <2>2, <2>3
  <1>3. SumFunction(weights) = 100
    <2> DEFINE S1 == {"INSUFFICIENT_FUNDS"}
               S2 == S1 \union {"ISSUER_RISK_BLOCK"}
               S3 == S2 \union {"VELOCITY_LIMIT"}
               S4 == S3 \union {"AUTH_FAILURE"}
               S5 == S4 \union {"TECHNICAL_DECLINE"}
               S6 == S5 \union {"EXPIRED_OR_INVALID_CREDENTIAL"}
               S7 == S6 \union {"INSTRUMENT_DISABLED"}
               S8 == S7 \union {"LOST_STOLEN_FRAUD"}
               S9 == S8 \union {"MANDATE_TERMINATED"}
    <2>1. ASSUME NEW S \in SUBSET CAUSES, IsFiniteSet(S), NEW x \in CAUSES, x \notin S
          PROVE  /\ IsFiniteSet(S \union {x})
                 /\ SumFunctionOnSet(weights, S \union {x})
                      = priors[x] + SumFunctionOnSet(weights, S)
      <3>1. WholeOn(weights, S \union {x}) /\ weights[x] = priors[x]
        BY <1>1, PriorsAre DEF WholeOn, CAUSES, NotRetryable, HardCauses
      <3> HIDE DEF weights
      <3>2. QED BY <2>1, <3>1, SumInsert, FS_AddElement
    <2>2. /\ IsFiniteSet({}) /\ SumFunctionOnSet(weights, {}) = 0
      BY SumEmpty, FS_EmptySet
    <2>3. IsFiniteSet(S1) /\ SumFunctionOnSet(weights, S1) = 26
      <3>1. S1 = {} \union {"INSUFFICIENT_FUNDS"}
        OBVIOUS
      <3> HIDE DEF weights, S1
      <3>2. QED BY <2>1, <2>2, <3>1, PriorsAre DEF CAUSES
    <2>4. IsFiniteSet(S2) /\ SumFunctionOnSet(weights, S2) = 42
      <3>1. /\ S1 \subseteq CAUSES
            /\ "ISSUER_RISK_BLOCK" \in CAUSES \ S1
        BY DEF CAUSES, NotRetryable, HardCauses
      <3> HIDE DEF weights, S1
      <3>2. QED BY <2>1, <2>3, <3>1, PriorsAre
    <2>5. IsFiniteSet(S3) /\ SumFunctionOnSet(weights, S3) = 50
      <3>1. /\ S2 \subseteq CAUSES
            /\ "VELOCITY_LIMIT" \in CAUSES \ S2
        BY DEF CAUSES, NotRetryable, HardCauses
      <3> HIDE DEF weights, S2
      <3>2. QED BY <2>1, <2>4, <3>1, PriorsAre
    <2>6. IsFiniteSet(S4) /\ SumFunctionOnSet(weights, S4) = 68
      <3>1. /\ S3 \subseteq CAUSES
            /\ "AUTH_FAILURE" \in CAUSES \ S3
        BY DEF CAUSES, NotRetryable, HardCauses
      <3> HIDE DEF weights, S3
      <3>2. QED BY <2>1, <2>5, <3>1, PriorsAre
    <2>7. IsFiniteSet(S5) /\ SumFunctionOnSet(weights, S5) = 84
      <3>1. /\ S4 \subseteq CAUSES
            /\ "TECHNICAL_DECLINE" \in CAUSES \ S4
        BY DEF CAUSES, NotRetryable, HardCauses
      <3> HIDE DEF weights, S4
      <3>2. QED BY <2>1, <2>6, <3>1, PriorsAre
    <2>8. IsFiniteSet(S6) /\ SumFunctionOnSet(weights, S6) = 93
      <3>1. /\ S5 \subseteq CAUSES
            /\ "EXPIRED_OR_INVALID_CREDENTIAL" \in CAUSES \ S5
        BY DEF CAUSES, NotRetryable, HardCauses
      <3> HIDE DEF weights, S5
      <3>2. QED BY <2>1, <2>7, <3>1, PriorsAre
    <2>9. IsFiniteSet(S7) /\ SumFunctionOnSet(weights, S7) = 98
      <3>1. /\ S6 \subseteq CAUSES
            /\ "INSTRUMENT_DISABLED" \in CAUSES \ S6
        BY DEF CAUSES, NotRetryable, HardCauses
      <3> HIDE DEF weights, S6
      <3>2. QED BY <2>1, <2>8, <3>1, PriorsAre
    <2>10. IsFiniteSet(S8) /\ SumFunctionOnSet(weights, S8) = 99
      <3>1. /\ S7 \subseteq CAUSES
            /\ "LOST_STOLEN_FRAUD" \in CAUSES \ S7
        BY DEF CAUSES, NotRetryable, HardCauses
      <3> HIDE DEF weights, S7
      <3>2. QED BY <2>1, <2>9, <3>1, PriorsAre
    <2>11. IsFiniteSet(S9) /\ SumFunctionOnSet(weights, S9) = 100
      <3>1. /\ S8 \subseteq CAUSES
            /\ "MANDATE_TERMINATED" \in CAUSES \ S8
        BY DEF CAUSES, NotRetryable, HardCauses
      <3> HIDE DEF weights, S8
      <3>2. QED BY <2>1, <2>10, <3>1, PriorsAre
    <2>12. S9 = CAUSES
      BY DEF CAUSES, NotRetryable, HardCauses
    <2>13. DOMAIN weights = CAUSES
      OBVIOUS
    <2> HIDE DEF weights, S9
    <2>14. QED BY <2>11, <2>12, <2>13 DEF SumFunction
  <1>4. posterior("netbanking", symbol, "INSUFFICIENT_FUNDS") = 100 * ((26 * 100000) \div 100)
    <2>1. Weight("netbanking", symbol, "INSUFFICIENT_FUNDS") = 26
      BY <1>1, PriorsAre DEF CAUSES
    <2>2. posterior("netbanking", symbol, "INSUFFICIENT_FUNDS")
            = 100 * ((Weight("netbanking", symbol, "INSUFFICIENT_FUNDS") * 100000)
                       \div SumFunction(weights))
      BY SMT DEF posterior
    <2> HIDE DEF weights
    <2>3. QED BY SMT, <1>3, <2>1, <2>2
  <1>5. prob_str(100 * ((26 * 100000) \div 100)) = 10000 * 26
    BY SMT DEF prob_str
  <1>6. QED BY SMT, <1>2, <1>4, <1>5, PriorsAre

\* The fields of a DeclineContext.
ContextFields ==
  {"cause", "max_posterior", "rail", "amount_paise", "network_category", "merchant_advice_code",
   "npci_retry_remark", "attempts_30d", "attempts_this_payment", "bin_attempts_1h",
   "customer_nudges_7d", "is_emandate", "afa_completed", "ms_since_pre_debit_notice",
   "ist_hour", "has_alternate_instrument"}

\* The decline the worker makes of a webhook, the cause left open.
LEMMA WebhookDecline ==
  ASSUME NEW c, DOMAIN c = ContextFields, NEW obs, NEW cause
  PROVE  LET d == WebhookContext(c, obs, cause)
         IN  /\ DOMAIN d = ContextFields
             /\ d.cause = cause
             /\ d.network_category = obs.network_category
             /\ d.npci_retry_remark = obs.npci_retry_remark
             /\ d.max_posterior
                  = posterior(obs.rail, obs.symbol, attributed_cause(obs.rail, obs.symbol))
  <1> DEFINE p == posterior(obs.rail, obs.symbol, attributed_cause(obs.rail, obs.symbol))
             d == WebhookContext(c, obs, cause)
  <1>1. DOMAIN d = ContextFields
    BY DEF WebhookContext
  <1>2. d.cause = cause
    BY DEF WebhookContext, ContextFields
  <1>3. d.network_category = obs.network_category
    BY DEF WebhookContext, ContextFields
  <1>4. d.npci_retry_remark = obs.npci_retry_remark
    BY DEF WebhookContext, ContextFields
  <1>5. d.max_posterior = p
    BY DEF WebhookContext, ContextFields
  <1>6. QED BY <1>1, <1>2, <1>3, <1>4, <1>5

LEMMA OtherCause ==
  ASSUME NEW c, DOMAIN c = ContextFields, NEW obs, NEW cause, NEW other
  PROVE  WebhookContext(c, obs, other) = [WebhookContext(c, obs, cause) EXCEPT !.cause = other]
  BY DEF WebhookContext, ContextFields

\* Two causes of a class are one to the policy.
LEMMA SameInput ==
  ASSUME NEW a, DOMAIN a = ContextFields, NEW cause \in CAUSES,
         cause_class(cause) = cause_class(a.cause), NEW t
  PROVE  build_policy_input([a EXCEPT !.cause = cause], t) = build_policy_input(a, t)
  <1> DEFINE b == [a EXCEPT !.cause = cause]
             Sent(x, f) == CASE f = "cause_class" -> cause_class(x.cause)
                             [] f = "tier" -> t
                             [] f = "max_posterior" -> prob_str(x.max_posterior)
                             [] OTHER -> x[f]
             Fields(x) == (DOMAIN x \ {"cause"}) \union {"cause_class", "tier"}
  <1>1. DOMAIN b = DOMAIN a /\ b.cause = cause /\ \A f \in DOMAIN a \ {"cause"} : b[f] = a[f]
    BY DEF ContextFields
  <1>2. b.max_posterior = a.max_posterior
    BY <1>1 DEF ContextFields
  <1>3. Fields(a) = Fields(b)
    BY <1>1
  <1>4. ASSUME NEW f \in Fields(a) PROVE Sent(b, f) = Sent(a, f)
    <2> HIDE DEF b
    <2>1. CASE f \in {"cause_class", "tier", "max_posterior"}
      BY <1>1, <1>2, <2>1
    <2>2. CASE f \notin {"cause_class", "tier", "max_posterior"}
      <3>1. b[f] = a[f]
        BY <1>1, <2>2
      <3>2. QED BY <3>1, <2>2
    <2>3. QED BY <2>1, <2>2
  <1>5. /\ build_policy_input(a, t) = [f \in Fields(a) |-> Sent(a, f)]
        /\ build_policy_input(b, t) = [f \in Fields(b) |-> Sent(b, f)]
    BY DEF build_policy_input
  <1>6. build_policy_input(b, t) = build_policy_input(a, t)
    <2> HIDE DEF b, Sent, Fields
    <2>1. [f \in Fields(a) |-> Sent(b, f)] = [f \in Fields(a) |-> Sent(a, f)]
      BY <1>4
    <2>2. QED BY <1>3, <1>5, <2>1
  <1>7. QED BY <1>6

\* When the policy forbids every action, soft causes select alike.
LEMMA SameTier ==
  ASSUME NEW exempt \in BOOLEAN, NEW a, DOMAIN a = ContextFields, NEW cause \in CAUSES,
         cause_class(cause) = cause_class(a.cause),
         \A t \in ACTIONABLE_TIERS : ~allow(exempt, build_policy_input(a, t))
  PROVE  TierOf(exempt, a) = TierOf(exempt, [a EXCEPT !.cause = cause])
  <1> DEFINE b == [a EXCEPT !.cause = cause]
             Legal(x) == {t \in Range(QUERIED_TIERS) : allow(exempt, build_policy_input(x, t))}
  <1>1. b.cause = cause
    BY DEF ContextFields
  <1>2. Legal(b) = Legal(a)
    BY SameInput
  <1>3. proposed_tiers_for(a.cause) \intersect Legal(a) = {}
    BY DEF proposed_tiers_for
  <1>4. proposed_tiers_for(cause) \intersect Legal(a) = {}
    BY DEF proposed_tiers_for
  <1>5. /\ TierOf(exempt, a) = SelectTier(a.cause, Legal(a))
        /\ TierOf(exempt, b) = SelectTier(cause, Legal(a))
    BY <1>1, <1>2 DEF TierOf
  <1>6. TierOf(exempt, a) = TierOf(exempt, b)
    <2> HIDE DEF b, Legal
    <2>1. QED BY <1>3, <1>4, <1>5 DEF SelectTier
  <1>7. QED BY <1>6

\* What the rules that look at a code, or at the posterior, make of it.
LEMMA Forbidden ==
  ASSUME NEW exempt \in BOOLEAN, NEW a, DOMAIN a = ContextFields,
         \/ a.network_category = 1
         \/ a.npci_retry_remark = "do_not_reinitiate"
         \/ prob_str(a.max_posterior) < config.confidence_floor,
         NEW t \in ACTIONABLE_TIERS
  PROVE  ~allow(exempt, build_policy_input(a, t))
  <1> DEFINE input == build_policy_input(a, t)
  <1>1. /\ input.tier = t
        /\ input.max_posterior = prob_str(a.max_posterior)
        /\ input.network_category = a.network_category
        /\ input.npci_retry_remark = a.npci_retry_remark
    BY DEF build_policy_input, ContextFields
  <1> HIDE DEF input
  <1>2. rule_fired(input) # {}
    <2>1. CASE a.network_category = 1
      BY <1>1, <2>1 DEF rule_fired, If
    <2>2. CASE a.npci_retry_remark = "do_not_reinitiate"
      BY <1>1, <2>2 DEF rule_fired, If
    <2>3. CASE prob_str(a.max_posterior) < config.confidence_floor
      BY <1>1, <2>3 DEF rule_fired, If, ACTIONABLE_TIERS
    <2>4. QED BY <2>1, <2>2, <2>3
  <1>3. t # "T4"
    BY DEF ACTIONABLE_TIERS
  <1>4. QED BY <1>1, <1>2, <1>3 DEF allow, deny_reason, input

\* Nothing is asked of the rest of the decline.
LEMMA CodesAreEvidenceForAll ==
  ASSUME \A c \in CAUSES : 10000 * priors[c] < config.confidence_floor,
         NEW c \in DeclineContext
  PROVE  CodesAreEvidence(c)
  <1> SUFFICES ASSUME NEW entry \in _RAZORPAY, NEW rail \in Rails
               PROVE  LET obs == normalise_razorpay(entry, rail)
                          best == attributed_cause(rail, obs.symbol)
                      IN  /\ rail # "netbanking" /\ obs.symbol # UNKNOWN_SYMBOL =>
                               /\ symbol_is_known(rail, obs.symbol)
                               /\ obs.cause_hint # "none" =>
                                    Weight(rail, obs.symbol, obs.cause_hint) > 0
                          /\ obs.cause_hint # "none" => \A exempt \in BOOLEAN :
                               TierOf(exempt, WebhookContext(c, obs, best))
                                 = TierOf(exempt, WebhookContext(c, obs, obs.cause_hint))
    BY DEF CodesAreEvidence
  <1> DEFINE obs == normalise_razorpay(entry, rail)
             hint == obs.cause_hint
             best == attributed_cause(rail, obs.symbol)
             taken == WebhookContext(c, obs, best)
  <1>1. /\ rail # "netbanking" /\ obs.symbol # UNKNOWN_SYMBOL =>
             /\ symbol_is_known(rail, obs.symbol)
             /\ hint # "none" => Weight(rail, obs.symbol, hint) > 0
    BY KnownCodes
  <1>2. ASSUME hint # "none", hint # best, NEW exempt \in BOOLEAN
        PROVE  TierOf(exempt, taken) = TierOf(exempt, WebhookContext(c, obs, hint))
    <2>1. /\ hint \in CAUSES /\ cause_class(hint) = "soft" /\ obs.symbol # UNKNOWN_SYMBOL
          /\ obs.rail = rail
      <3>1. obs.rail = rail /\ hint = entry.cause /\ obs.symbol \in {entry.card, entry.upi}
        BY DEF normalise_razorpay
      <3>2. entry.cause # "none" =>
              /\ entry.card # UNKNOWN_SYMBOL /\ entry.upi # UNKNOWN_SYMBOL
              /\ entry.cause \in CAUSES \ HardCauses
        BY DEF _RAZORPAY, Entry, UNKNOWN_SYMBOL, CAUSES, NotRetryable, HardCauses
      <3>3. QED BY <1>2, <3>1, <3>2 DEF cause_class
    <2>2. /\ DOMAIN taken = ContextFields /\ taken.cause = best
          /\ taken.network_category = obs.network_category
          /\ taken.npci_retry_remark = obs.npci_retry_remark
          /\ taken.max_posterior = posterior(rail, obs.symbol, best)
          /\ WebhookContext(c, obs, hint) = [taken EXCEPT !.cause = hint]
      <3>1. DOMAIN c = ContextFields
        BY DEF DeclineContext, ContextFields
      <3>2. QED BY <2>1, <3>1, WebhookDecline, OtherCause
    <2>3. /\ cause_class(best) = "soft"
          /\ \/ obs.network_category = 1
             \/ obs.npci_retry_remark = "do_not_reinitiate"
             \/ prob_str(posterior(rail, obs.symbol, best)) < config.confidence_floor
      <3>1. CASE rail = "netbanking"
        <4>1. best = "INSUFFICIENT_FUNDS"
          BY <3>1, PriorsDecide
        <4>2. prob_str(posterior(rail, obs.symbol, best)) = 10000 * priors["INSUFFICIENT_FUNDS"]
          BY <3>1, <4>1, PriorsDecide
        <4>3. best \in CAUSES \ HardCauses
          BY <4>1 DEF CAUSES, HardCauses
        <4> HIDE DEF best
        <4>4. QED BY <4>1, <4>2, <4>3 DEF cause_class
      <3>2. CASE rail # "netbanking"
        <4>1. Overruled(obs)
          BY <1>2, <2>1, <3>2, KnownCodes
        <4>2. QED BY <2>1, <4>1 DEF Overruled, cause_class, HardCauses
      <3>3. QED BY <3>1, <3>2
    <2>4. QED BY <2>1, <2>2, <2>3, Forbidden, SameTier
  <1>3. QED BY <1>1, <1>2

\* No code of a webhook is judged without evidence, and where the taxonomy
\* overrules the processor's hint nothing is lost.  On the rail without
\* emissions that is because the confidence floor is above every prior, as the
\* committed one is.
THEOREM CodesAlwaysEvidence ==
  ASSUME \A c \in CAUSES : 10000 * priors[c] < config.confidence_floor
  PROVE  Spec => []WebhookCodesAreEvidence
  <1>1. IInv => WebhookCodesAreEvidence
    BY ContextsAssumption, CodesAreEvidenceForAll DEF IInv, WebhookCodesAreEvidence
  <1>2. QED BY <1>1, Invariance, PTL
=============================================================================
