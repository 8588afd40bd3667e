--------------------------- MODULE BatchRunProofs ---------------------------
(***************************************************************************)
(* Theorems about BatchRun for every batch, every number of runs and any   *)
(* plans, whenever OPA is gone and wherever a run dies.                    *)
(*                                                                         *)
(* Three arguments carry them.  A row is never changed, and a row names    *)
(* only rows before it, so what was true of it when it was appended stays  *)
(* true.  The times a key's counter holds are, as a bag, the times of the  *)
(* run's ACTUATION rows that count against that key.  And the n-th outcome *)
(* of a run is of the n-th decline, so that sums over a run's rows are     *)
(* sums over the batch; for the estimates of two runs the rest is algebra. *)
(*                                                                         *)
(* The last two sections are about no run: the counters alone, and the     *)
(* batch size a power curve recommends.                                    *)
(***************************************************************************)
EXTENDS Ablation, PowerCurve, OperatorLemmas

Keys == UNION {CounterKeys(x) : x \in Range(Batch)}

TypeInv ==
  /\ ledger \in Seq(Elements(ledger))
  /\ run \in 0..MaxRuns
  /\ \A k \in 1..Len(ledger) : ledger[k].run \in 1..run
  /\ plan \in Plans
  /\ results \in Seq(Elements(results)) /\ Len(results) = run
  /\ i \in 1..Len(Batch)
  /\ pc \in {"decide", "act", "outcome", "estimate", "ended"}
  /\ pc # "ended" => run > 0
  /\ ladder \in [tier : {"none", "T0", "T1", "T2", "T3", "T4"}, verdict : BOOLEAN]
  /\ seq \in 0..Len(ledger)
  /\ events \in [Keys -> Seq(Nat)]

\* The attempts of a run on a BIN among the first n rows, in the hour to ts.
EarlierAttempts(n, r, bin, ts) ==
  {j \in Seqs("ACTUATION") : /\ j < n /\ ledger[j].run = r /\ ledger[j].bin = bin
                             /\ ledger[j].ts \in (ts - WINDOW_1H)..ts}

\* Between its DECISION row and its OUTCOME row, the iteration's locals are what
\* is in the ledger.
IterationInv ==
  pc \in {"act", "outcome"} =>
    /\ seq \in Seqs("DECISION")
    /\ ledger[seq].payment_id = d.payment_id
    /\ ledger[seq].run = run
    /\ ledger[seq].ts = d.ts
    /\ ledger[seq].arm = arm
    /\ ledger[seq].tier = ladder.tier
    /\ ledger[seq].opa_allow = ladder.verdict
    /\ ladder.tier \in ACTIONABLE_TIERS =>
         ladder.verdict /\ Cardinality(EarlierAttempts(seq, run, d.bin, d.ts)) < config.bin_hourly_cap
    /\ IF pc = "outcome" /\ take_action
       THEN /\ Len(ledger) = seq + 1 /\ ledger[seq + 1].entry_type = "ACTUATION"
            /\ ledger[seq + 1].decision_seq = seq
       ELSE Len(ledger) = seq

\* What is true of an ACTUATION row, once and for all ...
ActuationAt(k) ==
  LET a == ledger[k]
      s == a.decision_seq
  IN  /\ a.executed = TRUE /\ a.ts \in Nat /\ a.tier \in ACTIONABLE_TIERS
      /\ s \in Seqs("DECISION") /\ s < k
      /\ ledger[s].payment_id = a.payment_id /\ ledger[s].run = a.run
      /\ ledger[s].tier = a.tier /\ ledger[s].opa_allow /\ ledger[s].arm = "treatment"
      /\ \A j \in Seqs("ACTUATION") : ledger[j].decision_seq = s => j = k
      /\ Cardinality(EarlierAttempts(k, a.run, a.bin, ledger[s].ts)) < config.bin_hourly_cap

\* ... and of an OUTCOME row.
OutcomeAt(k) ==
  LET o == ledger[k]
      s == o.decision_seq
      acted == \E a \in Seqs("ACTUATION") : ledger[a].decision_seq = s /\ a < k
  IN  /\ s \in Seqs("DECISION") /\ s < k
      /\ ledger[s].payment_id = o.payment_id
      /\ \A j \in Seqs("OUTCOME") : ledger[j].decision_seq = s => j = k
      /\ o.outcome_source = "actuated" => acted
      /\ o.outcome_source = "natural" => ~acted

RowsInv ==
  /\ \A k \in Seqs("ACTUATION") : ActuationAt(k)
  /\ \A k \in Seqs("OUTCOME") : OutcomeAt(k)

\* Which counters an actuation counts against.
CountsAgainst(row, key) ==
  \/ key = <<"cust", row.customer_id>>
  \/ key = <<"pay", row.payment_id>>
  \/ key = <<"bin", row.bin>>
  \/ key = <<"nudge", row.customer_id>> /\ row.tier = "T3"

Counted(key, T) ==
  {k \in Seqs("ACTUATION") : /\ ledger[k].run = run /\ CountsAgainst(ledger[k], key)
                             /\ ledger[k].ts \in T}

CounterInv ==
  \A key \in Keys :
    /\ Sorted(events[key])
    /\ \A T \in SUBSET Int : Cardinality(At(events[key], T)) = Cardinality(Counted(key, T))

IInv ==
  /\ TypeInv
  /\ IterationInv
  /\ RowsInv
  /\ CounterInv

-----------------------------------------------------------------------------
\* The declines, and what is computed from one.
LEMMA Declines ==
  /\ Len(Batch) \in Nat /\ Len(Batch) >= 1
  /\ \A n \in 1..Len(Batch) :
       /\ Batch[n] \in SyntheticDecline
       /\ CounterKeys(Batch[n]) \subseteq Keys
  <1>1. Batch \in Seq(SyntheticDecline) /\ Batch # <<>>
    BY BatchAssumption
  <1>2. Len(Batch) \in Nat /\ Len(Batch) >= 1
    BY <1>1, LenProperties, EmptySeq
  <1>3. ASSUME NEW n \in 1..Len(Batch)
        PROVE  Batch[n] \in SyntheticDecline /\ CounterKeys(Batch[n]) \subseteq Keys
    <2>1. Batch[n] \in SyntheticDecline
      BY <1>1, ElementOfSeq
    <2>2. Batch[n] \in Range(Batch)
      BY <1>1, LenProperties DEF Range
    <2>3. QED BY <2>1, <2>2 DEF Keys
  <1>4. QED BY <1>2, <1>3

LEMMA DeclineInHand ==
  ASSUME TypeInv
  PROVE  /\ d \in SyntheticDecline /\ CounterKeys(d) \subseteq Keys
         /\ attributed \in [cause : CAUSES, max_posterior : Nat]
  <1>1. d \in SyntheticDecline /\ CounterKeys(d) \subseteq Keys
    BY Declines DEF TypeInv, d
  <1>2. /\ plan.posteriors \in [1..Len(Batch) -> [cause : CAUSES, max_posterior : Nat]]
        /\ i \in 1..Len(Batch)
    BY BatchAssumption DEF TypeInv
  <1>3. attributed \in [cause : CAUSES, max_posterior : Nat]
    BY <1>2 DEF attributed
  <1>4. QED BY <1>1, <1>3

LEMMA ContextFields ==
  ASSUME NEW x \in SyntheticDecline, NEW q \in [cause : CAUSES, max_posterior : Nat], NEW ev
  PROVE  LET c == Context(x, q, ev)
         IN  /\ c.attempts_30d = count(ev, <<"cust", x.customer_id>>, x.ts, WINDOW_30D)
             /\ c.attempts_this_payment = total(ev, <<"pay", x.payment_id>>)
             /\ c.bin_attempts_1h = count(ev, <<"bin", x.bin>>, x.ts, WINDOW_1H)
             /\ c.customer_nudges_7d = count(ev, <<"nudge", x.customer_id>>, x.ts, WINDOW_7D)
             /\ "bin_attempts_1h" \in DOMAIN c
  BY DEF Context, SyntheticDecline

\* The policy allows no retry, route or nudge at the BIN's cap.
LEMMA AllowedBelowCap ==
  ASSUME NEW c, "bin_attempts_1h" \in DOMAIN c, c.bin_attempts_1h \in Nat,
         NEW t \in ACTIONABLE_TIERS, t \in AllowedBy(c)
  PROVE  c.bin_attempts_1h < config.bin_hourly_cap
  <1> DEFINE input == build_policy_input(c, t)
  <1>1. input.bin_attempts_1h = c.bin_attempts_1h /\ input.tier = t
    BY DEF build_policy_input
  <1>2. allow(TRUE, input)
    BY DEF AllowedBy
  <1> HIDE DEF input
  <1>3. rule_fired(input) = {}
    BY <1>1, <1>2 DEF allow, deny_reason, ACTIONABLE_TIERS
  <1>4. If(input.bin_attempts_1h >= config.bin_hourly_cap, "bin_velocity") \subseteq rule_fired(input)
    BY DEF rule_fired
  <1>5. config.bin_hourly_cap \in Nat
    BY ConfigAssumption
  <1>6. QED BY <1>1, <1>3, <1>4, <1>5 DEF If

\* The ladder selects an action only among those the policy allows.
LEMMA Selection ==
  ASSUME NEW cause, NEW allowed
  PROVE  LET tier == SelectTier(cause, allowed)
         IN  /\ tier \in {"T0", "T1", "T2", "T3", "T4"}
             /\ tier \in ACTIONABLE_TIERS => tier \in allowed
  <1> DEFINE permitted == proposed_tiers_for(cause) \intersect allowed
             Best(t) == \A s \in permitted \ {t} : Prefers(cause, t, s)
  <1>1. permitted \subseteq {"T1", "T2", "T3"}
    BY DEF proposed_tiers_for, ACTIONABLE_TIERS
  <1>2. IndexOf("T1") = 1 /\ IndexOf("T2") = 2 /\ IndexOf("T3") = 3
    BY DEF IndexOf, QUERIED_TIERS
  <1>3. CASE permitted # {}
    <2>1. \E t \in permitted : Best(t)
      <3>1. CASE default_tier(cause) \in permitted
        BY <3>1 DEF Prefers
      <3>2. CASE default_tier(cause) \notin permitted
        <4>1. \A s, t \in permitted : IndexOf(s) < IndexOf(t) => Prefers(cause, s, t)
          BY <3>2 DEF Prefers
        <4>2. CASE "T1" \in permitted
          BY <1>1, <1>2, <4>1, <4>2
        <4>3. CASE "T1" \notin permitted /\ "T2" \in permitted
          BY <1>1, <1>2, <4>1, <4>3
        <4>4. CASE "T1" \notin permitted /\ "T2" \notin permitted
          BY <1>1, <1>3, <4>4
        <4>5. QED BY <4>2, <4>3, <4>4
      <3>3. QED BY <3>1, <3>2
    <2>2. SelectTier(cause, allowed) = CHOOSE t \in permitted : Best(t)
      BY <1>3 DEF SelectTier
    <2>3. SelectTier(cause, allowed) \in permitted
      <3> HIDE DEF Best, permitted
      <3> QED BY <2>1, <2>2
    <2>4. QED BY <1>1, <2>3
  <1>4. CASE permitted = {}
    BY <1>4 DEF SelectTier, ACTIONABLE_TIERS
  <1>5. QED BY <1>3, <1>4

-----------------------------------------------------------------------------
\* The ledger grows.
LEMMA Growth ==
  ASSUME TypeInv, NEW row, ledger' = Append(ledger, row)
  PROVE  /\ ledger' \in Seq(Elements(ledger'))
         /\ Len(ledger) \in Nat /\ Len(ledger') = Len(ledger) + 1
         /\ \A k \in 1..Len(ledger) : ledger'[k] = ledger[k]
         /\ ledger'[Len(ledger) + 1] = row
         /\ \A type : Seqs(type)' = Seqs(type) \union
                        (IF row.entry_type = type THEN {Len(ledger) + 1} ELSE {})
  <1>1. /\ ledger' \in Seq(Elements(ledger'))
        /\ Len(ledger) \in Nat /\ Len(ledger') = Len(ledger) + 1
        /\ \A k \in 1..Len(ledger) : ledger'[k] = ledger[k]
        /\ ledger'[Len(ledger) + 1] = row
    BY AppendAnything DEF TypeInv
  <1>2. ASSUME NEW type
        PROVE  Seqs(type)' = Seqs(type) \union
                 (IF row.entry_type = type THEN {Len(ledger) + 1} ELSE {})
    <2>1. 1..Len(ledger') = (1..Len(ledger)) \union {Len(ledger) + 1}
      BY <1>1
    <2>2. QED BY <1>1, <2>1 DEF Seqs
  <1>3. QED BY <1>1, <1>2

\* What was earlier stays what was earlier.
LEMMA EarlierAttemptsKept ==
  ASSUME TypeInv, NEW row, ledger' = Append(ledger, row), NEW n \in 1..(Len(ledger) + 1),
         NEW r, NEW bin, NEW ts
  PROVE  EarlierAttempts(n, r, bin, ts)' = EarlierAttempts(n, r, bin, ts)
  <1>1. /\ Len(ledger) \in Nat
        /\ \A k \in 1..Len(ledger) : ledger'[k] = ledger[k]
        /\ Seqs("ACTUATION")' = Seqs("ACTUATION") \union
             (IF row.entry_type = "ACTUATION" THEN {Len(ledger) + 1} ELSE {})
    BY Growth
  <1>2. Seqs("ACTUATION") \subseteq 1..Len(ledger)
    BY DEF Seqs
  <1>3. \A j \in Seqs("ACTUATION")' : j < n => j \in Seqs("ACTUATION") /\ ledger'[j] = ledger[j]
    BY <1>1, <1>2
  <1>4. \A j \in Seqs("ACTUATION") : j \in Seqs("ACTUATION")' /\ ledger'[j] = ledger[j]
    BY <1>1, <1>2
  <1>5. QED BY <1>3, <1>4 DEF EarlierAttempts

\* What is true of an actuation or of an outcome stays true, unless the new row
\* is another one of the same decision.
LEMMA OldRowsKept ==
  ASSUME TypeInv, RowsInv, NEW row, ledger' = Append(ledger, row),
         row.entry_type \in {"ACTUATION", "OUTCOME"} =>
           \A k \in Seqs(row.entry_type) : ledger[k].decision_seq # row.decision_seq
  PROVE  /\ \A k \in Seqs("ACTUATION") : ActuationAt(k)'
         /\ \A k \in Seqs("OUTCOME") : OutcomeAt(k)'
  <1> DEFINE L == Len(ledger)
  <1>1. /\ L \in Nat /\ \A k \in 1..L : ledger'[k] = ledger[k]
        /\ ledger'[L + 1] = row
        /\ \A type : Seqs(type)' = Seqs(type) \union (IF row.entry_type = type THEN {L + 1} ELSE {})
    BY Growth
  <1>2. \A type : Seqs(type) \subseteq 1..L
    BY DEF Seqs
  <1> HIDE DEF L
  <1>3. ASSUME NEW k \in Seqs("ACTUATION") PROVE ActuationAt(k)'
    <2> DEFINE s == ledger[k].decision_seq
    <2>1. ActuationAt(k)
      BY DEF RowsInv
    <2>2. k \in 1..L /\ s \in 1..L /\ s \in Seqs("DECISION") /\ s \in Seqs("DECISION")'
      BY <1>1, <1>2, <2>1 DEF ActuationAt
    <2>3. ledger'[k] = ledger[k] /\ ledger'[s] = ledger[s]
      BY <1>1, <2>2
    <2>4. PICK r, bin, ts : r = ledger[k].run /\ bin = ledger[k].bin /\ ts = ledger[s].ts
      OBVIOUS
    <2>5. EarlierAttempts(k, r, bin, ts)' = EarlierAttempts(k, r, bin, ts)
      BY <2>2, EarlierAttemptsKept DEF L
    <2>6. Cardinality({j \in Seqs("ACTUATION")' :
             /\ j < k /\ ledger'[j].run = ledger'[k].run /\ ledger'[j].bin = ledger'[k].bin
             /\ ledger'[j].ts \in (ledger'[ledger'[k].decision_seq].ts - WINDOW_1H)
                                    ..ledger'[ledger'[k].decision_seq].ts}) < config.bin_hourly_cap
      <3>1. Cardinality(EarlierAttempts(k, r, bin, ts)) < config.bin_hourly_cap
        BY <2>1, <2>4 DEF ActuationAt
      <3>2. QED BY <2>3, <2>4, <2>5, <3>1 DEF EarlierAttempts
    <2>7. ASSUME NEW j \in Seqs("ACTUATION")', ledger'[j].decision_seq = s PROVE j = k
      <3>1. Seqs("ACTUATION")' = Seqs("ACTUATION") \union
              (IF row.entry_type = "ACTUATION" THEN {L + 1} ELSE {})
        BY <1>1
      <3>2. CASE j \in Seqs("ACTUATION")
        <4>1. ledger'[j] = ledger[j]
          BY <1>1, <1>2, <3>2
        <4>2. QED BY <2>1, <2>7, <3>2, <4>1 DEF ActuationAt
      <3>3. CASE j \notin Seqs("ACTUATION")
        <4>1. j = L + 1 /\ row.entry_type = "ACTUATION"
          BY <3>1, <3>3
        <4>2. row.decision_seq = s
          BY <1>1, <2>7, <4>1
        <4>3. ledger[k].decision_seq # row.decision_seq
          BY <4>1
        <4>4. QED BY <4>2, <4>3
      <3>4. QED BY <3>2, <3>3
    <2>8. QED BY <2>1, <2>2, <2>3, <2>6, <2>7 DEF ActuationAt, EarlierAttempts
  <1>4. ASSUME NEW k \in Seqs("OUTCOME") PROVE OutcomeAt(k)'
    <2> DEFINE s == ledger[k].decision_seq
    <2>1. OutcomeAt(k)
      BY DEF RowsInv
    <2>2. k \in 1..L /\ s \in 1..L /\ s \in Seqs("DECISION") /\ s \in Seqs("DECISION")'
      BY <1>1, <1>2, <2>1 DEF OutcomeAt
    <2>3. ledger'[k] = ledger[k] /\ ledger'[s] = ledger[s]
      BY <1>1, <2>2
    <2>4. /\ Seqs("OUTCOME")' = Seqs("OUTCOME") \union
               (IF row.entry_type = "OUTCOME" THEN {L + 1} ELSE {})
          /\ Seqs("ACTUATION")' = Seqs("ACTUATION") \union
               (IF row.entry_type = "ACTUATION" THEN {L + 1} ELSE {})
          /\ Seqs("OUTCOME") \subseteq 1..L /\ Seqs("ACTUATION") \subseteq 1..L
      BY <1>1, <1>2
    <2>5. \A j \in Seqs("OUTCOME")' : ledger'[j].decision_seq = s => j = k
      <3>1. ASSUME NEW j \in Seqs("OUTCOME")', ledger'[j].decision_seq = s PROVE j = k
        <4>1. j # L + 1
          <5>1. SUFFICES ASSUME j = L + 1 PROVE FALSE
            OBVIOUS
          <5>2. L + 1 \notin 1..L
            BY <1>1
          <5>3. row.entry_type = "OUTCOME"
            BY <2>4, <5>1, <5>2
          <5>4. row.decision_seq = s
            BY <1>1, <3>1, <5>1
          <5>5. QED BY <5>3, <5>4
        <4>2. j \in Seqs("OUTCOME") /\ ledger'[j] = ledger[j]
          BY <1>1, <2>4, <4>1
        <4>3. QED BY <2>1, <3>1, <4>2 DEF OutcomeAt
      <3>2. QED BY <3>1
    <2>6. (\E a \in Seqs("ACTUATION")' : ledger'[a].decision_seq = s /\ a < k)
            <=> (\E a \in Seqs("ACTUATION") : ledger[a].decision_seq = s /\ a < k)
      <3>1. \A a \in Seqs("ACTUATION")' : a < k => a \in Seqs("ACTUATION") /\ ledger'[a] = ledger[a]
        <4>1. ~(L + 1 < k)
          BY <1>1, <2>2
        <4>2. QED BY <1>1, <2>4, <4>1
      <3>2. \A a \in Seqs("ACTUATION") : a \in Seqs("ACTUATION")' /\ ledger'[a] = ledger[a]
        BY <1>1, <2>4
      <3>3. QED BY <3>1, <3>2
    <2>7. QED BY <2>1, <2>2, <2>3, <2>5, <2>6 DEF OutcomeAt
  <1>5. QED BY <1>3, <1>4

LEMMA RowsUnchanged ==
  ASSUME RowsInv, UNCHANGED ledger
  PROVE  RowsInv'
  <1>1. \A type : Seqs(type)' = Seqs(type)
    BY DEF Seqs
  <1>2. ASSUME NEW k \in Seqs("ACTUATION") PROVE ActuationAt(k)'
    <2>1. ActuationAt(k)
      BY DEF RowsInv
    <2>2. QED BY <1>1, <2>1 DEF ActuationAt, EarlierAttempts
  <1>3. ASSUME NEW k \in Seqs("OUTCOME") PROVE OutcomeAt(k)'
    <2>1. OutcomeAt(k)
      BY DEF RowsInv
    <2>2. QED BY <1>1, <2>1 DEF OutcomeAt
  <1>4. QED BY <1>1, <1>2, <1>3 DEF RowsInv

-----------------------------------------------------------------------------
\* The counters.

\* The counters are records of the actuations: a query of one in a window of
\* times finds what a query of the ledger does.
LEMMA CountIsCounted ==
  ASSUME TypeInv, CounterInv, NEW key \in Keys
  PROVE  /\ \A now \in Nat, window \in Nat :
              count(events, key, now, window) = Cardinality(Counted(key, (now - window)..now))
         /\ total(events, key) = Cardinality(Counted(key, Nat))
         /\ \A T : Cardinality(Counted(key, T)) \in Nat
  <1>1. /\ events[key] \in Seq(Nat) /\ Sorted(events[key])
        /\ \A T \in SUBSET Int : Cardinality(At(events[key], T)) = Cardinality(Counted(key, T))
    BY DEF TypeInv, CounterInv
  <1>2. ASSUME NEW now \in Nat, NEW window \in Nat
        PROVE  count(events, key, now, window) = Cardinality(Counted(key, (now - window)..now))
    <2>1. (now - window)..now \in SUBSET Int
      OBVIOUS
    <2>2. count(events, key, now, window) = Cardinality(At(events[key], (now - window)..now))
      BY <1>1, WindowIsExact DEF count
    <2>3. QED BY <1>1, <2>1, <2>2
  <1>3. total(events, key) = Cardinality(Counted(key, Nat))
    <2>1. Len(events[key]) \in Nat /\ \A n \in 1..Len(events[key]) : events[key][n] \in Nat
      BY <1>1, LenProperties, ElementOfSeq
    <2>2. At(events[key], Nat) = 1..Len(events[key])
      BY <2>1 DEF At
    <2>3. Cardinality(1..Len(events[key])) = Len(events[key])
      BY <2>1, FS_Interval
    <2>4. Nat \in SUBSET Int
      OBVIOUS
    <2>5. QED BY <1>1, <2>2, <2>3, <2>4 DEF total
  <1>4. ASSUME NEW T PROVE Cardinality(Counted(key, T)) \in Nat
    <2>1. Len(ledger) \in Nat
      BY LenProperties DEF TypeInv
    <2>2. Counted(key, T) \subseteq 1..Len(ledger)
      BY DEF Counted, Seqs
    <2>3. IsFiniteSet(1..Len(ledger))
      BY <2>1, FS_Interval
    <2>4. IsFiniteSet(Counted(key, T))
      BY <2>2, <2>3, FS_Subset
    <2>5. QED BY <2>4, FS_CardinalityType
  <1>5. QED BY <1>2, <1>3, <1>4

\* No other row counts.
LEMMA OthersDoNotCount ==
  ASSUME TypeInv, CounterInv, NEW row, ledger' = Append(ledger, row),
         row.entry_type # "ACTUATION", UNCHANGED <<run, events>>
  PROVE  CounterInv'
  <1>1. ASSUME NEW key, NEW T PROVE Counted(key, T)' = Counted(key, T)
    <2>1. /\ Seqs("ACTUATION")' = Seqs("ACTUATION")
          /\ \A k \in 1..Len(ledger) : ledger'[k] = ledger[k]
      <3>1. Seqs("ACTUATION")' = Seqs("ACTUATION") \union
              (IF row.entry_type = "ACTUATION" THEN {Len(ledger) + 1} ELSE {})
        BY Growth
      <3>2. \A k \in 1..Len(ledger) : ledger'[k] = ledger[k]
        BY Growth
      <3>3. QED BY <3>1, <3>2
    <2>2. Seqs("ACTUATION") \subseteq 1..Len(ledger)
      BY DEF Seqs
    <2>3. \A k \in Seqs("ACTUATION") : ledger'[k] = ledger[k]
      BY <2>1, <2>2
    <2>4. QED BY <2>1, <2>3 DEF Counted, CountsAgainst
  <1>2. QED BY <1>1 DEF CounterInv

\* record() is called for exactly the keys the row counts against.
LEMMA RecordedKeys ==
  ASSUME TypeInv, CounterInv, NEW key \in Keys
  PROVE  /\ Recorded(events) \in [Keys -> Seq(Nat)]
         /\ Recorded(events)[key] =
              IF CountsAgainst(ActuationRow, key) THEN insort(events[key], Fired(d))
              ELSE events[key]
  <1> DEFINE ts == Fired(d)
             cust == <<"cust", d.customer_id>>
             pay == <<"pay", d.payment_id>>
             bin == <<"bin", d.bin>>
             nudge == <<"nudge", d.customer_id>>
  <1>1. {cust, pay, bin, nudge} \subseteq Keys
    BY DeclineInHand DEF CounterKeys
  <1>2. /\ cust # pay /\ cust # bin /\ cust # nudge
        /\ pay # bin /\ pay # nudge /\ bin # nudge
    OBVIOUS
  <1>3. CountsAgainst(ActuationRow, key) <=>
          \/ key \in {cust, pay, bin}
          \/ key = nudge /\ ladder.tier = "T3"
    <2>1. /\ ActuationRow.customer_id = d.customer_id /\ ActuationRow.payment_id = d.payment_id
          /\ ActuationRow.bin = d.bin /\ ActuationRow.tier = ladder.tier
      BY DEF ActuationRow
    <2>2. CountsAgainst(ActuationRow, key) <=>
            \/ key \in {cust, pay, bin}
            \/ key = nudge /\ ladder.tier = "T3"
      BY <2>1 DEF CountsAgainst
    <2>3. QED BY <2>2
  <1> HIDE DEF cust, pay, bin, nudge
  <1> DEFINE e1 == record(events, cust, ts)
             e2 == record(e1, pay, ts)
             e3 == record(e2, bin, ts)
             e4 == record(e3, nudge, ts)
  <1>4. Recorded(events) = IF ladder.tier = "T3" THEN e4 ELSE e3
    BY DEF Recorded, cust, pay, bin, nudge
  <1>5. ts \in Nat
    BY DeclineInHand DEF Fired, RETRY_DELAY, SyntheticDecline
  <1> HIDE DEF ts
  <1>6. /\ events \in [Keys -> Seq(Nat)]
        /\ \A k \in Keys : insort(events[k], ts) \in Seq(Nat)
    <2>1. ASSUME NEW k \in Keys PROVE insort(events[k], ts) \in Seq(Nat)
      BY <1>5, InsortProperties DEF TypeInv, CounterInv
    <2>2. QED BY <2>1 DEF TypeInv
  <1>7. /\ e1 \in [Keys -> Seq(Nat)]
        /\ \A k \in Keys : e1[k] = IF k = cust THEN insort(events[k], ts) ELSE events[k]
    BY <1>1, <1>6 DEF record
  <1> HIDE DEF e1
  <1>8. /\ e2 \in [Keys -> Seq(Nat)]
        /\ \A k \in Keys : e2[k] = IF k \in {cust, pay} THEN insort(events[k], ts) ELSE events[k]
    BY <1>1, <1>2, <1>6, <1>7 DEF record
  <1> HIDE DEF e2
  <1>9. /\ e3 \in [Keys -> Seq(Nat)]
        /\ \A k \in Keys : e3[k] = IF k \in {cust, pay, bin} THEN insort(events[k], ts) ELSE events[k]
    BY <1>1, <1>2, <1>6, <1>8 DEF record
  <1> HIDE DEF e3
  <1>10. /\ e4 \in [Keys -> Seq(Nat)]
         /\ \A k \in Keys : e4[k] = IF k \in {cust, pay, bin, nudge} THEN insort(events[k], ts)
                                    ELSE events[k]
    BY <1>1, <1>2, <1>6, <1>9 DEF record
  <1> HIDE DEF e4
  <1>11. CASE ladder.tier = "T3"
    BY <1>3, <1>4, <1>10, <1>11 DEF ts
  <1>12. CASE ladder.tier # "T3"
    BY <1>3, <1>4, <1>9, <1>12 DEF ts
  <1>13. QED BY <1>11, <1>12

LEMMA KeyColumns ==
  ASSUME NEW row, NEW v
  PROVE  /\ CountsAgainst(row, <<"cust", v>>) <=> row.customer_id = v
         /\ CountsAgainst(row, <<"pay", v>>) <=> row.payment_id = v
         /\ CountsAgainst(row, <<"bin", v>>) <=> row.bin = v
         /\ CountsAgainst(row, <<"nudge", v>>) <=> row.customer_id = v /\ row.tier = "T3"
  BY DEF CountsAgainst

\* The ACTUATION row and the record() calls keep the two in step.
LEMMA ActuationCounts ==
  ASSUME TypeInv, CounterInv, ledger' = Append(ledger, ActuationRow),
         events' = Recorded(events), UNCHANGED run
  PROVE  CounterInv'
  <1> DEFINE L == Len(ledger)
             ts == Fired(d)
  <1>1. /\ L \in Nat /\ \A k \in 1..L : ledger'[k] = ledger[k]
        /\ ledger'[L + 1] = ActuationRow
        /\ Seqs("ACTUATION")' = Seqs("ACTUATION") \union {L + 1}
    <2>1. ActuationRow.entry_type = "ACTUATION"
      BY DEF ActuationRow
    <2> HIDE DEF ActuationRow
    <2>2. /\ L \in Nat /\ \A k \in 1..L : ledger'[k] = ledger[k]
          /\ ledger'[L + 1] = ActuationRow
          /\ \A type : Seqs(type)' = Seqs(type) \union
                         (IF ActuationRow.entry_type = type THEN {L + 1} ELSE {})
      BY Growth
    <2>3. QED BY <2>1, <2>2
  <1>2. Seqs("ACTUATION") \subseteq 1..L /\ L + 1 \notin 1..L
    BY <1>1 DEF Seqs
  <1>3. ts \in Nat /\ ActuationRow.ts = ts /\ ActuationRow.run = run
    BY DeclineInHand DEF Fired, RETRY_DELAY, SyntheticDecline, ActuationRow
  <1> HIDE DEF L, ts, ActuationRow
  <1>4. ASSUME NEW key \in Keys
        PROVE  /\ Sorted(events'[key])
               /\ \A T \in SUBSET Int : Cardinality(At(events'[key], T)) = Cardinality(Counted(key, T)')
    <2>1. /\ events[key] \in Seq(Nat) /\ Sorted(events[key])
          /\ \A T \in SUBSET Int : Cardinality(At(events[key], T)) = Cardinality(Counted(key, T))
      BY DEF TypeInv, CounterInv
    <2>2. events'[key] = IF CountsAgainst(ActuationRow, key) THEN insort(events[key], ts)
                         ELSE events[key]
      BY RecordedKeys DEF ts
    <2>3. Sorted(events'[key])
      BY <1>3, <2>1, <2>2, InsortProperties
    <2>4. ASSUME NEW T \in SUBSET Int
          PROVE  Cardinality(At(events'[key], T)) = Cardinality(Counted(key, T)')
      <3> DEFINE new == IF CountsAgainst(ActuationRow, key) /\ ts \in T THEN {L + 1} ELSE {}
      <3>1. Counted(key, T)' = Counted(key, T) \union new
        <4>1. \A k \in Seqs("ACTUATION") : ledger'[k] = ledger[k]
          BY <1>1, <1>2
        <4>2. \A k \in Seqs("ACTUATION") : k \in Counted(key, T)' <=> k \in Counted(key, T)
          BY <1>1, <4>1 DEF Counted, CountsAgainst
        <4>3. L + 1 \in Counted(key, T)' <=> CountsAgainst(ActuationRow, key) /\ ts \in T
          BY <1>1, <1>3 DEF Counted, CountsAgainst
        <4>4. Counted(key, T)' \subseteq Seqs("ACTUATION") \union {L + 1}
          BY <1>1 DEF Counted
        <4>5. Counted(key, T) \subseteq Seqs("ACTUATION")
          BY DEF Counted
        <4>6. QED BY <4>2, <4>3, <4>4, <4>5
      <3>2. /\ L + 1 \notin Counted(key, T)
            /\ IsFiniteSet(Counted(key, T)) /\ Cardinality(Counted(key, T)) \in Nat
        <4>1. Counted(key, T) \subseteq 1..L
          BY <1>2 DEF Counted
        <4>2. IsFiniteSet(1..L)
          BY <1>1, FS_Interval
        <4>3. IsFiniteSet(Counted(key, T))
          BY <4>1, <4>2, FS_Subset
        <4>4. QED BY <1>2, <4>1, <4>3, FS_CardinalityType
      <3>3. Cardinality(At(events[key], T)) = Cardinality(Counted(key, T))
        BY <2>1
      <3>4. CASE CountsAgainst(ActuationRow, key)
        <4>1. Cardinality(At(events'[key], T)) =
                Cardinality(At(events[key], T)) + (IF ts \in T THEN 1 ELSE 0)
          BY <1>3, <2>1, <2>2, <3>4, InsortCounts
        <4>2. CASE ts \in T
          <5>1. Cardinality(Counted(key, T) \union {L + 1}) = Cardinality(Counted(key, T)) + 1
            BY <3>2, FS_AddElement
          <5>2. QED BY <3>1, <3>3, <3>4, <4>1, <4>2, <5>1
        <4>3. CASE ts \notin T
          <5>1. Counted(key, T)' = Counted(key, T)
            BY <3>1, <4>3
          <5>2. QED BY <3>2, <3>3, <4>1, <4>3, <5>1
        <4>4. QED BY <4>2, <4>3
      <3>5. CASE ~CountsAgainst(ActuationRow, key)
        <4>1. Counted(key, T)' = Counted(key, T)
          BY <3>1, <3>5
        <4>2. QED BY <2>2, <3>3, <3>5, <4>1
      <3>6. QED BY <3>4, <3>5
    <2>5. QED BY <2>3, <2>4
  <1>5. QED BY <1>4 DEF CounterInv

\* New counters are right as long as the run has no rows.
LEMMA NothingCounted ==
  ASSUME events = NoEvents, \A k \in Seqs("ACTUATION") : ledger[k].run # run
  PROVE  CounterInv
  <1>1. ASSUME NEW key \in Keys PROVE events[key] = <<>>
    BY DEF NoEvents, Keys
  <1>2. ASSUME NEW key \in Keys, NEW T
        PROVE  At(events[key], T) = {} /\ Counted(key, T) = {}
    BY <1>1 DEF At, Counted
  <1>3. ASSUME NEW key \in Keys PROVE Sorted(events[key])
    BY <1>1 DEF Sorted
  <1>4. QED BY <1>2, <1>3 DEF CounterInv

-----------------------------------------------------------------------------
\* The inductive invariant.
LEMMA InvInit == Init => IInv
  <1> SUFFICES ASSUME Init PROVE IInv
    OBVIOUS
  <1>1. ledger = <<>> /\ Len(ledger) = 0 /\ \A type : Seqs(type) = {}
    BY DEF Init, Seqs
  <1>2. TypeInv
    <2>1. plan \in Plans
      BY BatchAssumption DEF Init
    <2>2. events \in [Keys -> Seq(Nat)]
      BY DEF Init, NoEvents, Keys
    <2>3. MaxRuns \in Nat
      BY BatchAssumption
    <2>4. QED BY <1>1, <2>1, <2>2, <2>3, Declines DEF Init, TypeInv, NoLadder
  <1>3. CounterInv
    BY <1>1, NothingCounted DEF Init
  <1>4. QED BY <1>1, <1>2, <1>3 DEF Init, IInv, RowsInv, IterationInv

LEMMA InvStartRun ==
  ASSUME IInv, StartRun
  PROVE  IInv'
  <1>1. TypeInv'
    <2>1. run' \in 0..MaxRuns /\ run' = run + 1 /\ run \in Nat
      BY BatchAssumption DEF IInv, TypeInv, StartRun
    <2>2. \A k \in 1..Len(ledger') : ledger'[k].run \in 1..run'
      BY <2>1 DEF IInv, TypeInv, StartRun
    <2>3. results' \in Seq(Elements(results')) /\ Len(results') = run'
      <3>1. results \in Seq(Elements(results)) /\ Len(results) = run
        BY DEF IInv, TypeInv
      <3>2. results' = Append(results, NoResult)
        BY DEF StartRun
      <3> HIDE DEF NoResult
      <3>3. QED BY <2>1, <3>1, <3>2, AppendAnything
    <2>4. events' \in [Keys -> Seq(Nat)]
      BY DEF StartRun, NoEvents, Keys
    <2>5. i' \in 1..Len(Batch)
      BY Declines DEF StartRun
    <2>6. QED BY <2>1, <2>2, <2>3, <2>4, <2>5 DEF IInv, TypeInv, StartRun
  <1>2. RowsInv'
    BY RowsUnchanged DEF IInv, StartRun
  <1>3. CounterInv'
    <2>1. \A k \in Seqs("ACTUATION")' : ledger'[k].run # run'
      BY DEF IInv, TypeInv, StartRun, Seqs
    <2>2. events' = NoEvents
      BY DEF StartRun
    <2>3. ASSUME NEW key \in Keys PROVE events'[key] = <<>>
      BY <2>2 DEF NoEvents, Keys
    <2>4. ASSUME NEW key \in Keys, NEW T
          PROVE  At(events'[key], T) = {} /\ Counted(key, T)' = {}
      BY <2>1, <2>3 DEF At, Counted
    <2>5. ASSUME NEW key \in Keys PROVE Sorted(events'[key])
      BY <2>3 DEF Sorted
    <2>6. QED BY <2>4, <2>5 DEF CounterInv
  <1>4. IterationInv'
    BY DEF StartRun, IterationInv
  <1>5. QED BY <1>1, <1>2, <1>3, <1>4 DEF IInv

LEMMA InvDecide ==
  ASSUME IInv, Decide
  PROVE  IInv'
  <1> DEFINE L == Len(ledger)
             c == Context(d, attributed, events)
  <1>1. TypeInv /\ RowsInv /\ CounterInv
    BY DEF IInv
  <1>2. PICK allowed \in {AllowedBy(c), {}} :
          LET tier == SelectTier(attributed.cause, allowed)
          IN  /\ ladder' = [tier |-> tier, verdict |-> RecordedTier(tier) \in allowed]
              /\ ledger' = Append(ledger,
                   [entry_type |-> "DECISION", ts |-> d.ts, run |-> run,
                    experiment_id |-> plan.experiment_id, holdout_pct |-> plan.holdout_pct,
                    payment_id |-> d.payment_id, customer_id |-> d.customer_id,
                    arm |-> arm, tier |-> tier,
                    opa_allow |-> RecordedTier(tier) \in allowed,
                    cuped_covariate |-> d.cuped_covariate,
                    attempt_no |-> total(events, <<"pay", d.payment_id>>) + 1])
    BY DEF Decide
  <1> DEFINE tier == SelectTier(attributed.cause, allowed)
  <1>3. /\ tier \in {"T0", "T1", "T2", "T3", "T4"}
        /\ tier \in ACTIONABLE_TIERS => tier \in allowed /\ RecordedTier(tier) = tier
    BY Selection DEF RecordedTier, ACTIONABLE_TIERS
  <1>4. ladder' = [tier |-> tier, verdict |-> RecordedTier(tier) \in allowed]
    BY <1>2
  <1>5. PICK row : /\ ledger' = Append(ledger, row)
                   /\ row.entry_type = "DECISION" /\ row.ts = d.ts /\ row.run = run
                   /\ row.payment_id = d.payment_id /\ row.arm = arm /\ row.tier = tier
                   /\ row.opa_allow = (RecordedTier(tier) \in allowed)
    <2> HIDE DEF tier
    <2>1. QED BY <1>2 DEF tier
  <1>6. /\ pc = "decide" /\ pc' = "act" /\ seq' = Len(ledger')
        /\ UNCHANGED <<run, plan, i, events, actioned, results>>
    BY DEF Decide
  <1>7. d' = d /\ arm' = arm
    BY <1>6 DEF d, arm
  <1> HIDE DEF tier, c
  <1>8. /\ ledger' \in Seq(Elements(ledger'))
        /\ L \in Nat /\ Len(ledger') = L + 1
        /\ \A k \in 1..L : ledger'[k] = ledger[k]
        /\ ledger'[L + 1] = row
        /\ \A type : Seqs(type)' = Seqs(type) \union (IF row.entry_type = type THEN {L + 1} ELSE {})
    BY <1>1, <1>5, Growth
  <1> HIDE DEF L
  <1>9. run \in 1..run
    BY <1>1, <1>6 DEF TypeInv
  <1>10. TypeInv'
    <2>1. \A k \in 1..Len(ledger') : ledger'[k].run \in 1..run'
      BY <1>1, <1>5, <1>6, <1>8, <1>9 DEF TypeInv, L
    <2>2. ladder' \in [tier : {"none", "T0", "T1", "T2", "T3", "T4"}, verdict : BOOLEAN]
      BY <1>3, <1>4
    <2>3. seq' \in 0..Len(ledger')
      BY <1>6, <1>8
    <2>4. QED BY <1>1, <1>6, <1>8, <2>1, <2>2, <2>3 DEF TypeInv
  <1>11. RowsInv'
    <2>1. /\ \A k \in Seqs("ACTUATION") : ActuationAt(k)'
          /\ \A k \in Seqs("OUTCOME") : OutcomeAt(k)'
      BY <1>1, <1>5, OldRowsKept
    <2>2. Seqs("ACTUATION")' = Seqs("ACTUATION") /\ Seqs("OUTCOME")' = Seqs("OUTCOME")
      BY <1>5, <1>8
    <2>3. QED BY <2>1, <2>2 DEF RowsInv
  <1>12. CounterInv'
    BY <1>1, <1>5, <1>6, OthersDoNotCount
  <1>13. IterationInv'
    <2>1. seq' = L + 1 /\ seq' \in Seqs("DECISION")' /\ ledger'[seq'] = row
      BY <1>5, <1>6, <1>8
    <2>2. ASSUME tier \in ACTIONABLE_TIERS
          PROVE  Cardinality(EarlierAttempts(seq, run, d.bin, d.ts)') < config.bin_hourly_cap
      <3>1. tier \in AllowedBy(c)
        BY <1>3, <2>2
      <3>2. <<"bin", d.bin>> \in Keys /\ d.ts \in Nat
        BY <1>1, DeclineInHand DEF CounterKeys, SyntheticDecline
      <3>3. /\ c.bin_attempts_1h = count(events, <<"bin", d.bin>>, d.ts, WINDOW_1H)
            /\ "bin_attempts_1h" \in DOMAIN c
        BY <1>1, DeclineInHand, ContextFields DEF c
      <3>4. /\ c.bin_attempts_1h =
                 Cardinality(Counted(<<"bin", d.bin>>, (d.ts - WINDOW_1H)..d.ts))
            /\ c.bin_attempts_1h \in Nat
        <4>1. WINDOW_1H \in Nat
          BY DEF WINDOW_1H
        <4>2. /\ count(events, <<"bin", d.bin>>, d.ts, WINDOW_1H)
                   = Cardinality(Counted(<<"bin", d.bin>>, (d.ts - WINDOW_1H)..d.ts))
              /\ Cardinality(Counted(<<"bin", d.bin>>, (d.ts - WINDOW_1H)..d.ts)) \in Nat
          BY <1>1, <3>2, <4>1, CountIsCounted
        <4>3. QED BY <3>3, <4>2
      <3>5. Counted(<<"bin", d.bin>>, (d.ts - WINDOW_1H)..d.ts)
              = EarlierAttempts(L + 1, run, d.bin, d.ts)
        <4>1. \A j \in Seqs("ACTUATION") : j < L + 1
          BY <1>8 DEF Seqs, L
        <4>2. QED BY <4>1, KeyColumns DEF Counted, EarlierAttempts
      <3>6. EarlierAttempts(seq, run, d.bin, d.ts)' = EarlierAttempts(L + 1, run, d.bin, d.ts)
        <4>1. PICK n, r, bin, ts : n = L + 1 /\ r = run /\ bin = d.bin /\ ts = d.ts
          OBVIOUS
        <4>2. EarlierAttempts(n, r, bin, ts)' = EarlierAttempts(n, r, bin, ts)
          BY <1>1, <1>5, <1>8, <4>1, EarlierAttemptsKept DEF L
        <4>3. QED BY <1>6, <1>7, <2>1, <4>1, <4>2 DEF EarlierAttempts
      <3>7. c.bin_attempts_1h < config.bin_hourly_cap
        BY <2>2, <3>1, <3>3, <3>4, AllowedBelowCap
      <3>8. QED BY <3>4, <3>5, <3>6, <3>7
    <2>3. pc' = "act"
      BY <1>6
    <2>4. /\ ledger'[seq'].payment_id = d'.payment_id /\ ledger'[seq'].run = run'
          /\ ledger'[seq'].ts = d'.ts /\ ledger'[seq'].arm = arm'
          /\ ledger'[seq'].tier = ladder'.tier /\ ledger'[seq'].opa_allow = ladder'.verdict
      BY <1>4, <1>5, <1>6, <1>7, <2>1
    <2>5. ladder'.tier \in ACTIONABLE_TIERS => ladder'.verdict
      BY <1>3, <1>4
    <2>6. ladder'.tier = tier
      BY <1>4
    <2>7. QED BY <1>6, <2>1, <2>2, <2>3, <2>4, <2>5, <2>6 DEF IterationInv
  <1>14. QED BY <1>10, <1>11, <1>12, <1>13 DEF IInv

\* Whoever acts was permitted to, and is the iteration's DECISION row's actor.
LEMMA InvActuate ==
  ASSUME IInv, Act, take_action, ledger' = Append(ledger, ActuationRow),
         events' = Recorded(events)
  PROVE  IInv'
  <1> DEFINE L == Len(ledger)
  <1>1. TypeInv /\ RowsInv /\ CounterInv /\ IterationInv
    BY DEF IInv
  <1>2. /\ ActuationRow.entry_type = "ACTUATION" /\ ActuationRow.ts = Fired(d)
        /\ ActuationRow.run = run /\ ActuationRow.payment_id = d.payment_id
        /\ ActuationRow.tier = ladder.tier /\ ActuationRow.executed = TRUE
        /\ ActuationRow.decision_seq = seq /\ ActuationRow.bin = d.bin
    BY DEF ActuationRow
  <1>3. /\ pc = "act" /\ pc' = "outcome"
        /\ UNCHANGED <<run, plan, i, ladder, seq, results>>
    BY DEF Act
  <1>4. ladder.tier \in ACTIONABLE_TIERS /\ arm = "treatment"
    BY DEF take_action
  <1>5. d' = d /\ arm' = arm /\ take_action'
    BY <1>3, <1>4 DEF d, arm, take_action
  <1>6. /\ ledger' \in Seq(Elements(ledger'))
        /\ L \in Nat /\ Len(ledger') = L + 1
        /\ \A k \in 1..L : ledger'[k] = ledger[k]
        /\ ledger'[L + 1] = ActuationRow
        /\ \A type : Seqs(type)' = Seqs(type) \union
                       (IF ActuationRow.entry_type = type THEN {L + 1} ELSE {})
    <2> HIDE DEF ActuationRow
    <2>1. QED BY <1>1, Growth
  <1> HIDE DEF L, ActuationRow
  <1>7. /\ seq \in Seqs("DECISION") /\ seq = L
        /\ ledger[seq].payment_id = d.payment_id /\ ledger[seq].run = run
        /\ ledger[seq].ts = d.ts /\ ledger[seq].arm = "treatment"
        /\ ledger[seq].tier = ladder.tier /\ ledger[seq].opa_allow = ladder.verdict
        /\ ladder.verdict
        /\ Cardinality(EarlierAttempts(seq, run, d.bin, d.ts)) < config.bin_hourly_cap
    BY <1>1, <1>3, <1>4 DEF IterationInv, L
  <1>8. seq \in 1..L /\ ledger[seq].entry_type = "DECISION" /\ ledger'[seq] = ledger[seq]
    BY <1>6, <1>7 DEF Seqs, L
  <1>9. /\ Seqs("ACTUATION")' = Seqs("ACTUATION") \union {L + 1}
        /\ Seqs("OUTCOME")' = Seqs("OUTCOME")
        /\ seq \in Seqs("DECISION")'
    BY <1>2, <1>6, <1>7
  <1>10. TypeInv'
    <2>1. run \in 1..run
      BY <1>1, <1>3 DEF TypeInv
    <2>2. \A k \in 1..Len(ledger') : ledger'[k].run \in 1..run'
      BY <1>1, <1>2, <1>3, <1>6, <2>1 DEF TypeInv, L
    <2>3. events' \in [Keys -> Seq(Nat)]
      <3>1. Keys # {}
        BY Declines, <1>1 DEF TypeInv, CounterKeys
      <3>2. QED BY <1>1, <3>1, RecordedKeys
    <2>4. seq' \in 0..Len(ledger')
      BY <1>3, <1>6, <1>8
    <2>5. QED BY <1>1, <1>3, <1>6, <2>2, <2>3, <2>4 DEF TypeInv
  \* Nothing after the decision is an actuation.
  <1>11. \A k \in Seqs("ACTUATION") : ledger[k].decision_seq # seq
    <2>1. ASSUME NEW k \in Seqs("ACTUATION") PROVE ledger[k].decision_seq # seq
      <3>1. k \in 1..L
        BY DEF Seqs, L
      <3>2. ledger[k].decision_seq < k /\ ledger[k].decision_seq \in 1..L
        BY <1>1 DEF RowsInv, ActuationAt, Seqs, L
      <3>3. QED BY <1>6, <1>7, <3>1, <3>2
    <2>2. QED BY <2>1
  <1>12. ASSUME NEW n, n = L + 1 PROVE ActuationAt(n)'
    <2>1. Fired(d) \in Nat
      BY <1>1, DeclineInHand DEF Fired, RETRY_DELAY, SyntheticDecline
    <2>2. {j \in Seqs("ACTUATION")' :
             /\ j < L + 1 /\ ledger'[j].run = run /\ ledger'[j].bin = d.bin
             /\ ledger'[j].ts \in (d.ts - WINDOW_1H)..d.ts} = EarlierAttempts(seq, run, d.bin, d.ts)
      <3>1. \A j \in Seqs("ACTUATION") : j < L + 1 /\ j < seq /\ ledger'[j] = ledger[j]
        <4>1. ASSUME NEW j \in Seqs("ACTUATION")
              PROVE  j \in 1..L /\ j # seq
          BY <1>8 DEF Seqs, L
        <4>2. QED BY <1>6, <1>7, <4>1
      <3>2. ~(L + 1 < L + 1)
        BY <1>6
      <3>3. QED BY <1>9, <3>1, <3>2 DEF EarlierAttempts
    <2>3. seq < L + 1
      BY <1>6, <1>7
    <2>4. ledger'[n] = ActuationRow /\ ledger'[n].decision_seq = seq
      BY <1>2, <1>6, <1>12
    <2>5. Cardinality({j \in Seqs("ACTUATION")' :
             /\ j < n /\ ledger'[j].run = ledger'[n].run /\ ledger'[j].bin = ledger'[n].bin
             /\ ledger'[j].ts \in (ledger'[ledger'[n].decision_seq].ts - WINDOW_1H)
                                    ..ledger'[ledger'[n].decision_seq].ts}) < config.bin_hourly_cap
      <3>1. /\ ledger'[n].run = run /\ ledger'[n].bin = d.bin
            /\ ledger'[ledger'[n].decision_seq].ts = d.ts
        BY <1>2, <1>7, <1>8, <2>4
      <3>2. QED BY ZenonT(60), <1>7, <1>12, <2>2, <3>1
    <2>6. ASSUME NEW j \in Seqs("ACTUATION")', ledger'[j].decision_seq = seq PROVE j = n
      <3>1. j \in Seqs("ACTUATION") => ledger'[j] = ledger[j]
        BY <1>6 DEF Seqs, L
      <3>2. QED BY <1>9, <1>12, <1>11, <2>6, <3>1
    <2>7. QED BY ZenonT(60), <1>2, <1>4, <1>7, <1>8, <1>9, <1>12, <2>1, <2>3, <2>4, <2>5, <2>6
          DEF ActuationAt, EarlierAttempts
  <1>13. RowsInv'
    <2>1. /\ \A k \in Seqs("ACTUATION") : ActuationAt(k)'
          /\ \A k \in Seqs("OUTCOME") : OutcomeAt(k)'
      BY <1>1, <1>2, <1>11, OldRowsKept
    <2>2. ASSUME NEW k \in Seqs("ACTUATION")' PROVE ActuationAt(k)'
      BY <1>9, <1>12, <2>1
    <2>3. ASSUME NEW k \in Seqs("OUTCOME")' PROVE OutcomeAt(k)'
      BY <1>9, <2>1
    <2>4. QED BY <2>2, <2>3 DEF RowsInv
  <1>14. CounterInv'
    BY <1>1, <1>3, ActuationCounts
  <1>15. IterationInv'
    <2>1. Cardinality(EarlierAttempts(seq, run, d.bin, d.ts)') < config.bin_hourly_cap
      <3>1. PICK n, r, bin, ts : n = seq /\ r = run /\ bin = d.bin /\ ts = d.ts
        OBVIOUS
      <3>2. n \in 1..(Len(ledger) + 1)
        BY <1>6, <1>8, <3>1 DEF L
      <3>3. EarlierAttempts(n, r, bin, ts)' = EarlierAttempts(n, r, bin, ts)
        BY <1>1, <3>2, EarlierAttemptsKept
      <3>4. EarlierAttempts(seq, run, d.bin, d.ts)' = EarlierAttempts(seq, run, d.bin, d.ts)
        BY <1>3, <1>5, <3>1, <3>3 DEF EarlierAttempts
      <3>5. QED BY <1>7, <3>4
    <2>2. Len(ledger') = seq' + 1 /\ ledger'[seq' + 1] = ActuationRow
      BY <1>3, <1>6, <1>7
    <2>3. QED BY <1>2, <1>3, <1>4, <1>5, <1>7, <1>8, <1>9, <2>1, <2>2 DEF IterationInv
  <1>16. QED BY <1>10, <1>13, <1>14, <1>15 DEF IInv

LEMMA InvAct ==
  ASSUME IInv, Act
  PROVE  IInv'
  <1>1. CASE take_action
    BY <1>1, InvActuate DEF Act
  <1>2. CASE ~take_action
    <2>1. UNCHANGED <<ledger, run, plan, i, ladder, seq, events, results>> /\ pc' = "outcome" /\ pc = "act"
      BY <1>2 DEF Act
    <2>2. TypeInv'
      BY <2>1 DEF IInv, TypeInv
    <2>3. RowsInv'
      BY <2>1, RowsUnchanged DEF IInv
    <2>4. CounterInv'
      BY ZenonT(60), <2>1 DEF IInv, CounterInv, Counted, Seqs
    <2>5. IterationInv'
      BY <1>2, <2>1 DEF IInv, IterationInv, EarlierAttempts, Seqs, d, arm, take_action
    <2>6. QED BY <2>2, <2>3, <2>4, <2>5 DEF IInv
  <1>3. QED BY <1>1, <1>2

LEMMA InvOutcome ==
  ASSUME IInv, Outcome
  PROVE  IInv'
  <1> DEFINE L == Len(ledger)
             source == IF ~recovered THEN "none" ELSE IF take_action THEN "actuated" ELSE "natural"
  <1>1. TypeInv /\ RowsInv /\ CounterInv /\ IterationInv
    BY DEF IInv
  <1>2. /\ source = "actuated" => take_action
        /\ source = "natural" => ~take_action
    OBVIOUS
  <1>3. PICK row : /\ ledger' = Append(ledger, row)
                   /\ row.entry_type = "OUTCOME" /\ row.run = run /\ row.payment_id = d.payment_id
                   /\ row.decision_seq = seq /\ row.outcome_source = source
    <2>1. ledger' = Append(ledger, OutcomeRow(source))
      BY DEF Outcome
    <2> HIDE DEF source
    <2>2. QED BY <2>1 DEF OutcomeRow
  <1> HIDE DEF source
  <1>4. /\ pc = "outcome" /\ pc' \in {"decide", "estimate"}
        /\ i' = (IF i = Len(Batch) THEN 1 ELSE i + 1)
        /\ ladder' = NoLadder /\ seq' = 0
        /\ UNCHANGED <<run, plan, events, results>>
    BY DEF Outcome, Forget
  <1>5. /\ ledger' \in Seq(Elements(ledger'))
        /\ L \in Nat /\ Len(ledger') = L + 1
        /\ \A k \in 1..L : ledger'[k] = ledger[k]
        /\ ledger'[L + 1] = row
        /\ \A type : Seqs(type)' = Seqs(type) \union (IF row.entry_type = type THEN {L + 1} ELSE {})
    BY <1>1, <1>3, Growth
  <1> HIDE DEF L
  <1>6. /\ Seqs("OUTCOME")' = Seqs("OUTCOME") \union {L + 1}
        /\ Seqs("ACTUATION")' = Seqs("ACTUATION")
        /\ Seqs("DECISION")' = Seqs("DECISION")
        /\ \A type : Seqs(type) \subseteq 1..L
    BY <1>3, <1>5 DEF Seqs, L
  <1>7. /\ seq \in Seqs("DECISION") /\ seq \in 1..L
        /\ ledger[seq].payment_id = d.payment_id /\ ledger'[seq] = ledger[seq]
        /\ IF take_action THEN /\ L = seq + 1 /\ ledger[seq + 1].entry_type = "ACTUATION"
                               /\ ledger[seq + 1].decision_seq = seq
           ELSE L = seq
    BY <1>1, <1>4, <1>5, <1>6 DEF IterationInv, L
  \* Nothing after the decision is an outcome.
  <1>8. \A k \in Seqs("OUTCOME") : ledger[k].decision_seq # seq
    <2>1. ASSUME NEW k \in Seqs("OUTCOME") PROVE ledger[k].decision_seq # seq
      <3>1. k \in 1..L /\ ledger[k].entry_type = "OUTCOME" /\ ledger[seq].entry_type = "DECISION"
        BY <1>6, <1>7 DEF Seqs
      <3>2. k < seq
        BY <1>5, <1>7, <3>1
      <3>3. ledger[k].decision_seq < k /\ ledger[k].decision_seq \in 1..L
        BY <1>1, <1>6 DEF RowsInv, OutcomeAt
      <3>4. QED BY <1>5, <1>7, <3>1, <3>2, <3>3
    <2>2. QED BY <2>1
  <1>9. TypeInv'
    <2>1. run \in 1..run
      BY <1>1, <1>4 DEF TypeInv
    <2>2. \A k \in 1..Len(ledger') : ledger'[k].run \in 1..run'
      BY <1>1, <1>3, <1>4, <1>5, <2>1 DEF TypeInv, L
    <2>3. i' \in 1..Len(Batch)
      BY <1>1, <1>4, Declines DEF TypeInv
    <2>4. QED BY <1>1, <1>4, <1>5, <2>2, <2>3 DEF TypeInv, NoLadder
  <1>10. ASSUME NEW n, n = L + 1 PROVE OutcomeAt(n)'
    <2>1. ledger'[n] = row /\ ledger'[n].decision_seq = seq
      BY <1>3, <1>5, <1>10
    <2>2. seq < n /\ seq \in Seqs("DECISION")' /\ ledger'[seq].payment_id = ledger'[n].payment_id
      BY <1>3, <1>5, <1>6, <1>7, <1>10, <2>1
    <2>3. ASSUME NEW j \in Seqs("OUTCOME")', ledger'[j].decision_seq = seq PROVE j = n
      <3>1. j \in Seqs("OUTCOME") => ledger'[j] = ledger[j]
        BY <1>5, <1>6
      <3>2. QED BY <1>6, <1>8, <1>10, <2>3, <3>1
    <2>4. ASSUME take_action
          PROVE  \E a \in Seqs("ACTUATION")' : ledger'[a].decision_seq = seq /\ a < n
      <3>1. seq + 1 \in 1..L /\ seq + 1 < n
        BY <1>5, <1>7, <1>10, <2>4
      <3>2. seq + 1 \in Seqs("ACTUATION") /\ ledger'[seq + 1] = ledger[seq + 1]
        BY <1>5, <1>7, <2>4, <3>1 DEF Seqs, L
      <3>3. QED BY <1>6, <1>7, <2>4, <3>1, <3>2
    <2>5. ASSUME ~take_action, NEW a \in Seqs("ACTUATION")'
          PROVE  ledger'[a].decision_seq # seq
      <3>1. a \in Seqs("ACTUATION") /\ a \in 1..L /\ ledger'[a] = ledger[a]
        BY <1>5, <1>6
      <3>2. ledger[a].decision_seq < a /\ ledger[a].decision_seq \in 1..L
        BY <1>1, <1>6, <3>1 DEF RowsInv, ActuationAt
      <3>3. QED BY <1>5, <1>7, <2>5, <3>1, <3>2
    <2>6. row.outcome_source = source
      BY <1>3
    <2>7. QED BY <1>2, <2>1, <2>2, <2>3, <2>4, <2>5, <2>6 DEF OutcomeAt
  <1>11. RowsInv'
    <2>1. /\ \A k \in Seqs("ACTUATION") : ActuationAt(k)'
          /\ \A k \in Seqs("OUTCOME") : OutcomeAt(k)'
      <3>1. row.entry_type \in {"ACTUATION", "OUTCOME"} =>
              \A k \in Seqs(row.entry_type) : ledger[k].decision_seq # row.decision_seq
        BY <1>3, <1>8
      <3>2. QED BY <1>1, <1>3, <3>1, OldRowsKept
    <2>2. ASSUME NEW k \in Seqs("OUTCOME")' PROVE OutcomeAt(k)'
      BY <1>6, <1>10, <2>1
    <2>3. ASSUME NEW k \in Seqs("ACTUATION")' PROVE ActuationAt(k)'
      BY <1>6, <2>1
    <2>4. QED BY <2>2, <2>3 DEF RowsInv
  <1>12. CounterInv'
    BY <1>1, <1>3, <1>4, OthersDoNotCount
  <1>13. IterationInv'
    BY <1>4 DEF IterationInv
  <1>14. QED BY <1>9, <1>11, <1>12, <1>13 DEF IInv

\* The estimate and a death leave the ledger and the counters alone.
LEMMA InvEstimateOrDie ==
  ASSUME IInv, Estimate \/ Die
  PROVE  IInv'
  <1>1. UNCHANGED <<ledger, run, plan, events>> /\ pc' = "ended"
    BY DEF Estimate, Die, Forget
  <1>2. results' \in Seq(Elements(results')) /\ Len(results') = run
    <2>1. results \in Seq(Elements(results)) /\ Len(results) = run
      BY DEF IInv, TypeInv
    <2>2. CASE Die
      BY <2>1, <2>2 DEF Die, Forget
    <2>3. CASE Estimate
      <3>1. PICK e : results' = [results EXCEPT ![run] = e]
        BY <2>3 DEF Estimate
      <3>2. QED BY <2>1, <3>1, UpdateAnything
    <2>4. QED BY <2>2, <2>3
  <1>3. i' \in 1..Len(Batch) /\ seq' \in 0..Len(ledger)
        /\ ladder' \in [tier : {"none", "T0", "T1", "T2", "T3", "T4"}, verdict : BOOLEAN]
    <2>1. Len(ledger) \in Nat
      BY LenProperties DEF IInv, TypeInv
    <2>2. CASE Die
      BY <2>1, <2>2, Declines DEF Die, Forget, NoLadder
    <2>3. CASE Estimate
      BY <2>3 DEF Estimate, IInv, TypeInv
    <2>4. QED BY <2>2, <2>3
  <1>4. TypeInv'
    BY <1>1, <1>2, <1>3 DEF IInv, TypeInv
  <1>5. RowsInv'
    BY <1>1, RowsUnchanged DEF IInv
  <1>6. CounterInv'
    BY ZenonT(60), <1>1 DEF IInv, CounterInv, Counted, Seqs
  <1>7. IterationInv'
    BY <1>1 DEF IterationInv
  <1>8. QED BY <1>4, <1>5, <1>6, <1>7 DEF IInv

LEMMA InvNext ==
  ASSUME IInv, [Next]_vars
  PROVE  IInv'
  <1>1. CASE StartRun
    BY <1>1, InvStartRun
  <1>2. CASE Decide
    BY <1>2, InvDecide
  <1>3. CASE Act
    BY <1>3, InvAct
  <1>4. CASE Outcome
    BY <1>4, InvOutcome
  <1>5. CASE Estimate \/ Die
    BY <1>5, InvEstimateOrDie
  <1>6. CASE UNCHANGED vars
    <2>1. TypeInv'
      BY <1>6 DEF vars, IInv, TypeInv
    <2>2. RowsInv'
      BY <1>6, RowsUnchanged DEF vars, IInv
    <2>3. CounterInv'
      BY ZenonT(60), <1>6 DEF vars, IInv, CounterInv, Counted, Seqs
    <2>4. IterationInv'
      BY <1>6 DEF vars, IInv, IterationInv, EarlierAttempts, Seqs, d, arm, take_action
    <2>5. QED BY <2>1, <2>2, <2>3, <2>4 DEF IInv
  <1>7. QED BY <1>1, <1>2, <1>3, <1>4, <1>5, <1>6 DEF Next

LEMMA Invariant == Spec => []IInv
  <1>1. IInv /\ [Next]_vars => IInv'
    BY InvNext
  <1>2. QED BY InvInit, <1>1, PTL DEF Spec

-----------------------------------------------------------------------------
\* Every run over every ledger stays well typed: the rows name a run that has
\* been started, and the iteration's locals fit the phase it is in.
THEOREM TypeCorrect == Spec => []TypeOK
  <1>1. IInv => TypeOK
    <2> SUFFICES ASSUME IInv PROVE TypeOK
      OBVIOUS
    <2>1. ASSUME NEW k \in DOMAIN events, NEW n \in 1..Len(events[k])
          PROVE  events[k][n] \in Nat
      <3>1. events[k] \in Seq(Nat)
        BY DEF IInv, TypeInv
      <3>2. QED BY <3>1, ElementOfSeq
    <2>2. QED BY <2>1 DEF IInv, TypeInv, TypeOK
  <1>2. QED BY <1>1, Invariant, PTL

-----------------------------------------------------------------------------
\* What the run says of itself.

Acted == {k \in Seqs("ACTUATION") : ledger[k].run = run}

TallyInv ==
  /\ tally = [n_actuated |-> Cardinality(Acted), policy_violations |-> 0]
  /\ \A r \in 1..run : results[r].tally.policy_violations = 0

LEMMA ActedIsFinite ==
  ASSUME TypeInv
  PROVE  IsFiniteSet(Acted) /\ Cardinality(Acted) \in Nat
  <1>1. Len(ledger) \in Nat
    BY LenProperties DEF TypeInv
  <1>2. Acted \subseteq 1..Len(ledger)
    BY DEF Acted, Seqs
  <1>3. IsFiniteSet(1..Len(ledger))
    BY <1>1, FS_Interval
  <1>4. IsFiniteSet(Acted)
    BY <1>2, <1>3, FS_Subset
  <1>5. QED BY <1>4, FS_CardinalityType

LEMMA TallyInit == Init => TallyInv
  <1> SUFFICES ASSUME Init PROVE TallyInv
    OBVIOUS
  <1>1. Acted = {}
    BY DEF Init, Acted, Seqs
  <1>2. Cardinality(Acted) = 0
    BY <1>1, FS_EmptySet
  <1>3. QED BY <1>2 DEF Init, TallyInv, NoTally

LEMMA TallyStartRun ==
  ASSUME IInv, TallyInv, StartRun
  PROVE  TallyInv'
  <1>1. Acted' = {}
    BY DEF IInv, TypeInv, StartRun, Acted, Seqs
  <1>2. Cardinality(Acted') = 0
    BY <1>1, FS_EmptySet
  <1>3. tally' = [n_actuated |-> 0, policy_violations |-> 0]
    BY DEF StartRun, NoTally
  <1>4. /\ results \in Seq(Elements(results)) /\ Len(results) = run
        /\ results' = Append(results, NoResult) /\ run' = run + 1 /\ run \in Nat
    BY BatchAssumption DEF IInv, TypeInv, StartRun
  <1>5. NoResult.tally.policy_violations = 0
    BY DEF NoResult, NoTally
  <1> HIDE DEF NoResult
  <1>6. /\ \A r \in 1..run : results'[r] = results[r]
        /\ results'[run + 1] = NoResult
    BY <1>4, AppendAnything
  <1>7. ASSUME NEW r \in 1..run' PROVE results'[r].tally.policy_violations = 0
    <2>1. r \in 1..run \/ r = run + 1
      BY <1>4
    <2>2. QED BY <1>5, <1>6, <2>1 DEF TallyInv
  <1>8. QED BY <1>2, <1>3, <1>7 DEF TallyInv

\* Rows that are no actuations are not counted.
LEMMA TallyOthers ==
  ASSUME IInv, TallyInv, Decide \/ Outcome
  PROVE  TallyInv'
  <1>1. PICK row : ledger' = Append(ledger, row) /\ row.entry_type # "ACTUATION"
    <2>1. CASE Decide
      BY <2>1 DEF Decide
    <2>2. CASE Outcome
      <3>1. PICK source : ledger' = Append(ledger, OutcomeRow(source))
        BY <2>2 DEF Outcome
      <3>2. QED BY <3>1 DEF OutcomeRow
    <2>3. QED BY <2>1, <2>2
  <1>2. UNCHANGED <<run, tally, results>>
    BY DEF Decide, Outcome, Forget
  <1>3. /\ Seqs("ACTUATION")' = Seqs("ACTUATION")
        /\ \A k \in Seqs("ACTUATION") : ledger'[k] = ledger[k]
    <2>1. Seqs("ACTUATION")' = Seqs("ACTUATION") \union
            (IF row.entry_type = "ACTUATION" THEN {Len(ledger) + 1} ELSE {})
      BY <1>1, Growth DEF IInv
    <2>2. \A k \in 1..Len(ledger) : ledger'[k] = ledger[k]
      BY <1>1, Growth DEF IInv
    <2>3. QED BY <1>1, <2>1, <2>2 DEF Seqs
  <1>4. Acted' = Acted
    BY <1>2, <1>3 DEF Acted
  <1>5. QED BY <1>2, <1>4 DEF TallyInv

\* Whoever acts has the policy's permission, and counts one row more.
LEMMA TallyAct ==
  ASSUME IInv, TallyInv, Act
  PROVE  TallyInv'
  <1> DEFINE L == Len(ledger)
  <1>1. pc = "act" /\ UNCHANGED <<run, results>>
    BY DEF Act
  <1>2. CASE take_action
    <2>1. ledger' = Append(ledger, ActuationRow) /\ tally' = Tallied
      BY <1>2 DEF Act
    <2>2. ladder.verdict
      BY <1>1, <1>2 DEF IInv, IterationInv, take_action
    <2>3. tally' = [n_actuated |-> Cardinality(Acted) + 1, policy_violations |-> 0]
      BY <2>1, <2>2 DEF TallyInv, Tallied
    <2>4. ActuationRow.entry_type = "ACTUATION" /\ ActuationRow.run = run
      BY DEF ActuationRow
    <2> HIDE DEF ActuationRow
    <2>5. /\ L \in Nat /\ \A k \in 1..L : ledger'[k] = ledger[k]
          /\ ledger'[L + 1] = ActuationRow
          /\ \A type : Seqs(type)' = Seqs(type) \union
                         (IF ActuationRow.entry_type = type THEN {L + 1} ELSE {})
      BY <2>1, Growth DEF IInv
    <2>6. Seqs("ACTUATION")' = Seqs("ACTUATION") \union {L + 1}
      BY <2>4, <2>5
    <2>7. Seqs("ACTUATION") \subseteq 1..L /\ L + 1 \notin 1..L
      BY <2>5 DEF Seqs
    <2> HIDE DEF L
    <2>8. Acted' = Acted \union {L + 1} /\ L + 1 \notin Acted
      BY <1>1, <2>4, <2>5, <2>6, <2>7 DEF Acted
    <2>9. Cardinality(Acted \union {L + 1}) = Cardinality(Acted) + 1
      BY <2>8, ActedIsFinite, FS_AddElement DEF IInv
    <2>10. QED BY <1>1, <2>3, <2>8, <2>9 DEF TallyInv
  <1>3. CASE ~take_action
    BY <1>1, <1>3 DEF Act, TallyInv, Acted, Seqs
  <1>4. QED BY <1>2, <1>3

LEMMA TallyEnds ==
  ASSUME IInv, TallyInv, Estimate \/ Die
  PROVE  TallyInv'
  <1>1. UNCHANGED <<ledger, run, tally>>
    BY DEF Estimate, Die, Forget
  <1>2. ASSUME NEW r \in 1..run PROVE results'[r].tally.policy_violations = 0
    <2>1. CASE Die
      BY <2>1 DEF Die, Forget, TallyInv
    <2>2. CASE Estimate
      <3> DEFINE obs == Observations(1..Len(ledger), plan.experiment_id)
                 e == [truth |-> sealed_truth(actioned), tau_hat |-> estimate_ate(obs),
                       naive_gross |-> naive_gross(obs), tally |-> tally]
      <3>1. results' = [results EXCEPT ![run] = e] /\ e.tally = tally
        BY <2>2 DEF Estimate
      <3> HIDE DEF e
      <3>2. results \in Seq(Elements(results)) /\ Len(results) = run
        BY DEF IInv, TypeInv
      <3>3. results'[r] = IF r = run THEN e ELSE results[r]
        BY <3>1, <3>2, UpdateAnything
      <3>4. QED BY <3>1, <3>3 DEF TallyInv
    <2>3. QED BY <2>1, <2>2
  <1>3. QED BY <1>1, <1>2 DEF TallyInv, Acted, Seqs

LEMMA TallyInvariant == Spec => [](IInv /\ TallyInv)
  <1>1. ASSUME IInv, TallyInv, [Next]_vars PROVE TallyInv'
    <2>1. CASE StartRun
      BY <1>1, <2>1, TallyStartRun
    <2>2. CASE Decide \/ Outcome
      BY <1>1, <2>2, TallyOthers
    <2>3. CASE Act
      BY <1>1, <2>3, TallyAct
    <2>4. CASE Estimate \/ Die
      BY <1>1, <2>4, TallyEnds
    <2>5. CASE UNCHANGED vars
      BY <1>1, <2>5 DEF vars, TallyInv, Acted, Seqs
    <2>6. QED BY <1>1, <2>1, <2>2, <2>3, <2>4, <2>5 DEF Next
  <1>2. IInv /\ TallyInv /\ [Next]_vars => TallyInv'
    BY <1>1
  <1>3. QED BY <1>2, Invariant, TallyInit, PTL DEF Spec

\* Actuations and the decisions they name are one to one.
LEMMA ActuationsAreFewer ==
  ASSUME IInv
  PROVE  Cardinality(executed) <=
           Cardinality(UNION {overview.tiers[t] : t \in ACTIONABLE_TIERS})
  <1> DEFINE D == {k \in Seqs("DECISION") : ledger[k].tier \in ACTIONABLE_TIERS}
             f == [k \in executed |-> ledger[k].decision_seq]
  <1>1. UNION {overview.tiers[t] : t \in ACTIONABLE_TIERS} = D
    <2>1. \A t \in ACTIONABLE_TIERS :
            overview.tiers[t] = {k \in Seqs("DECISION") : ledger[k].tier = t}
      BY DEF overview, ACTIONABLE_TIERS
    <2>2. QED BY <2>1
  <1>2. ASSUME NEW k \in executed PROVE f[k] \in D
    <2>1. ActuationAt(k)
      BY DEF executed, IInv, RowsInv
    <2>2. QED BY <2>1 DEF ActuationAt
  <1>3. \A j, k \in executed : f[j] = f[k] => j = k
    BY DEF executed, IInv, RowsInv, ActuationAt
  <1>4. f \in Injection(executed, D)
    <2>1. f \in [executed -> D]
      BY <1>2
    <2>2. DOMAIN f = executed
      OBVIOUS
    <2> HIDE DEF f, D
    <2>3. QED BY <1>3, <2>1, <2>2, Zenon DEF Injection, IsInjective
  <1>5. IsFiniteSet(D)
    <2>1. Len(ledger) \in Nat
      BY LenProperties DEF IInv, TypeInv
    <2>2. IsFiniteSet(1..Len(ledger)) /\ D \subseteq 1..Len(ledger)
      BY <2>1, FS_Interval DEF Seqs
    <2>3. QED BY <2>2, FS_Subset
  <1> HIDE DEF D, f
  <1>6. Cardinality(executed) <= Cardinality(D)
    BY <1>4, <1>5, FS_Injection
  <1>7. QED BY <1>1, <1>6

\* Whatever the batch, and however runs die and are repeated over one ledger,
\* every actuation follows the decision it names, of the same payment and run,
\* which was allowed by the policy at its tier and treated, and which no other
\* actuation names; and neither the page nor a run counts a violation.
THEOREM ActuationsAlwaysAuthorised == Spec => []EveryActuationIsAuthorised
  <1>1. IInv /\ TallyInv => EveryActuationIsAuthorised
    <2> SUFFICES ASSUME IInv, TallyInv PROVE EveryActuationIsAuthorised
      OBVIOUS
    <2>1. \A k \in Seqs("ACTUATION") : ActuationAt(k)
      BY DEF IInv, RowsInv
    <2>2. overview.violations = {}
      BY <2>1 DEF overview, executed, ActuationAt
    <2>3. Cardinality(overview.actuations) <=
            Cardinality(UNION {overview.tiers[t] : t \in ACTIONABLE_TIERS})
      <3>1. overview.actuations = executed
        BY DEF overview
      <3>2. QED BY <3>1, ActuationsAreFewer
    <2>4. \A r \in 1..run : results[r] # NoResult => run_batch_passes(results[r])
      BY DEF TallyInv, run_batch_passes
    <2>5. QED BY <2>1, <2>2, <2>3, <2>4 DEF EveryActuationIsAuthorised, ActuationAt
  <1>2. QED BY <1>1, TallyInvariant, PTL

-----------------------------------------------------------------------------
\* A decision never gets a second outcome, and what an outcome says of us is
\* what the ledger holds before it.
THEOREM OutcomesAlwaysAttributed == Spec => []OutcomesAreAttributed
  <1>1. IInv => OutcomesAreAttributed
    BY DEF IInv, RowsInv, OutcomeAt, OutcomesAreAttributed
  <1>2. QED BY <1>1, Invariant, PTL

\* Whatever the cap: no attempt is decided on when the attempts already fired
\* in the hour before have reached it.
THEOREM CapAlwaysBindsOnThePast == Spec => []CapBindsOnThePast
  <1>1. IInv => CapBindsOnThePast
    BY DEF IInv, RowsInv, ActuationAt, EarlierAttempts, CapBindsOnThePast
  <1>2. QED BY <1>1, Invariant, PTL

\* Law #7 for any batch: each of the four counters the policy is told, found by
\* binary search in a sorted list, is the number of this run's ACTUATION rows
\* the worker's SQL would find.
THEOREM CountersAlwaysAreActuations == Spec => []CountersAreActuations
  <1>1. IInv /\ TallyInv => CountersAreActuations
    <2> SUFFICES ASSUME IInv, TallyInv, pc = "decide" PROVE CountersAreActuations
      BY DEF CountersAreActuations
    <2> DEFINE c == Context(d, attributed, events)
    <2>1. TypeInv /\ CounterInv /\ RowsInv
      BY DEF IInv
    <2>2. /\ d \in SyntheticDecline /\ d.ts \in Nat
          /\ <<"cust", d.customer_id>> \in Keys /\ <<"pay", d.payment_id>> \in Keys
          /\ <<"bin", d.bin>> \in Keys /\ <<"nudge", d.customer_id>> \in Keys
      BY <2>1, DeclineInHand DEF CounterKeys, SyntheticDecline
    <2>3. /\ c.attempts_30d = count(events, <<"cust", d.customer_id>>, d.ts, WINDOW_30D)
          /\ c.attempts_this_payment = total(events, <<"pay", d.payment_id>>)
          /\ c.bin_attempts_1h = count(events, <<"bin", d.bin>>, d.ts, WINDOW_1H)
          /\ c.customer_nudges_7d = count(events, <<"nudge", d.customer_id>>, d.ts, WINDOW_7D)
      BY <2>1, DeclineInHand, ContextFields
    <2>4. WINDOW_30D \in Nat /\ WINDOW_1H \in Nat /\ WINDOW_7D \in Nat
      BY DEF WINDOW_30D, WINDOW_1H, WINDOW_7D
    <2> HIDE DEF c
    <2>5. c.attempts_30d
            = Cardinality(Counted(<<"cust", d.customer_id>>, (d.ts - WINDOW_30D)..d.ts))
      BY <2>1, <2>2, <2>3, <2>4, CountIsCounted
    <2>6. c.bin_attempts_1h
            = Cardinality(Counted(<<"bin", d.bin>>, (d.ts - WINDOW_1H)..d.ts))
      BY <2>1, <2>2, <2>3, <2>4, CountIsCounted
    <2>7. c.customer_nudges_7d
            = Cardinality(Counted(<<"nudge", d.customer_id>>, (d.ts - WINDOW_7D)..d.ts))
      BY <2>1, <2>2, <2>3, <2>4, CountIsCounted
    <2>8. c.attempts_this_payment = Cardinality(Counted(<<"pay", d.payment_id>>, Nat))
      BY <2>1, <2>2, <2>3, CountIsCounted
    \* The worker's queries are the counted rows.
    <2>9. ASSUME NEW times
          PROVE  /\ _actuations(1..Len(ledger), [run |-> run, customer_id |-> d.customer_id], times)
                      = Counted(<<"cust", d.customer_id>>, times)
                 /\ _actuations(1..Len(ledger), [run |-> run, bin |-> d.bin], times)
                      = Counted(<<"bin", d.bin>>, times)
                 /\ _actuations(1..Len(ledger),
                                [run |-> run, customer_id |-> d.customer_id, tier |-> "T3"], times)
                      = Counted(<<"nudge", d.customer_id>>, times)
                 /\ _actuations(1..Len(ledger), [run |-> run, payment_id |-> d.payment_id], times)
                      = Counted(<<"pay", d.payment_id>>, times)
      <3>1. \A k \in 1..Len(ledger) :
              k \in Seqs("ACTUATION") <=> ledger[k].entry_type = "ACTUATION" /\ ledger[k].executed
        BY <2>1 DEF RowsInv, ActuationAt, Seqs
      <3>2. Seqs("ACTUATION") \subseteq 1..Len(ledger)
        BY DEF Seqs
      <3>3. _actuations(1..Len(ledger), [run |-> run, customer_id |-> d.customer_id], times)
              = {k \in Seqs("ACTUATION") : /\ ledger[k].ts \in times /\ ledger[k].run = run
                                           /\ ledger[k].customer_id = d.customer_id}
        BY <3>1, <3>2 DEF _actuations
      <3>4. _actuations(1..Len(ledger), [run |-> run, bin |-> d.bin], times)
              = {k \in Seqs("ACTUATION") : /\ ledger[k].ts \in times /\ ledger[k].run = run
                                           /\ ledger[k].bin = d.bin}
        BY <3>1, <3>2 DEF _actuations
      <3>5. _actuations(1..Len(ledger),
                        [run |-> run, customer_id |-> d.customer_id, tier |-> "T3"], times)
              = {k \in Seqs("ACTUATION") : /\ ledger[k].ts \in times /\ ledger[k].run = run
                                           /\ ledger[k].customer_id = d.customer_id
                                           /\ ledger[k].tier = "T3"}
        BY <3>1, <3>2 DEF _actuations
      <3>6. _actuations(1..Len(ledger), [run |-> run, payment_id |-> d.payment_id], times)
              = {k \in Seqs("ACTUATION") : /\ ledger[k].ts \in times /\ ledger[k].run = run
                                           /\ ledger[k].payment_id = d.payment_id}
        BY <3>1, <3>2 DEF _actuations
      <3>7. QED BY ZenonT(60), <3>3, <3>4, <3>5, <3>6, KeyColumns DEF Counted
    <2>10. tally.n_actuated = Cardinality(_actuations(1..Len(ledger), [run |-> run], Nat))
      <3>1. \A k \in 1..Len(ledger) :
              k \in Seqs("ACTUATION") <=> /\ ledger[k].entry_type = "ACTUATION"
                                         /\ ledger[k].executed /\ ledger[k].ts \in Nat
        BY <2>1 DEF RowsInv, ActuationAt, Seqs
      <3>2. Seqs("ACTUATION") \subseteq 1..Len(ledger)
        BY DEF Seqs
      <3>3. _actuations(1..Len(ledger), [run |-> run], Nat) = Acted
        BY <3>1, <3>2 DEF _actuations, Acted
      <3>4. QED BY <3>3 DEF TallyInv
    <2>11. QED BY <2>5, <2>6, <2>7, <2>8, <2>9, <2>10 DEF CountersAreActuations, c
  <1>2. QED BY <1>1, TallyInvariant, PTL

-----------------------------------------------------------------------------
\* What an experiment's estimate reads.  The outcomes of the run are those of
\* the declines it has passed: they are as many, and their payments differ.

Done == {k \in Seqs("OUTCOME") : ledger[k].run = run}

ReadableAt(k) ==
  LET o == ledger[k]
  IN  /\ o.arm = assign_arm(o.experiment_id, o.customer_id, o.holdout_pct)
      /\ o.holdout_pct = ledger[o.decision_seq].holdout_pct
      /\ \E n \in 1..Len(Batch) :
           /\ Batch[n].payment_id = o.payment_id /\ Batch[n].customer_id = o.customer_id
           /\ Batch[n].cuped_covariate = ledger[o.decision_seq].cuped_covariate
      /\ ledger[o.decision_seq].experiment_id = o.experiment_id
      /\ \A j \in Seqs("OUTCOME") :
           ledger[j].run = o.run /\ ledger[j].payment_id = o.payment_id => j = k

\* What the run returned is what the ledger says.
ResultIsRead ==
  LET obs == Observations(1..Len(ledger), plan.experiment_id)
  IN  /\ Estimable(obs)
      /\ results[run].tau_hat = estimate_ate(obs)
      /\ results[run].naive_gross = naive_gross(obs)

ProgressInv ==
  /\ IsFiniteSet(Done)
  /\ \A k \in Done : ledger[k].experiment_id = plan.experiment_id
  /\ pc \in {"decide", "act", "outcome"} =>
       /\ Cardinality(Done) = i - 1
       /\ \A k \in Done : \E n \in 1..(i - 1) : Batch[n].payment_id = ledger[k].payment_id
       /\ results[run] = NoResult
  /\ pc = "estimate" => Cardinality(Done) = Len(Batch) /\ results[run] = NoResult
  /\ pc = "ended" /\ run > 0 /\ results[run] # NoResult =>
       Cardinality(Done) = Len(Batch) /\ ResultIsRead
  /\ pc \in {"act", "outcome"} => /\ ledger[seq].cuped_covariate = d.cuped_covariate
                                 /\ ledger[seq].experiment_id = plan.experiment_id
                                 /\ ledger[seq].holdout_pct = plan.holdout_pct

ReadInv ==
  /\ \A k \in Seqs("OUTCOME") : ReadableAt(k)
  /\ ProgressInv

LEMMA ReadInit == Init => ReadInv
  <1> SUFFICES ASSUME Init PROVE ReadInv
    OBVIOUS
  <1>1. Seqs("OUTCOME") = {} /\ Done = {}
    BY DEF Init, Seqs, Done
  <1>2. QED BY <1>1, FS_EmptySet DEF Init, ReadInv, ProgressInv

\* Rows that are not outcomes do not matter.
LEMMA ReadKept ==
  ASSUME IInv, \A k \in Seqs("OUTCOME") : ReadableAt(k), NEW row, row.entry_type # "OUTCOME",
         \/ ledger' = Append(ledger, row)
         \/ UNCHANGED ledger
  PROVE  /\ \A k \in Seqs("OUTCOME")' : ReadableAt(k)'
         /\ UNCHANGED run => Done' = Done
         /\ \A k \in Seqs("OUTCOME") : ledger'[k] = ledger[k]
         /\ Seqs("OUTCOME")' = Seqs("OUTCOME")
         /\ \A k \in 1..Len(ledger) : ledger'[k] = ledger[k]
  <1>1. /\ Seqs("OUTCOME")' = Seqs("OUTCOME")
        /\ \A k \in 1..Len(ledger) : ledger'[k] = ledger[k]
    <2>1. CASE ledger' = Append(ledger, row)
      <3>1. /\ Seqs("OUTCOME")' = Seqs("OUTCOME") \union
                  (IF row.entry_type = "OUTCOME" THEN {Len(ledger) + 1} ELSE {})
            /\ \A k \in 1..Len(ledger) : ledger'[k] = ledger[k]
        BY <2>1, Growth DEF IInv
      <3>2. QED BY <3>1
    <2>2. CASE UNCHANGED ledger
      BY <2>2 DEF Seqs
    <2>3. QED BY <2>1, <2>2
  <1>2. \A k \in Seqs("OUTCOME") :
          /\ ledger'[k] = ledger[k]
          /\ ledger'[ledger[k].decision_seq] = ledger[ledger[k].decision_seq]
    <2>1. \A k \in Seqs("OUTCOME") : k \in 1..Len(ledger) /\ ledger[k].decision_seq \in 1..Len(ledger)
      BY DEF IInv, RowsInv, OutcomeAt, Seqs
    <2>2. QED BY <1>1, <2>1
  <1>3. ASSUME NEW k \in Seqs("OUTCOME")' PROVE ReadableAt(k)'
    <2>1. k \in Seqs("OUTCOME") /\ ReadableAt(k)
      BY <1>1
    <2>2. /\ ledger'[k] = ledger[k]
          /\ ledger'[ledger[k].decision_seq] = ledger[ledger[k].decision_seq]
      BY <1>2, <2>1
    <2>3. \A j \in Seqs("OUTCOME")' :
            ledger'[j].run = ledger'[k].run /\ ledger'[j].payment_id = ledger'[k].payment_id => j = k
      BY <1>1, <1>2, <2>1, <2>2 DEF ReadableAt
    <2>4. QED BY <2>1, <2>2, <2>3 DEF ReadableAt
  <1>4. ASSUME UNCHANGED run PROVE Done' = Done
    BY <1>1, <1>2, <1>4 DEF Done
  <1>5. QED BY <1>1, <1>2, <1>3, <1>4

LEMMA ReadStartRun ==
  ASSUME IInv, ReadInv, StartRun
  PROVE  ReadInv'
  <1>1. \A k \in Seqs("OUTCOME")' : ReadableAt(k)'
    BY DEF ReadInv, StartRun, ReadableAt, Seqs
  <1>2. Done' = {}
    BY DEF IInv, TypeInv, StartRun, Done, Seqs
  <1>3. results'[run'] = NoResult
    <2>1. /\ results \in Seq(Elements(results)) /\ Len(results) = run
          /\ results' = Append(results, NoResult) /\ run' = run + 1
      BY DEF IInv, TypeInv, StartRun
    <2> HIDE DEF NoResult
    <2>2. results'[Len(results) + 1] = NoResult
      BY <2>1, AppendAnything
    <2>3. QED BY <2>1, <2>2
  <1>4. pc' = "decide" /\ i' = 1
    BY DEF StartRun
  <1>5. Cardinality(Done') = 0 /\ IsFiniteSet(Done')
    BY <1>2, FS_EmptySet
  <1>6. QED BY <1>1, <1>2, <1>3, <1>4, <1>5 DEF ReadInv, ProgressInv

LEMMA ReadDecide ==
  ASSUME IInv, ReadInv, Decide
  PROVE  ReadInv'
  <1>1. PICK row : /\ ledger' = Append(ledger, row) /\ row.entry_type = "DECISION"
                   /\ row.cuped_covariate = d.cuped_covariate
                   /\ row.experiment_id = plan.experiment_id
                   /\ row.holdout_pct = plan.holdout_pct
    BY DEF Decide
  <1>2. /\ \A k \in Seqs("OUTCOME")' : ReadableAt(k)'
        /\ UNCHANGED run => Done' = Done
        /\ \A k \in Seqs("OUTCOME") : ledger'[k] = ledger[k]
    BY <1>1, ReadKept DEF ReadInv
  <1>3. /\ pc = "decide" /\ pc' = "act" /\ seq' = Len(ledger')
        /\ UNCHANGED <<run, plan, i, results>>
    BY DEF Decide
  <1>4. ledger'[seq'] = row
    BY <1>1, <1>3, Growth DEF IInv
  <1>5. d' = d
    BY <1>3 DEF d
  <1>6. Done' = Done /\ \A k \in Done : ledger'[k] = ledger[k]
    BY <1>2, <1>3 DEF Done
  <1>7. ProgressInv'
    BY <1>1, <1>3, <1>4, <1>5, <1>6 DEF ReadInv, ProgressInv
  <1>8. QED BY <1>2, <1>7 DEF ReadInv

LEMMA ReadAct ==
  ASSUME IInv, ReadInv, Act
  PROVE  ReadInv'
  <1>1. ActuationRow.entry_type # "OUTCOME"
    BY DEF ActuationRow
  <1>2. ledger' = Append(ledger, ActuationRow) \/ UNCHANGED ledger
    BY DEF Act
  <1> HIDE DEF ActuationRow
  <1>3. /\ \A k \in Seqs("OUTCOME")' : ReadableAt(k)'
        /\ UNCHANGED run => Done' = Done
        /\ \A k \in Seqs("OUTCOME") : ledger'[k] = ledger[k]
        /\ \A k \in 1..Len(ledger) : ledger'[k] = ledger[k]
    BY <1>1, <1>2, ReadKept DEF ReadInv
  <1>4. pc = "act" /\ pc' = "outcome" /\ UNCHANGED <<run, plan, i, seq, results>>
    BY DEF Act
  <1>5. d' = d
    BY <1>4 DEF d
  <1>6. Done' = Done /\ \A k \in Done : ledger'[k] = ledger[k]
    BY <1>3, <1>4 DEF Done
  <1>7. ledger'[seq] = ledger[seq]
    BY <1>3, <1>4 DEF IInv, IterationInv, Seqs
  <1>8. ProgressInv'
    BY <1>4, <1>5, <1>6, <1>7 DEF ReadInv, ProgressInv
  <1>9. QED BY <1>3, <1>8 DEF ReadInv

LEMMA ReadEnds ==
  ASSUME IInv, ReadInv, Estimate \/ Die
  PROVE  ReadInv'
  <1>1. UNCHANGED <<ledger, run, plan>> /\ pc # "ended" /\ pc' = "ended"
    BY DEF Estimate, Die, Forget
  <1>2. \A k \in Seqs("OUTCOME")' : ReadableAt(k)'
    BY <1>1 DEF ReadInv, ReadableAt, Seqs
  <1>3. Done' = Done
    BY <1>1 DEF Done, Seqs
  <1>4. results'[run] = NoResult \/ (Cardinality(Done) = Len(Batch) /\ ResultIsRead')
    <2>1. CASE Die
      <3>1. results[run] = NoResult
        BY <1>1 DEF ReadInv, ProgressInv, IInv, TypeInv
      <3>2. results' = results
        BY <2>1 DEF Die, Forget
      <3>3. QED BY <3>1, <3>2, Zenon
    <2>2. CASE Estimate
      <3> DEFINE obs == Observations(1..Len(ledger), plan.experiment_id)
                 e == [truth |-> sealed_truth(actioned), tau_hat |-> estimate_ate(obs),
                       naive_gross |-> naive_gross(obs), tally |-> tally]
      <3>1. /\ Estimable(obs)
            /\ results' = [results EXCEPT ![run] = e]
            /\ e.tau_hat = estimate_ate(obs) /\ e.naive_gross = naive_gross(obs)
        BY <2>2 DEF Estimate
      <3>2. /\ results \in Seq(Elements(results)) /\ Len(results) = run
            /\ run \in 1..run
        BY <1>1 DEF IInv, TypeInv
      <3> HIDE DEF e
      <3>3. results'[run] = e
        BY <3>1, <3>2, UpdateAnything
      <3>4. obs' = obs
        BY <1>1 DEF Observations, load_experiment
      <3> HIDE DEF obs
      <3>5. ResultIsRead'
        BY ZenonT(60), <1>1, <3>1, <3>3, <3>4 DEF ResultIsRead, obs, Estimable, Arm, estimate_ate, naive_gross
      <3>6. QED BY <2>2, <3>5 DEF Estimate, ReadInv, ProgressInv
    <2>3. QED BY <2>1, <2>2
  <1>5. ProgressInv'
    BY <1>1, <1>3, <1>4 DEF ReadInv, ProgressInv
  <1>6. QED BY <1>2, <1>5 DEF ReadInv

LEMMA ReadOutcome ==
  ASSUME IInv, ReadInv, Outcome
  PROVE  ReadInv'
  <1> DEFINE L == Len(ledger)
  <1>1. PICK row : /\ ledger' = Append(ledger, row)
                   /\ row.entry_type = "OUTCOME" /\ row.run = run /\ row.payment_id = d.payment_id
                   /\ row.decision_seq = seq /\ row.customer_id = d.customer_id /\ row.arm = arm
                   /\ row.experiment_id = plan.experiment_id
                   /\ row.holdout_pct = plan.holdout_pct
    <2>1. PICK source : ledger' = Append(ledger, OutcomeRow(source))
      BY DEF Outcome
    <2>2. QED BY <2>1 DEF OutcomeRow
  <1>2. /\ pc = "outcome" /\ i' = (IF i = Len(Batch) THEN 1 ELSE i + 1)
        /\ pc' = (IF i = Len(Batch) THEN "estimate" ELSE "decide")
        /\ UNCHANGED <<run, plan, results>>
    BY DEF Outcome, Forget
  <1>3. /\ L \in Nat /\ \A k \in 1..L : ledger'[k] = ledger[k]
        /\ ledger'[L + 1] = row
        /\ Seqs("OUTCOME")' = Seqs("OUTCOME") \union {L + 1}
        /\ Seqs("OUTCOME") \subseteq 1..L
    <2>1. Seqs("OUTCOME")' = Seqs("OUTCOME") \union
            (IF row.entry_type = "OUTCOME" THEN {Len(ledger) + 1} ELSE {})
      BY <1>1, Growth DEF IInv
    <2>2. QED BY <1>1, <2>1, Growth DEF IInv, Seqs
  <1> HIDE DEF L
  <1>4. /\ IsFiniteSet(Done) /\ Cardinality(Done) = i - 1
        /\ \A k \in Done : ledger[k].experiment_id = plan.experiment_id
        /\ \A k \in Done : \E n \in 1..(i - 1) : Batch[n].payment_id = ledger[k].payment_id
        /\ results[run] = NoResult
        /\ ledger[seq].cuped_covariate = d.cuped_covariate
        /\ ledger[seq].experiment_id = plan.experiment_id
        /\ ledger[seq].holdout_pct = plan.holdout_pct
    BY <1>2 DEF ReadInv, ProgressInv
  <1>5. i \in 1..Len(Batch) /\ Len(Batch) \in Nat /\ plan \in Plans
        /\ seq \in 1..L /\ ledger'[seq] = ledger[seq]
    BY <1>2, <1>3, Declines DEF IInv, TypeInv, IterationInv, Seqs, L
  \* The payment is a new one.
  <1>6. \A k \in Done : ledger[k].payment_id # row.payment_id
    <2>1. ASSUME NEW k \in Done PROVE ledger[k].payment_id # row.payment_id
      <3>1. PICK n \in 1..(i - 1) : Batch[n].payment_id = ledger[k].payment_id
        BY <1>4
      <3>2. n \in 1..Len(Batch) /\ n # i
        BY <1>5
      <3>3. Batch[n].payment_id # Batch[i].payment_id
        BY <1>5, <3>2, PaymentsAssumption
      <3>4. QED BY <1>1, <3>1, <3>3 DEF d
    <2>2. QED BY <2>1
  <1>7. \A k \in Seqs("OUTCOME") :
          /\ ledger'[k] = ledger[k]
          /\ ledger'[ledger[k].decision_seq] = ledger[ledger[k].decision_seq]
    <2>1. \A k \in Seqs("OUTCOME") : ledger[k].decision_seq \in 1..L
      BY DEF IInv, RowsInv, OutcomeAt, Seqs, L
    <2>2. QED BY <1>3, <2>1
  <1>8. \A j, k \in Seqs("OUTCOME")' :
          ledger'[j].run = ledger'[k].run /\ ledger'[j].payment_id = ledger'[k].payment_id => j = k
    <2>1. ASSUME NEW j \in Seqs("OUTCOME"), NEW k \in Seqs("OUTCOME"),
                 ledger[j].run = ledger[k].run, ledger[j].payment_id = ledger[k].payment_id
          PROVE  j = k
      BY <2>1 DEF ReadInv, ReadableAt
    <2>2. ASSUME NEW k \in Seqs("OUTCOME"), ledger[k].run = run
          PROVE  ledger[k].payment_id # row.payment_id
      BY <1>6, <2>2 DEF Done
    <2>3. ASSUME NEW k \in Seqs("OUTCOME")', k # L + 1
          PROVE  k \in Seqs("OUTCOME") /\ ledger'[k] = ledger[k]
      <3>1. k \in Seqs("OUTCOME")
        BY <1>3, <2>3
      <3>2. QED BY <1>7, <3>1
    <2>4. ledger'[L + 1].run = run /\ ledger'[L + 1].payment_id = row.payment_id
      BY <1>1, <1>3
    <2>5. ASSUME NEW j \in Seqs("OUTCOME")', NEW k \in Seqs("OUTCOME")',
                 ledger'[j].run = ledger'[k].run, ledger'[j].payment_id = ledger'[k].payment_id
          PROVE  j = k
      <3>1. CASE j = L + 1
        BY <2>2, <2>3, <2>4, <2>5, <3>1
      <3>2. CASE k = L + 1
        BY <2>2, <2>3, <2>4, <2>5, <3>2
      <3>3. CASE j # L + 1 /\ k # L + 1
        BY <2>1, <2>3, <2>5, <3>3
      <3>4. QED BY <3>1, <3>2, <3>3
    <2>6. QED BY <2>5
  <1>9. ASSUME NEW k \in Seqs("OUTCOME")' PROVE ReadableAt(k)'
    <2>1. CASE k \in Seqs("OUTCOME")
      <3>1. ReadableAt(k)
        BY <2>1 DEF ReadInv
      <3>2. QED BY <1>7, <1>8, <2>1, <3>1 DEF ReadableAt
    <2>2. CASE k = L + 1
      <3>1. ledger'[k] = row
        BY <1>3, <2>2
      <3>2. /\ plan.experiment_id = row.experiment_id
            /\ row.arm = assign_arm(row.experiment_id, row.customer_id, row.holdout_pct)
        BY <1>1 DEF arm
      <3>3. /\ Batch[i].payment_id = row.payment_id /\ Batch[i].customer_id = row.customer_id
            /\ Batch[i].cuped_covariate = ledger'[row.decision_seq].cuped_covariate
            /\ ledger'[row.decision_seq].experiment_id = row.experiment_id
            /\ ledger'[row.decision_seq].holdout_pct = row.holdout_pct
        BY <1>1, <1>4, <1>5 DEF d
      <3>4. QED BY <1>5, <1>8, <3>1, <3>2, <3>3 DEF ReadableAt
    <2>3. QED BY <1>3, <2>1, <2>2
  <1>10. /\ Done' = Done \union {L + 1} /\ L + 1 \notin Done
         /\ \A k \in Done : ledger'[k] = ledger[k]
    <2>1. L + 1 \notin 1..L
      BY <1>3
    <2>2. QED BY <1>1, <1>2, <1>3, <1>7, <2>1 DEF Done
  <1>11. IsFiniteSet(Done') /\ Cardinality(Done') = i
    <2>1. /\ IsFiniteSet(Done \union {L + 1})
          /\ Cardinality(Done \union {L + 1}) = Cardinality(Done) + 1
      BY <1>4, <1>10, FS_AddElement
    <2>2. QED BY <1>4, <1>5, <1>10, <2>1
  <1>12. \A k \in Done' : ledger'[k].experiment_id = plan'.experiment_id
    BY <1>1, <1>2, <1>3, <1>4, <1>10
  <1>13. ASSUME NEW k \in Done'
         PROVE  \E n \in 1..i : Batch[n].payment_id = ledger'[k].payment_id
    <2>1. CASE k \in Done
      <3>1. PICK n \in 1..(i - 1) : Batch[n].payment_id = ledger[k].payment_id
        BY <1>4, <2>1
      <3>2. n \in 1..i /\ ledger'[k] = ledger[k]
        BY <1>5, <1>10, <2>1
      <3>3. QED BY <3>1, <3>2
    <2>2. CASE k = L + 1
      <3>1. Batch[i].payment_id = ledger'[k].payment_id /\ i \in 1..i
        <4>1. ledger'[k].payment_id = d.payment_id
          BY <1>1, <1>3, <2>2
        <4>2. QED BY <1>5, <4>1 DEF d
      <3>2. QED BY <3>1
    <2>3. QED BY <1>10, <2>1, <2>2
  <1>14. ProgressInv'
    <2>1. CASE i = Len(Batch)
      BY <1>2, <1>4, <1>11, <1>12, <2>1 DEF ProgressInv
    <2>2. CASE i # Len(Batch)
      <3>1. i' - 1 = i /\ pc' = "decide"
        BY <1>2, <1>5, <2>2
      <3>2. QED BY <1>2, <1>4, <1>11, <1>12, <1>13, <3>1 DEF ProgressInv
    <2>3. QED BY <2>1, <2>2
  <1>15. QED BY <1>9, <1>14 DEF ReadInv

LEMMA ReadInvariant == Spec => [](IInv /\ ReadInv)
  <1>1. ASSUME IInv, ReadInv, [Next]_vars PROVE ReadInv'
    <2>1. CASE StartRun
      BY <1>1, <2>1, ReadStartRun
    <2>2. CASE Decide
      BY <1>1, <2>2, ReadDecide
    <2>3. CASE Act
      BY <1>1, <2>3, ReadAct
    <2>4. CASE Outcome
      BY <1>1, <2>4, ReadOutcome
    <2>5. CASE Estimate \/ Die
      BY <1>1, <2>5, ReadEnds
    <2>6. CASE UNCHANGED vars
      <3>1. ResultIsRead' <=> ResultIsRead
        BY <2>6 DEF vars, ResultIsRead, Observations, load_experiment
      <3>2. \A type : Seqs(type)' = Seqs(type)
        BY <2>6 DEF vars, Seqs
      <3>3. \A k \in Seqs("OUTCOME")' : ReadableAt(k)'
        BY <1>1, <2>6, <3>2 DEF vars, ReadInv, ReadableAt
      <3>4. ProgressInv'
        BY <1>1, <2>6, <3>1, <3>2 DEF vars, ReadInv, ProgressInv, Done, d
      <3>5. QED BY <3>3, <3>4 DEF ReadInv
    <2>7. QED BY <1>1, <2>1, <2>2, <2>3, <2>4, <2>5, <2>6 DEF Next
  <1>2. IInv /\ ReadInv /\ [Next]_vars => ReadInv'
    BY <1>1
  <1>3. QED BY <1>2, Invariant, ReadInit, PTL DEF Spec

\* However many experiments share the ledger, whichever runs died and whatever
\* share of holdouts each was given: an experiment's estimate reads outcomes of
\* its own runs, each once, with the arm its decision's row can be audited for,
\* and all of those of a run that was scored.
THEOREM EstimatesReadTheirExperiment == Spec => []EstimateReadsItsExperiment
  <1>1. IInv /\ ReadInv => EstimateReadsItsExperiment
    <2> SUFFICES ASSUME IInv, ReadInv, pc = "ended", NEW e \in Experiments
                 PROVE  LET rows == load_experiment(1..Len(ledger), e)
                            obs == Observations(1..Len(ledger), e)
                        IN  /\ \A k \in rows :
                                 /\ obs[k].treated =
                                      (assign_arm(e, obs[k].cluster,
                                                  ledger[ledger[k].decision_seq].holdout_pct)
                                         = "treatment")
                                 /\ \E n \in 1..Len(Batch) :
                                      /\ Batch[n].payment_id = ledger[k].payment_id
                                      /\ Batch[n].customer_id = obs[k].cluster
                                      /\ Batch[n].cuped_covariate = obs[k].x
                                 /\ \A j \in rows : ledger[j].run = ledger[k].run
                                        /\ ledger[j].payment_id = ledger[k].payment_id => j = k
                            /\ run > 0 /\ results[run] # NoResult /\ plan.experiment_id = e =>
                                 /\ Len(Batch) = Cardinality({k \in rows : ledger[k].run = run})
                                 /\ e \in DOMAIN _experiments
                                 /\ _experiments[e] = [tau |-> results[run].tau_hat,
                                                      naive |-> results[run].naive_gross]
      BY DEF EstimateReadsItsExperiment
    <2> DEFINE rows == load_experiment(1..Len(ledger), e)
               obs == Observations(1..Len(ledger), e)
    <2>1. /\ \A k \in rows : k \in Seqs("OUTCOME") /\ ledger[k].experiment_id = e
          /\ \A k \in Seqs("OUTCOME") : ledger[k].experiment_id = e => k \in rows
      BY DEF load_experiment, Seqs, IInv, RowsInv, OutcomeAt
    <2>2. \A k \in rows : /\ obs[k].treated = (ledger[k].arm = "treatment")
                          /\ obs[k].cluster = ledger[k].customer_id
                          /\ obs[k].x = ledger[ledger[k].decision_seq].cuped_covariate
      BY DEF Observations
    <2> HIDE DEF rows, obs
    <2>3. ASSUME NEW k \in rows
          PROVE  /\ obs[k].treated =
                      (assign_arm(e, obs[k].cluster, ledger[ledger[k].decision_seq].holdout_pct)
                         = "treatment")
                 /\ \E n \in 1..Len(Batch) : /\ Batch[n].payment_id = ledger[k].payment_id
                                             /\ Batch[n].customer_id = obs[k].cluster
                                             /\ Batch[n].cuped_covariate = obs[k].x
                 /\ \A j \in rows : ledger[j].run = ledger[k].run
                                   /\ ledger[j].payment_id = ledger[k].payment_id => j = k
      <3>1. ReadableAt(k)
        BY <2>1 DEF ReadInv
      <3>2. ledger[k].arm = assign_arm(e, ledger[k].customer_id,
                                       ledger[ledger[k].decision_seq].holdout_pct)
        BY <2>1, <3>1 DEF ReadableAt
      <3>3. QED BY <2>1, <2>2, <3>1, <3>2 DEF ReadableAt
    <2>4. ASSUME run > 0, results[run] # NoResult, plan.experiment_id = e
          PROVE  Len(Batch) = Cardinality({k \in rows : ledger[k].run = run})
      <3>1. Cardinality(Done) = Len(Batch) /\ \A k \in Done : ledger[k].experiment_id = e
        BY <2>4 DEF ReadInv, ProgressInv
      <3>2. {k \in rows : ledger[k].run = run} = Done
        BY <2>1, <3>1 DEF Done
      <3>3. QED BY <3>1, <3>2
    <2>5. ASSUME run > 0, results[run] # NoResult, plan.experiment_id = e
          PROVE  /\ e \in DOMAIN _experiments
                 /\ _experiments[e] = [tau |-> results[run].tau_hat,
                                                    naive |-> results[run].naive_gross]
      <3>1. /\ Estimable(obs)
            /\ results[run].tau_hat = estimate_ate(obs)
            /\ results[run].naive_gross = naive_gross(obs)
        BY <2>5 DEF ReadInv, ProgressInv, ResultIsRead, obs
      <3>2. DOMAIN obs = rows
        BY DEF obs, rows, Observations
      <3>3. PICK k : k \in rows
        BY <3>1, <3>2 DEF Estimable, Arm
      <3>4. /\ ledger[k].decision_seq \in Seqs("DECISION")
            /\ ledger[ledger[k].decision_seq].experiment_id = e
        BY <2>1, <3>3 DEF ReadInv, ReadableAt, IInv, RowsInv, OutcomeAt
      <3>5. e \in {ledger[n].experiment_id : n \in Seqs("DECISION")}
        BY <3>4
      <3>6. QED BY <3>1, <3>5 DEF _experiments, obs
    <2>6. QED BY <2>3, <2>4, <2>5 DEF rows, obs
  <1>2. QED BY <1>1, ReadInvariant, PTL

-----------------------------------------------------------------------------
\* What the runs leave behind, decline by decline.  The n-th outcome of a run
\* is that of the n-th decline, recovered with our action or without as the
\* run's ACTUATION rows say; a run that was scored has one for every decline.

Outcomes(r) == {k \in Seqs("OUTCOME") : ledger[k].run = r}

OutcomesTo(k) == {j \in Seqs("OUTCOME") : ledger[j].run = ledger[k].run /\ j <= k}

Place(k) == Cardinality(OutcomesTo(k))

ActedFor(r, payment) ==
  \E a \in Seqs("ACTUATION") : ledger[a].run = r /\ ledger[a].payment_id = payment

Recovered(x, acted) ==
  IF (IF acted THEN x.y1_recovered ELSE x.y0_recovered) THEN x.amount_paise ELSE 0

PassedAt(k) ==
  LET o == ledger[k]
      x == Batch[Place(k)]
  IN  /\ Place(k) \in 1..Len(Batch)
      /\ o.payment_id = x.payment_id /\ o.customer_id = x.customer_id
      /\ ledger[o.decision_seq].cuped_covariate = x.cuped_covariate
      /\ o.recovered_amount_paise = Recovered(x, ActedFor(o.run, o.payment_id))
      /\ ActedFor(o.run, o.payment_id) => o.arm = "treatment"
      /\ \A j \in OutcomesTo(k) : ledger[j].experiment_id = o.experiment_id

Complete(r) ==
  /\ Cardinality(Outcomes(r)) = Len(Batch)
  /\ \A n \in 1..Len(Batch) : \E k \in Outcomes(r) : Place(k) = n

\* What the run itself remembers of its actions is what it wrote down.
ActionedInv ==
  /\ actioned \in [{x.payment_id : x \in Range(Batch)} -> BOOLEAN]
  /\ \A n \in 1..Len(Batch) :
       /\ actioned[Batch[n].payment_id] <=> ActedFor(run, Batch[n].payment_id)
       /\ pc \in {"decide", "act"} /\ n >= i => ~actioned[Batch[n].payment_id]
       /\ pc = "outcome" /\ n > i => ~actioned[Batch[n].payment_id]
  /\ pc = "outcome" => (actioned[d.payment_id] <=> take_action)

HistoryInv ==
  /\ \A k \in Seqs("OUTCOME") : PassedAt(k)
  /\ \A r \in 1..run : finished(r) => Complete(r)
  /\ pc \in {"decide", "act", "outcome"} =>
       \A n \in 1..(i - 1) : \E k \in Outcomes(run) : Place(k) = n
  /\ pc = "estimate" => Complete(run)
  /\ ActionedInv
  /\ pc = "ended" /\ run > 0 /\ finished(run) => results[run].truth = sealed_truth(actioned)

LEMMA HistoryGrowth ==
  ASSUME IInv, NEW row, ledger' = Append(ledger, row)
  PROVE  /\ Len(ledger) \in Nat
         /\ \A k \in Seqs("OUTCOME") : OutcomesTo(k)' = OutcomesTo(k)
         /\ \A r : Outcomes(r)' = Outcomes(r) \union
                     (IF row.entry_type = "OUTCOME" /\ row.run = r THEN {Len(ledger) + 1} ELSE {})
         /\ \A r, p : ActedFor(r, p)' <=>
                        \/ ActedFor(r, p)
                        \/ row.entry_type = "ACTUATION" /\ row.run = r /\ row.payment_id = p
  <1> DEFINE L == Len(ledger)
  <1>1. /\ L \in Nat /\ \A k \in 1..L : ledger'[k] = ledger[k]
        /\ ledger'[L + 1] = row
        /\ \A type : Seqs(type)' = Seqs(type) \union (IF row.entry_type = type THEN {L + 1} ELSE {})
    BY Growth DEF IInv
  <1>2. \A type : Seqs(type) \subseteq 1..L
    BY DEF Seqs
  <1> HIDE DEF L
  <1>3. \A type : \A k \in Seqs(type) : ledger'[k] = ledger[k]
    BY <1>1, <1>2
  <1>4. L + 1 \notin 1..L
    BY <1>1
  <1>5. ASSUME NEW k \in Seqs("OUTCOME") PROVE OutcomesTo(k)' = OutcomesTo(k)
    <2>1. ~(L + 1 <= k)
      BY <1>1, <1>2
    <2>2. Seqs("OUTCOME")' \subseteq Seqs("OUTCOME") \union {L + 1} /\ Seqs("OUTCOME") \subseteq Seqs("OUTCOME")'
      BY <1>1
    <2>3. \A j \in Seqs("OUTCOME")' : j <= k => j \in Seqs("OUTCOME")
      BY <2>1, <2>2
    <2>4. QED BY <1>3, <2>2, <2>3 DEF OutcomesTo
  <1>6. ASSUME NEW r
        PROVE  Outcomes(r)' = Outcomes(r) \union
                 (IF row.entry_type = "OUTCOME" /\ row.run = r THEN {L + 1} ELSE {})
    <2>1. CASE row.entry_type = "OUTCOME"
      <3>1. Seqs("OUTCOME")' = Seqs("OUTCOME") \union {L + 1}
        BY <1>1, <2>1
      <3>2. ledger'[L + 1].run = row.run
        BY <1>1
      <3>3. CASE row.run = r
        <4>1. Outcomes(r)' = Outcomes(r) \union {L + 1}
          BY <1>3, <3>1, <3>2, <3>3 DEF Outcomes
        <4>2. QED BY <2>1, <3>3, <4>1
      <3>4. CASE row.run # r
        <4>1. Outcomes(r)' = Outcomes(r)
          BY <1>3, <3>1, <3>2, <3>4 DEF Outcomes
        <4>2. QED BY <3>4, <4>1
      <3>5. QED BY <3>3, <3>4
    <2>2. CASE row.entry_type # "OUTCOME"
      <3>1. Seqs("OUTCOME")' = Seqs("OUTCOME")
        BY <1>1, <2>2
      <3>2. QED BY <1>3, <2>2, <3>1 DEF Outcomes
    <2>3. QED BY <2>1, <2>2
  <1>7. ASSUME NEW r, NEW p
        PROVE  ActedFor(r, p)' <=>
                 \/ ActedFor(r, p)
                 \/ row.entry_type = "ACTUATION" /\ row.run = r /\ row.payment_id = p
    <2>1. CASE row.entry_type = "ACTUATION"
      <3>1. Seqs("ACTUATION")' = Seqs("ACTUATION") \union {L + 1}
        BY <1>1, <2>1
      <3>2. QED BY <1>1, <1>3, <2>1, <3>1 DEF ActedFor
    <2>2. CASE row.entry_type # "ACTUATION"
      <3>1. Seqs("ACTUATION")' = Seqs("ACTUATION")
        BY <1>1, <2>2
      <3>2. QED BY <1>3, <2>2, <3>1 DEF ActedFor
    <2>3. QED BY <2>1, <2>2
  <1>8. QED BY <1>1, <1>5, <1>6, <1>7 DEF L

\* What is true of an outcome stays true, unless its run acts on its payment.
LEMMA PassedKept ==
  ASSUME IInv, \A k \in Seqs("OUTCOME") : PassedAt(k), NEW row, ledger' = Append(ledger, row),
         row.entry_type = "ACTUATION" =>
           \A k \in Seqs("OUTCOME") : ledger[k].run = row.run => ledger[k].payment_id # row.payment_id
  PROVE  \A k \in Seqs("OUTCOME") : PassedAt(k)'
  <1> SUFFICES ASSUME NEW k \in Seqs("OUTCOME") PROVE PassedAt(k)'
    OBVIOUS
  <1>1. PassedAt(k)
    OBVIOUS
  <1>2. /\ \A j \in 1..Len(ledger) : ledger'[j] = ledger[j]
        /\ Len(ledger) \in Nat
    BY Growth DEF IInv
  <1>3. ledger[k].decision_seq \in 1..Len(ledger) /\ k \in 1..Len(ledger)
    BY DEF IInv, RowsInv, OutcomeAt, Seqs
  <1>4. /\ ledger'[k] = ledger[k]
        /\ ledger'[ledger[k].decision_seq] = ledger[ledger[k].decision_seq]
    BY <1>2, <1>3
  <1>5. OutcomesTo(k)' = OutcomesTo(k) /\ Place(k)' = Place(k)
    BY HistoryGrowth DEF Place
  <1>6. ActedFor(ledger[k].run, ledger[k].payment_id)' <=> ActedFor(ledger[k].run, ledger[k].payment_id)
    <2> DEFINE r == ledger[k].run
               p == ledger[k].payment_id
    <2>1. \A t, q : ActedFor(t, q)' <=>
                      \/ ActedFor(t, q)
                      \/ row.entry_type = "ACTUATION" /\ row.run = t /\ row.payment_id = q
      BY HistoryGrowth
    <2>2. ~(row.entry_type = "ACTUATION" /\ row.run = r /\ row.payment_id = p)
      OBVIOUS
    <2>3. \A t, q : t = r /\ q = p => (ActedFor(t, q)' <=> ActedFor(t, q))
      BY <2>1, <2>2
    <2> HIDE DEF r, p
    <2>4. (\E a \in Seqs("ACTUATION")' : ledger'[a].run = r /\ ledger'[a].payment_id = p)
            <=> ActedFor(r, p)
      BY <2>3 DEF ActedFor
    <2>5. QED BY <1>4, <2>4 DEF ActedFor, r, p
  <1>7. \A j \in OutcomesTo(k) : ledger'[j] = ledger[j]
    BY <1>2 DEF OutcomesTo, Seqs
  <1>8. QED BY <1>1, <1>4, <1>5, <1>6, <1>7 DEF PassedAt, Recovered

LEMMA CompleteKept ==
  ASSUME NEW r, Outcomes(r)' = Outcomes(r), \A k \in Outcomes(r) : OutcomesTo(k)' = OutcomesTo(k)
  PROVE  Complete(r)' <=> Complete(r)
  <1>1. \A k \in Outcomes(r) : Place(k)' = Place(k)
    BY DEF Place
  <1>2. QED BY <1>1 DEF Complete

LEMMA HistoryInit == Init => HistoryInv
  <1> SUFFICES ASSUME Init PROVE HistoryInv
    OBVIOUS
  <1>1. \A type : Seqs(type) = {}
    BY DEF Init, Seqs
  <1>2. run = 0 /\ pc = "ended" /\ actioned = NothingActioned
    BY DEF Init
  <1>3. ActionedInv
    <2>1. \A n \in 1..Len(Batch) : Batch[n] \in Range(Batch)
      BY BatchAssumption, LenProperties DEF Range
    <2>2. QED BY <1>1, <1>2, <2>1 DEF ActionedInv, ActedFor, NothingActioned
  <1>4. QED BY <1>1, <1>2, <1>3 DEF HistoryInv

\* While the ledger does not change.
LEMMA HistoryStands ==
  ASSUME UNCHANGED ledger
  PROVE  /\ \A k : OutcomesTo(k)' = OutcomesTo(k)
         /\ \A r : Outcomes(r)' = Outcomes(r)
         /\ \A r, p : ActedFor(r, p)' <=> ActedFor(r, p)
         /\ \A k : PassedAt(k)' <=> PassedAt(k)
         /\ \A type : Seqs(type)' = Seqs(type)
  <1>1. \A type : Seqs(type)' = Seqs(type)
    BY DEF Seqs
  <1>2. \A k : OutcomesTo(k)' = OutcomesTo(k)
    BY <1>1 DEF OutcomesTo
  <1>3. \A r : Outcomes(r)' = Outcomes(r)
    BY <1>1 DEF Outcomes
  <1>4. \A r, p : ActedFor(r, p)' <=> ActedFor(r, p)
    BY <1>1 DEF ActedFor
  <1>5. ASSUME NEW k PROVE PassedAt(k)' <=> PassedAt(k)
    BY <1>1, <1>2 DEF PassedAt, Place, ActedFor, Recovered
  <1>6. QED BY <1>1, <1>2, <1>3, <1>4, <1>5

LEMMA HistoryStartRun ==
  ASSUME IInv, ReadInv, HistoryInv, StartRun
  PROVE  HistoryInv'
  <1>1. /\ UNCHANGED ledger /\ run' = run + 1 /\ run \in Nat /\ pc' = "decide" /\ i' = 1
        /\ results' = Append(results, NoResult) /\ actioned' = NothingActioned
    BY BatchAssumption DEF StartRun, IInv, TypeInv
  <1>2. /\ \A k : OutcomesTo(k)' = OutcomesTo(k)
        /\ \A r : Outcomes(r)' = Outcomes(r)
        /\ \A k : PassedAt(k)' <=> PassedAt(k)
        /\ \A type : Seqs(type)' = Seqs(type)
    BY <1>1, HistoryStands
  <1>3. /\ \A r \in 1..run : results'[r] = results[r]
        /\ results'[run + 1] = NoResult
    <2> HIDE DEF NoResult
    <2>1. results \in Seq(Elements(results)) /\ Len(results) = run
      BY DEF IInv, TypeInv
    <2>2. QED BY <1>1, <2>1, AppendAnything
  <1>4. ASSUME NEW r \in 1..run', finished(r)' PROVE Complete(r)'
    <2>1. r # run + 1
      <3> HIDE DEF NoResult
      <3>1. QED BY <1>3, <1>4 DEF finished
    <2>2. r \in 1..run
      BY <1>1, <2>1
    <2>3. Complete(r)
      <3>1. finished(r)
        BY <1>3, <1>4, <2>2 DEF finished
      <3>2. QED BY <2>2, <3>1 DEF HistoryInv
    <2>4. QED BY <1>2, <2>3, CompleteKept
  <1>5. \A p : ~ActedFor(run + 1, p)
    <2>1. \A k \in 1..Len(ledger) : ledger[k].run # run + 1
      BY <1>1 DEF IInv, TypeInv
    <2>2. QED BY <1>1, <2>1 DEF ActedFor, Seqs
  <1>6. ActionedInv'
    <2>1. \A n \in 1..Len(Batch) : Batch[n] \in Range(Batch)
      BY BatchAssumption, LenProperties DEF Range
    <2>2. \A n \in 1..Len(Batch) : ~actioned'[Batch[n].payment_id]
      BY <1>1, <2>1 DEF NothingActioned
    <2>3. actioned' \in [{x.payment_id : x \in Range(Batch)} -> BOOLEAN]
      BY <1>1 DEF NothingActioned
    <2>4. \A n \in 1..Len(Batch) : ~ActedFor(run, Batch[n].payment_id)'
      BY <1>1, <1>2, <1>5 DEF ActedFor
    <2>5. QED BY <1>1, <2>2, <2>3, <2>4 DEF ActionedInv
  <1>7. QED BY <1>1, <1>2, <1>4, <1>6 DEF HistoryInv

\* What an append to the ledger, by the run, does not disturb.
LEMMA HistoryAppend ==
  ASSUME IInv, ReadInv, HistoryInv, NEW row, ledger' = Append(ledger, row), row.run = run,
         pc \in {"decide", "act", "outcome"}, UNCHANGED <<run, results>>,
         row.entry_type = "ACTUATION" => row.payment_id = d.payment_id
  PROVE  /\ \A k \in Seqs("OUTCOME") : PassedAt(k)'
         /\ \A r \in 1..run : finished(r)' => Complete(r)'
  <1>1. ASSUME row.entry_type = "ACTUATION", NEW k \in Seqs("OUTCOME"), ledger[k].run = row.run
        PROVE  ledger[k].payment_id # row.payment_id
    <2>1. k \in Done
      BY <1>1 DEF Done
    <2>2. PICK n \in 1..(i - 1) : Batch[n].payment_id = ledger[k].payment_id
      BY <2>1 DEF ReadInv, ProgressInv
    <2>3. n \in 1..Len(Batch) /\ i \in 1..Len(Batch) /\ n # i
      BY Declines DEF IInv, TypeInv
    <2>4. QED BY <1>1, <2>2, <2>3, PaymentsAssumption DEF d
  <1>2. \A k \in Seqs("OUTCOME") : PassedAt(k)'
    BY <1>1, PassedKept DEF HistoryInv
  <1>3. ASSUME NEW r \in 1..run, finished(r)' PROVE Complete(r)'
    <2>1. finished(r)
      BY <1>3 DEF finished
    <2>2. r # run /\ Complete(r)
      BY <2>1 DEF finished, ReadInv, ProgressInv, HistoryInv
    <2>3. Outcomes(r)' = Outcomes(r) \union
             (IF row.entry_type = "OUTCOME" /\ row.run = r THEN {Len(ledger) + 1} ELSE {})
      BY HistoryGrowth
    <2>4. Outcomes(r)' = Outcomes(r)
      BY <2>2, <2>3
    <2>5. \A k \in Outcomes(r) : OutcomesTo(k)' = OutcomesTo(k)
      BY HistoryGrowth DEF Outcomes
    <2>6. QED BY <2>2, <2>4, <2>5, CompleteKept
  <1>4. QED BY <1>2, <1>3

LEMMA HistoryDecide ==
  ASSUME IInv, ReadInv, HistoryInv, Decide
  PROVE  HistoryInv'
  <1>1. PICK row : /\ ledger' = Append(ledger, row) /\ row.entry_type = "DECISION"
                   /\ row.run = run
    BY DEF Decide
  <1>2. /\ pc = "decide" /\ pc' = "act" /\ UNCHANGED <<run, plan, i, actioned, results>>
    BY DEF Decide
  <1>3. /\ \A k \in Seqs("OUTCOME") : PassedAt(k)'
        /\ \A r \in 1..run : finished(r)' => Complete(r)'
    BY <1>1, <1>2, HistoryAppend
  <1>4. /\ \A k \in Seqs("OUTCOME") : OutcomesTo(k)' = OutcomesTo(k)
        /\ Outcomes(run)' = Outcomes(run)
        /\ \A p : ActedFor(run, p)' <=> ActedFor(run, p)
        /\ Seqs("OUTCOME")' = Seqs("OUTCOME")
    <2>1. \A r : Outcomes(r)' = Outcomes(r)
      <3>1. \A r : Outcomes(r)' = Outcomes(r) \union
                     (IF row.entry_type = "OUTCOME" /\ row.run = r THEN {Len(ledger) + 1} ELSE {})
        BY <1>1, HistoryGrowth
      <3>2. QED BY <1>1, <3>1
    <2>2. \A r, p : ActedFor(r, p)' <=> ActedFor(r, p)
      BY <1>1, HistoryGrowth
    <2>3. Seqs("OUTCOME")' = Seqs("OUTCOME")
      <3>1. Seqs("OUTCOME")' = Seqs("OUTCOME") \union
              (IF row.entry_type = "OUTCOME" THEN {Len(ledger) + 1} ELSE {})
        BY <1>1, Growth DEF IInv
      <3>2. QED BY <1>1, <3>1
    <2>4. Outcomes(run)' = Outcomes(run)
      BY <1>2, <2>1 DEF Outcomes
    <2>5. \A p : ActedFor(run, p)' <=> ActedFor(run, p)
      BY <1>2, <2>2 DEF ActedFor
    <2>6. QED BY <1>1, <2>3, <2>4, <2>5, HistoryGrowth
  <1>5. ActionedInv'
    BY <1>2, <1>4 DEF ActionedInv, HistoryInv
  <1>6. \A n \in 1..(i' - 1) : \E k \in Outcomes(run)' : Place(k)' = n
    BY <1>2, <1>4 DEF HistoryInv, Place, Outcomes
  <1>7. QED BY <1>2, <1>3, <1>4, <1>5, <1>6 DEF HistoryInv

LEMMA HistoryAct ==
  ASSUME IInv, ReadInv, HistoryInv, Act
  PROVE  HistoryInv'
  <1>1. /\ pc = "act" /\ pc' = "outcome" /\ UNCHANGED <<run, plan, i, ladder, results>>
        /\ actioned' = [actioned EXCEPT ![d.payment_id] = take_action]
    BY DEF Act
  <1>2. d' = d /\ i \in 1..Len(Batch) /\ Len(Batch) \in Nat
    BY <1>1, Declines DEF d, IInv, TypeInv
  <1>3. take_action \in BOOLEAN /\ (take_action' <=> take_action)
    BY <1>1, <1>2 DEF take_action, arm
  <1>4. /\ \A k \in Seqs("OUTCOME") : PassedAt(k)' /\ OutcomesTo(k)' = OutcomesTo(k)
        /\ \A r \in 1..run : finished(r)' => Complete(r)'
        /\ Outcomes(run)' = Outcomes(run)
        /\ Seqs("OUTCOME")' = Seqs("OUTCOME")
        /\ \A p : ActedFor(run, p)' <=> ActedFor(run, p) \/ (take_action /\ p = d.payment_id)
    <2>1. CASE take_action /\ ledger' = Append(ledger, ActuationRow)
      <3> DEFINE row == ActuationRow
      <3>1. row.entry_type = "ACTUATION" /\ row.run = run /\ row.payment_id = d.payment_id
        BY DEF ActuationRow
      <3> HIDE DEF row
      <3>2. ledger' = Append(ledger, row)
        BY <2>1 DEF row
      <3>3. /\ \A k \in Seqs("OUTCOME") : PassedAt(k)'
            /\ \A r \in 1..run : finished(r)' => Complete(r)'
        BY <1>1, <3>1, <3>2, HistoryAppend
      <3>4. /\ \A k \in Seqs("OUTCOME") : OutcomesTo(k)' = OutcomesTo(k)
            /\ \A r : Outcomes(r)' = Outcomes(r) \union
                     (IF row.entry_type = "OUTCOME" /\ row.run = r THEN {Len(ledger) + 1} ELSE {})
            /\ \A r, p : ActedFor(r, p)' <=>
                           \/ ActedFor(r, p)
                           \/ row.entry_type = "ACTUATION" /\ row.run = r /\ row.payment_id = p
        BY <3>2, HistoryGrowth
      <3>5. \A r : Outcomes(r)' = Outcomes(r)
        BY <3>1, <3>4
      <3>6. Outcomes(run)' = Outcomes(run)
        BY <1>1, <3>5 DEF Outcomes
      <3>7. Seqs("OUTCOME")' = Seqs("OUTCOME")
        <4>1. Seqs("OUTCOME")' = Seqs("OUTCOME") \union
                (IF row.entry_type = "OUTCOME" THEN {Len(ledger) + 1} ELSE {})
          BY <3>2, Growth DEF IInv
        <4>2. QED BY <3>1, <4>1
      <3>8. \A r, p : ActedFor(r, p)' <=> ActedFor(r, p) \/ (run = r /\ d.payment_id = p)
        BY <3>1, <3>4
      <3>9. \A p : ActedFor(run, p)' <=> ActedFor(run, p) \/ d.payment_id = p
        BY <1>1, <3>8 DEF ActedFor
      <3>10. QED BY <2>1, <3>3, <3>4, <3>6, <3>7, <3>9
    <2>2. CASE ~take_action /\ UNCHANGED ledger
      <3>1. /\ \A k : OutcomesTo(k)' = OutcomesTo(k)
            /\ \A r : Outcomes(r)' = Outcomes(r)
            /\ \A r, p : ActedFor(r, p)' <=> ActedFor(r, p)
            /\ \A k : PassedAt(k)' <=> PassedAt(k)
            /\ \A type : Seqs(type)' = Seqs(type)
        BY <2>2, HistoryStands
      <3>2. \A k \in Seqs("OUTCOME") : PassedAt(k)'
        BY <3>1 DEF HistoryInv
      <3>3. ASSUME NEW r \in 1..run, finished(r)' PROVE Complete(r)'
        <4>1. Complete(r)
          BY <1>1, <3>3 DEF finished, HistoryInv
        <4>2. QED BY <3>1, <4>1, CompleteKept
      <3>4. Outcomes(run)' = Outcomes(run)
        BY <1>1, <3>1 DEF Outcomes
      <3>5. \A p : ActedFor(run, p)' <=> ActedFor(run, p)
        BY <1>1, <3>1 DEF ActedFor
      <3>6. QED BY <2>2, <3>1, <3>2, <3>3, <3>4, <3>5
    <2>3. QED BY <2>1, <2>2 DEF Act
  <1>5. ActionedInv'
    <2>1. ActionedInv
      BY DEF HistoryInv
    <2>2. d.payment_id \in DOMAIN actioned
      <3>1. d \in Range(Batch)
        BY <1>2, BatchAssumption, LenProperties DEF Range, d
      <3>2. QED BY <2>1, <3>1 DEF ActionedInv
    <2>3. actioned' \in [{x.payment_id : x \in Range(Batch)} -> BOOLEAN]
      BY <1>1, <1>3, <2>1 DEF ActionedInv
    <2>4. actioned'[d.payment_id] = take_action
      BY <1>1, <2>1, <2>2 DEF ActionedInv
    <2>5. ASSUME NEW n \in 1..Len(Batch)
          PROVE  /\ actioned'[Batch[n].payment_id] <=> ActedFor(run, Batch[n].payment_id)'
                 /\ n > i => ~actioned'[Batch[n].payment_id]
      <3>1. CASE n = i
        <4>1. Batch[n].payment_id = d.payment_id
          BY <3>1 DEF d
        <4>2. ~ActedFor(run, d.payment_id)
          BY <1>1, <1>2, <2>1, <3>1, <4>1 DEF ActionedInv
        <4>3. ActedFor(run, Batch[n].payment_id)' <=> take_action
          BY <1>4, <4>1, <4>2
        <4>4. QED BY <1>2, <2>4, <3>1, <4>1, <4>3
      <3>2. CASE n # i
        <4>1. Batch[n].payment_id # d.payment_id
          BY <1>2, <3>2, PaymentsAssumption DEF d
        <4>2. actioned'[Batch[n].payment_id] = actioned[Batch[n].payment_id]
          <5>1. Batch[n].payment_id \in DOMAIN actioned
            <6>1. Batch[n] \in Range(Batch)
              BY BatchAssumption, LenProperties DEF Range
            <6>2. QED BY <2>1, <6>1 DEF ActionedInv
          <5>2. QED BY <1>1, <4>1, <5>1
        <4>3. ActedFor(run, Batch[n].payment_id)' <=> ActedFor(run, Batch[n].payment_id)
          BY <1>4, <4>1
        <4>4. n > i => ~actioned[Batch[n].payment_id]
          BY <1>1, <1>2, <2>1 DEF ActionedInv
        <4>5. actioned[Batch[n].payment_id] <=> ActedFor(run, Batch[n].payment_id)
          BY <2>1 DEF ActionedInv
        <4>6. QED BY <4>2, <4>3, <4>4, <4>5
      <3>3. QED BY <3>1, <3>2
    <2>6. actioned'[d'.payment_id] <=> take_action'
      BY <1>2, <1>3, <2>4
    <2>7. \A n \in 1..Len(Batch) :
            /\ actioned'[Batch[n].payment_id] <=> ActedFor(run, Batch[n].payment_id)'
            /\ n > i' => ~actioned'[Batch[n].payment_id]
      BY <1>1, <2>5
    <2>8. QED BY <1>1, <2>3, <2>6, <2>7 DEF ActionedInv
  <1>6. \A n \in 1..(i' - 1) : \E k \in Outcomes(run)' : Place(k)' = n
    BY <1>1, <1>4 DEF HistoryInv, Place, Outcomes
  <1>7. QED BY <1>1, <1>4, <1>5, <1>6 DEF HistoryInv

\* The outcome of the i-th decline.
LEMMA HistoryOutcome ==
  ASSUME IInv, ReadInv, HistoryInv, Outcome
  PROVE  HistoryInv'
  <1>1. PICK L : L = Len(ledger)
    OBVIOUS
  <1>2. PICK row : /\ ledger' = Append(ledger, row)
                   /\ row.entry_type = "OUTCOME" /\ row.run = run /\ row.payment_id = d.payment_id
                   /\ row.decision_seq = seq /\ row.customer_id = d.customer_id /\ row.arm = arm
                   /\ row.experiment_id = plan.experiment_id
                   /\ row.recovered_amount_paise = IF recovered THEN d.amount_paise ELSE 0
    <2>1. PICK source : ledger' = Append(ledger, OutcomeRow(source))
      BY DEF Outcome
    <2>2. QED BY <2>1 DEF OutcomeRow
  <1>3. /\ pc = "outcome" /\ i' = (IF i = Len(Batch) THEN 1 ELSE i + 1)
        /\ pc' = (IF i = Len(Batch) THEN "estimate" ELSE "decide")
        /\ UNCHANGED <<run, plan, actioned, results>>
        /\ i \in 1..Len(Batch) /\ Len(Batch) \in Nat
    BY Declines DEF Outcome, Forget, IInv, TypeInv
  <1>4. /\ \A k \in Seqs("OUTCOME") : PassedAt(k)' /\ OutcomesTo(k)' = OutcomesTo(k)
        /\ \A r \in 1..run : finished(r)' => Complete(r)'
    BY <1>2, <1>3, HistoryAppend, HistoryGrowth
  <1>5. /\ L \in Nat /\ \A k \in 1..L : ledger'[k] = ledger[k]
        /\ ledger'[L + 1] = row
        /\ Seqs("OUTCOME")' = Seqs("OUTCOME") \union {L + 1}
        /\ Seqs("OUTCOME") \subseteq 1..L
    <2>1. Seqs("OUTCOME")' = Seqs("OUTCOME") \union
            (IF row.entry_type = "OUTCOME" THEN {L + 1} ELSE {})
      BY <1>1, <1>2, Growth DEF IInv
    <2>2. QED BY <1>1, <1>2, <2>1, Growth DEF IInv, Seqs
  <1>6. /\ \A p : ActedFor(run, p)' <=> ActedFor(run, p)
        /\ Outcomes(run)' = Outcomes(run) \union {L + 1}
    <2>1. /\ \A r, p : ActedFor(r, p)' <=>
                         \/ ActedFor(r, p)
                         \/ row.entry_type = "ACTUATION" /\ row.run = r /\ row.payment_id = p
          /\ \A r : Outcomes(r)' = Outcomes(r) \union
                     (IF row.entry_type = "OUTCOME" /\ row.run = r THEN {L + 1} ELSE {})
      BY <1>1, <1>2, HistoryGrowth
    <2>2. \A r, p : ActedFor(r, p)' <=> ActedFor(r, p)
      BY <1>2, <2>1
    <2>3. \A p : ActedFor(run, p)' <=> ActedFor(run, p)
      BY SMTT(30), <1>3, <2>2 DEF ActedFor
    <2>4. \A r : r = run => Outcomes(r)' = Outcomes(r) \union {L + 1}
      BY <1>2, <2>1
    <2>5. Outcomes(run)' = Outcomes(run) \union {L + 1}
      BY <1>3, <2>4 DEF Outcomes
    <2>6. QED BY <2>3, <2>5
  <1>7. Outcomes(run) = Done /\ IsFiniteSet(Done) /\ Cardinality(Done) = i - 1
    BY <1>3 DEF Outcomes, Done, ReadInv, ProgressInv
  <1>8. OutcomesTo(L + 1)' = Done \union {L + 1} /\ L + 1 \notin Done
    <2>1. \A j \in Seqs("OUTCOME") : j <= L + 1 /\ ledger'[j] = ledger[j] /\ j # L + 1
      BY <1>5
    <2>2. L + 1 <= L + 1 /\ ledger'[L + 1].run = run
      BY <1>2, <1>5
    <2>3. {j \in Seqs("OUTCOME")' : ledger'[j].run = ledger'[L + 1].run /\ j <= L + 1}
            = {j \in Seqs("OUTCOME") : ledger[j].run = run} \union {L + 1}
      BY <1>5, <2>1, <2>2
    <2>4. L + 1 \notin 1..L
      BY <1>5
    <2>5. QED BY <1>5, <2>3, <2>4 DEF OutcomesTo, Done
  <1>9. Place(L + 1)' = i
    <2>1. Cardinality(Done \union {L + 1}) = Cardinality(Done) + 1
      BY <1>7, <1>8, FS_AddElement
    <2>2. QED BY SMTT(30), <1>3, <1>7, <1>8, <2>1 DEF Place
  <1>10. PICK x : x = d /\ x = Batch[i]
    BY DEF d
  <1>11. \A r : r = run => (ActedFor(r, x.payment_id)' <=> take_action)
    <2>1. \A p : ActedFor(run, p)' <=> ActedFor(run, p)
      BY <1>6
    <2>2. \A r, p : r = run => (ActedFor(r, p)' <=> ActedFor(r, p))
      BY <1>3, <2>1 DEF ActedFor
    <2>3. ActedFor(run, x.payment_id) <=> take_action
      BY <1>3, <1>10 DEF HistoryInv, ActionedInv
    <2>4. QED BY <2>2, <2>3
  <1>12. PassedAt(L + 1)'
    <2>1. ledger'[L + 1] = row /\ Batch[Place(L + 1)'] = x
      BY <1>5, <1>9, <1>10
    <2>2. row.payment_id = x.payment_id /\ row.customer_id = x.customer_id
      BY <1>2, <1>10
    <2>3. ledger'[row.decision_seq].cuped_covariate = x.cuped_covariate
      <3>1. seq \in 1..L
        BY <1>1, <1>3 DEF IInv, IterationInv, Seqs
      <3>2. ledger'[seq] = ledger[seq] /\ ledger[seq].cuped_covariate = d.cuped_covariate
        BY <1>3, <1>5, <3>1 DEF ReadInv, ProgressInv
      <3>3. QED BY <1>2, <1>10, <3>2
    <2>4. \A r, p : r = row.run /\ p = row.payment_id => (ActedFor(r, p)' <=> take_action)
      BY <1>2, <1>10, <1>11
    <2>5. row.recovered_amount_paise = Recovered(x, take_action)
      BY <1>2, <1>10 DEF Recovered, recovered
    <2>6. take_action => row.arm = "treatment"
      BY <1>2 DEF take_action
    <2>7. ASSUME NEW j \in OutcomesTo(L + 1)'
          PROVE  ledger'[j].experiment_id = row.experiment_id
      <3>1. CASE j \in Done
        <4>1. ledger'[j] = ledger[j]
          BY <1>5, <3>1 DEF Done
        <4>2. QED BY <1>2, <3>1, <4>1 DEF ReadInv, ProgressInv
      <3>2. CASE j = L + 1
        BY <1>5, <3>2
      <3>3. QED BY <1>8, <2>7, <3>1, <3>2
    <2>8. Place(L + 1)' \in 1..Len(Batch)
      BY <1>3, <1>9
    <2>9. QED BY <2>1, <2>2, <2>3, <2>4, <2>5, <2>6, <2>7, <2>8 DEF PassedAt, Recovered
  <1>13. \A n \in 1..i : \E k \in Outcomes(run)' : Place(k)' = n
    <2>1. ASSUME NEW n \in 1..i PROVE \E k \in Outcomes(run)' : Place(k)' = n
      <3>1. CASE n = i
        BY <1>6, <1>9, <3>1
      <3>2. CASE n # i
        <4>1. n \in 1..(i - 1)
          BY <1>3, <3>2
        <4>2. PICK k \in Outcomes(run) : Place(k) = n
          BY <1>3, <4>1 DEF HistoryInv
        <4>3. Place(k)' = n
          BY <1>4, <4>2 DEF Place, Outcomes
        <4>4. QED BY <1>6, <4>2, <4>3
      <3>3. QED BY <3>1, <3>2
    <2>2. QED BY <2>1
  <1>14. ActionedInv'
    <2>1. ActionedInv
      BY DEF HistoryInv
    <2>2. \A n \in 1..Len(Batch) :
            /\ actioned'[Batch[n].payment_id] <=> ActedFor(run, Batch[n].payment_id)'
            /\ n > i => ~actioned'[Batch[n].payment_id]
      BY <1>3, <1>6, <2>1 DEF ActionedInv
    <2>3. pc' = "decide" => \A n \in 1..Len(Batch) : n >= i' => n > i
      BY <1>3
    <2>4. pc' \notin {"act", "outcome"}
      BY <1>3
    <2>5. QED BY <1>3, <2>1, <2>2, <2>3, <2>4 DEF ActionedInv
  <1>15. CASE i = Len(Batch)
    <2>1. Complete(run)'
      <3>1. Cardinality(Done \union {L + 1}) = Len(Batch)
        BY <1>3, <1>7, <1>8, <1>15, FS_AddElement
      <3>2. Cardinality(Outcomes(run)') = Len(Batch)
        BY <1>6, <1>7, <3>1
      <3>3. QED BY <1>13, <1>15, <3>2 DEF Complete
    <2>2. pc' = "estimate"
      BY <1>3, <1>15
    <2>3. QED BY <1>3, <1>4, <1>5, <1>12, <1>14, <2>1, <2>2 DEF HistoryInv
  <1>16. CASE i # Len(Batch)
    <2>1. pc' = "decide" /\ i' - 1 = i
      BY <1>3, <1>16
    <2>2. QED BY <1>3, <1>4, <1>5, <1>12, <1>13, <1>14, <2>1 DEF HistoryInv
  <1>17. QED BY <1>15, <1>16

LEMMA HistoryEnds ==
  ASSUME IInv, ReadInv, HistoryInv, Estimate \/ Die
  PROVE  HistoryInv'
  <1>1. UNCHANGED <<ledger, run, plan, actioned>> /\ pc # "ended" /\ pc' = "ended" /\ run \in 1..run
    BY DEF Estimate, Die, Forget, IInv, TypeInv
  <1>2. /\ \A k : OutcomesTo(k)' = OutcomesTo(k)
        /\ \A r : Outcomes(r)' = Outcomes(r)
        /\ \A r, p : ActedFor(r, p)' <=> ActedFor(r, p)
        /\ \A k : PassedAt(k)' <=> PassedAt(k)
        /\ \A type : Seqs(type)' = Seqs(type)
    BY <1>1, HistoryStands
  <1>3. ActionedInv'
    <2>1. \A n \in 1..Len(Batch) : ActedFor(run, Batch[n].payment_id)' <=> ActedFor(run, Batch[n].payment_id)
      BY <1>1, <1>2 DEF ActedFor
    <2>2. QED BY <1>1, <2>1 DEF HistoryInv, ActionedInv
  <1>4. /\ \A r \in 1..run : finished(r)' => Complete(r)
        /\ finished(run)' => results'[run].truth = sealed_truth(actioned)
    <2>1. CASE Die
      <3>1. results[run] = NoResult
        BY <1>1 DEF ReadInv, ProgressInv, IInv, TypeInv
      <3>2. results' = results
        BY <2>1 DEF Die, Forget
      <3>3. \A r \in 1..run : finished(r)' <=> finished(r)
        BY <3>2 DEF finished
      <3>4. ~finished(run)'
        BY <1>1, <3>1, <3>2 DEF finished
      <3>5. QED BY <3>3, <3>4 DEF HistoryInv
    <2>2. CASE Estimate
      <3> DEFINE obs == Observations(1..Len(ledger), plan.experiment_id)
                 e == [truth |-> sealed_truth(actioned), tau_hat |-> estimate_ate(obs),
                       naive_gross |-> naive_gross(obs), tally |-> tally]
      <3>1. results' = [results EXCEPT ![run] = e] /\ e.truth = sealed_truth(actioned)
        BY <2>2 DEF Estimate
      <3>2. results \in Seq(Elements(results)) /\ Len(results) = run
        BY DEF IInv, TypeInv
      <3> HIDE DEF e
      <3>3. results'[run] = e /\ \A r \in 1..run : r # run => results'[r] = results[r]
        BY <1>1, <3>1, <3>2, UpdateAnything
      <3>4. Complete(run)
        BY <2>2 DEF Estimate, HistoryInv
      <3>5. \A r \in 1..run : finished(r)' => Complete(r)
        BY <3>3, <3>4 DEF finished, HistoryInv
      <3>6. QED BY <3>1, <3>3, <3>5
    <2>3. QED BY <2>1, <2>2
  <1>5. \A r : Complete(r)' <=> Complete(r)
    BY <1>2, CompleteKept
  <1>6. QED BY <1>1, <1>2, <1>3, <1>4, <1>5 DEF HistoryInv

LEMMA HistoryInvariant == Spec => [](IInv /\ ReadInv /\ HistoryInv)
  <1>1. ASSUME IInv, ReadInv, HistoryInv, [Next]_vars PROVE HistoryInv'
    <2>1. CASE StartRun
      BY <1>1, <2>1, HistoryStartRun
    <2>2. CASE Decide
      BY <1>1, <2>2, HistoryDecide
    <2>3. CASE Act
      BY <1>1, <2>3, HistoryAct
    <2>4. CASE Outcome
      BY <1>1, <2>4, HistoryOutcome
    <2>5. CASE Estimate \/ Die
      BY <1>1, <2>5, HistoryEnds
    <2>6. CASE UNCHANGED vars
      <3>1. /\ \A k : OutcomesTo(k)' = OutcomesTo(k)
            /\ \A r : Outcomes(r)' = Outcomes(r)
            /\ \A r, p : ActedFor(r, p)' <=> ActedFor(r, p)
            /\ \A k : PassedAt(k)' <=> PassedAt(k)
            /\ \A type : Seqs(type)' = Seqs(type)
        BY <2>6, HistoryStands DEF vars
      <3>2. \A r : Complete(r)' <=> Complete(r)
        BY <3>1, CompleteKept
      <3>3. UNCHANGED <<run, pc, i, actioned, results, plan, ladder>>
        BY <2>6 DEF vars
      <3>4. ActionedInv'
        <4>1. \A n \in 1..Len(Batch) :
                ActedFor(run, Batch[n].payment_id)' <=> ActedFor(run, Batch[n].payment_id)
          <5>1. run' = run /\ Seqs("ACTUATION")' = Seqs("ACTUATION") /\ ledger' = ledger
            BY <2>6, <3>1 DEF vars
          <5>2. QED BY <5>1 DEF ActedFor
        <4>2. d' = d /\ (take_action' <=> take_action)
          BY <3>3 DEF d, take_action, arm
        <4>3. QED BY <1>1, <3>3, <4>1, <4>2 DEF HistoryInv, ActionedInv
      <3>5. \A n : (\E k \in Outcomes(run) : Place(k) = n) => \E k \in Outcomes(run)' : Place(k)' = n
        BY <3>1, <3>3 DEF Place, Outcomes
      <3>6. QED BY <1>1, <3>1, <3>2, <3>3, <3>4, <3>5 DEF HistoryInv, finished
    <2>7. QED BY <1>1, <2>1, <2>2, <2>3, <2>4, <2>5, <2>6 DEF Next
  <1>2. IInv /\ ReadInv /\ HistoryInv /\ [Next]_vars => HistoryInv'
    BY <1>1
  <1>3. QED BY <1>2, ReadInvariant, HistoryInit, PTL DEF Spec

\* A run that was scored: the places of its outcomes are those of the batch.
LEMMA CompleteRun ==
  ASSUME IInv, ReadInv, HistoryInv, NEW r \in 1..run, Complete(r)
  PROVE  /\ IsFiniteSet(Outcomes(r))
         /\ \A k \in Outcomes(r) : PassedAt(k) /\ ReadableAt(k) /\ Place(k) \in 1..Len(Batch)
         /\ \A j, k \in Outcomes(r) : Place(j) = Place(k) => j = k
         /\ {Place(k) : k \in Outcomes(r)} = 1..Len(Batch)
  <1>1. \A k \in Outcomes(r) : PassedAt(k) /\ ReadableAt(k) /\ k \in Seqs("OUTCOME")
    BY DEF Outcomes, HistoryInv, ReadInv
  <1>2. \A k \in Outcomes(r) : Place(k) \in 1..Len(Batch)
    BY <1>1 DEF PassedAt
  <1>3. ASSUME NEW j \in Outcomes(r), NEW k \in Outcomes(r), Place(j) = Place(k) PROVE j = k
    <2>1. ledger[j].run = ledger[k].run /\ ledger[j].payment_id = ledger[k].payment_id
      BY <1>1, <1>3 DEF PassedAt, Outcomes
    <2>2. QED BY <1>1, <2>1 DEF ReadableAt
  <1>4. {Place(k) : k \in Outcomes(r)} = 1..Len(Batch)
    BY <1>2 DEF Complete
  <1>5. IsFiniteSet(Outcomes(r))
    <2>1. Outcomes(r) \subseteq 1..Len(ledger) /\ Len(ledger) \in Nat
      BY LenProperties DEF Outcomes, Seqs, IInv, TypeInv
    <2>2. IsFiniteSet(1..Len(ledger))
      BY <2>1, FS_Interval
    <2>3. QED BY <2>1, <2>2, FS_Subset
  <1>6. QED BY <1>1, <1>2, <1>3, <1>4, <1>5

LEMMA RecoveredIsWhole ==
  ASSUME NEW n \in 1..Len(Batch), NEW acted
  PROVE  Recovered(Batch[n], acted) \in Int
  BY Declines DEF Recovered, SyntheticDecline

\* What the outcomes S brought, less what their payments P would have brought
\* anyway, is what was gained by acting.
LEMMA GainIsRead ==
  ASSUME IInv, ReadInv, HistoryInv, run > 0, Complete(run),
         NEW S \in SUBSET Outcomes(run), NEW P,
         \A k \in Outcomes(run) : ledger[k].payment_id \in P <=> k \in S,
         \A k \in Outcomes(run) : ActedFor(run, ledger[k].payment_id) => k \in S
  PROVE  SumFunction([k \in S |-> ledger[k].recovered_amount_paise])
           - SumFunction([n \in 1..Len(Batch) |->
                            IF Batch[n].y0_recovered /\ Batch[n].payment_id \in P
                            THEN Batch[n].amount_paise ELSE 0])
         = sealed_truth(actioned)[1]
  <1> DEFINE I == 1..Len(Batch)
             R == Outcomes(run)
             nat == [n \in I |-> IF Batch[n].y0_recovered /\ Batch[n].payment_id \in P
                                    THEN Batch[n].amount_paise ELSE 0]
             Gain(x) == x.amount_paise * ((IF x.y1_recovered THEN 1 ELSE 0)
                                     - (IF x.y0_recovered THEN 1 ELSE 0))
             truth == [n \in I |-> IF actioned[Batch[n].payment_id] THEN Gain(Batch[n]) ELSE 0]
             got == [n \in I |-> IF Batch[n].payment_id \in P
                                    THEN Recovered(Batch[n], actioned[Batch[n].payment_id]) ELSE 0]
             paid == [k \in S |-> ledger[k].recovered_amount_paise]
             amount == [k \in R |-> ledger[k].recovered_amount_paise]
             part == [k \in R |-> IF k \in S THEN ledger[k].recovered_amount_paise ELSE 0]
  <1>1. run \in 1..run
    BY DEF IInv, TypeInv
  <1>2. /\ IsFiniteSet(R)
        /\ \A k \in R : PassedAt(k) /\ Place(k) \in I
        /\ \A j, k \in R : Place(j) = Place(k) => j = k
        /\ {Place(k) : k \in R} = I
    BY <1>1, CompleteRun
  <1>3. IsFiniteSet(I) /\ IsFiniteSet(S)
    BY <1>2, Declines, FS_Interval, FS_Subset
  <1>4. ASSUME NEW k \in R
        PROVE  LET x == Batch[Place(k)]
               IN  /\ ledger[k].payment_id = x.payment_id
                   /\ ledger[k].recovered_amount_paise = Recovered(x, actioned[x.payment_id])
                   /\ actioned[x.payment_id] => k \in S
    <2> DEFINE x == Batch[Place(k)]
    <2>1. ledger[k].payment_id = x.payment_id /\ ledger[k].run = run
      BY <1>2 DEF PassedAt, Outcomes
    <2>2. actioned[x.payment_id] <=> ActedFor(run, x.payment_id)
      BY <1>2 DEF HistoryInv, ActionedInv
    <2>3. ledger[k].recovered_amount_paise = Recovered(x, ActedFor(run, x.payment_id))
      BY <1>2, <2>1 DEF PassedAt
    <2> HIDE DEF x
    <2>4. Recovered(x, ActedFor(run, x.payment_id)) = Recovered(x, actioned[x.payment_id])
      BY <2>2 DEF Recovered
    <2>5. QED BY <2>1, <2>2, <2>3, <2>4 DEF x
  <1>5. ASSUME NEW n \in I
        PROVE  /\ Batch[n].amount_paise \in Nat
               /\ Batch[n].y0_recovered \in BOOLEAN /\ Batch[n].y1_recovered \in BOOLEAN
               /\ actioned[Batch[n].payment_id] => Batch[n].payment_id \in P
    <2>1. Batch[n] \in SyntheticDecline
      BY Declines
    <2>2. PICK k \in R : Place(k) = n
      BY <1>2
    <2>3. actioned[Batch[n].payment_id] => Batch[n].payment_id \in P
      BY <1>4, <2>2
    <2>4. QED BY <2>1, <2>3 DEF SyntheticDecline
  <1>6. ASSUME NEW n \in I PROVE got[n] = 1 * truth[n] + 1 * nat[n] /\ truth[n] \in Int /\ nat[n] \in Int
    <2> DEFINE x == Batch[n]
    <2>1. got[n] = IF x.payment_id \in P THEN Recovered(x, actioned[x.payment_id]) ELSE 0
      OBVIOUS
    <2>2. truth[n] = IF actioned[x.payment_id] THEN Gain(x) ELSE 0
      OBVIOUS
    <2>3. nat[n] = IF x.y0_recovered /\ x.payment_id \in P THEN x.amount_paise ELSE 0
      OBVIOUS
    <2>4. /\ x.amount_paise \in Nat /\ x.y0_recovered \in BOOLEAN /\ x.y1_recovered \in BOOLEAN
          /\ actioned[x.payment_id] => x.payment_id \in P
      BY <1>5
    <2>5. Gain(x) = (IF x.y1_recovered THEN x.amount_paise ELSE 0)
                      - (IF x.y0_recovered THEN x.amount_paise ELSE 0)
      BY <2>4
    <2> HIDE DEF x, Gain, got, truth, nat
    <2>6. CASE actioned[x.payment_id]
      BY <2>1, <2>2, <2>3, <2>4, <2>5, <2>6 DEF Recovered
    <2>7. CASE ~actioned[x.payment_id]
      BY <2>1, <2>2, <2>3, <2>4, <2>7 DEF Recovered
    <2>8. QED BY <2>6, <2>7
  <1>7. WholeOn(truth, I) /\ WholeOn(nat, I) /\ WholeOn(got, I) /\ WholeOn(amount, R)
    <2>1. WholeOn(truth, I) /\ WholeOn(nat, I) /\ WholeOn(got, I)
      <3> HIDE DEF truth, nat, got, I
      <3>1. QED BY <1>6 DEF WholeOn
    <2>2. ASSUME NEW k \in R PROVE ledger[k].recovered_amount_paise \in Int
      <3>1. Place(k) \in 1..Len(Batch)
        BY <1>2
      <3>2. QED BY <1>4, <3>1, RecoveredIsWhole
    <2>3. QED BY <2>1, <2>2 DEF WholeOn
  <1>8. ASSUME NEW k \in R PROVE part[k] = got[Place(k)]
    <2>1. Place(k) \in I
      BY <1>2
    <2>2. QED BY <1>4, <2>1
  <1>9. SumFunctionOnSet(got, I)
          = 1 * SumFunctionOnSet(truth, I) + 1 * SumFunctionOnSet(nat, I)
    <2>1. \A n \in I : got[n] = 1 * truth[n] + 1 * nat[n]
      BY <1>6
    <2> HIDE DEF got, truth, nat, I
    <2>2. QED BY <1>3, <1>7, <2>1, SumLinear
  <1>10. SumFunctionOnSet(part, R) = SumFunctionOnSet(got, I)
    <2> DEFINE h == [k \in R |-> Place(k)]
    <2>1. /\ \A k \in R : h[k] \in I /\ part[k] = got[h[k]]
          /\ \A j, k \in R : h[j] = h[k] => j = k
          /\ {h[k] : k \in R} = I
      BY SMTT(30), <1>2, <1>8
    <2> HIDE DEF got, part, R, I, h
    <2>2. SumFunctionOnSet(part, R) = SumFunctionOnSet(got, {h[k] : k \in R})
      BY <1>2, <1>7, <2>1, SumRenamed
    <2>3. QED BY <2>1, <2>2
  <1>11. SumFunctionOnSet(amount, S) = SumFunctionOnSet(part, R)
    <2>1. \A k \in R : part[k] = IF k \in S THEN amount[k] ELSE 0
      OBVIOUS
    <2> HIDE DEF part, amount, R
    <2>2. S \in SUBSET R
      BY DEF R
    <2>3. QED BY <1>2, <1>7, <2>1, <2>2, SumOfPart
  <1>12. SumFunctionOnSet(paid, S) = SumFunctionOnSet(amount, S)
    <2>1. \A k \in S : paid[k] = amount[k]
      OBVIOUS
    <2> HIDE DEF paid, amount
    <2>2. QED BY <1>3, <2>1, SumSame
  <1>13. /\ SumFunction(paid) = SumFunctionOnSet(paid, S)
         /\ SumFunction(nat) = SumFunctionOnSet(nat, I)
         /\ SumFunction(truth) = SumFunctionOnSet(truth, I)
    <2>1. DOMAIN paid = S /\ DOMAIN nat = I /\ DOMAIN truth = I
      OBVIOUS
    <2> HIDE DEF paid, nat, truth, I
    <2>2. QED BY <2>1 DEF SumFunction
  <1>14. sealed_truth(actioned)[1] = SumFunction(truth)
    BY DEF sealed_truth
  <1>15. SumFunctionOnSet(truth, I) \in Int /\ SumFunctionOnSet(nat, I) \in Int
    <2> HIDE DEF truth, nat, I
    <2>1. QED BY <1>3, <1>7, SumType
  <1>16. SumFunction(paid) - SumFunction(nat) = sealed_truth(actioned)[1]
    <2> HIDE DEF paid, nat, truth, got, part, amount, R, I
    <2>1. QED BY <1>9, <1>10, <1>11, <1>12, <1>13, <1>14, <1>15
  <1>17. QED BY <1>16

\* The sealed truth of a run, which the simulator computes from what the run
\* remembers, is what its rows in the ledger add up to: for all of the run's
\* outcomes, and for the treated alone.
THEOREM LedgerAlwaysAgreesWithSealedTruth == Spec => []LedgerAgreesWithSealedTruth
  <1>1. IInv /\ ReadInv /\ HistoryInv => LedgerAgreesWithSealedTruth
    <2> SUFFICES ASSUME IInv, ReadInv, HistoryInv, pc = "ended", run > 0, results[run] # NoResult
                 PROVE  LedgerAgreesWithSealedTruth
      BY DEF LedgerAgreesWithSealedTruth
    <2> DEFINE rows == {k \in load_experiment(1..Len(ledger), plan.experiment_id) :
                          ledger[k].run = run}
               treated == {k \in rows : ledger[k].arm = "treatment"}
               Sum(S) == SumFunction([k \in S |-> ledger[k].recovered_amount_paise])
               Natural(P) == SumFunction([n \in 1..Len(Batch) |->
                                            IF Batch[n].y0_recovered /\ Batch[n].payment_id \in P
                                            THEN Batch[n].amount_paise ELSE 0])
               everyone == {x.payment_id : x \in Range(Batch)}
               reached == {ledger[k].payment_id : k \in treated}
    <2>1. run \in 1..run /\ Complete(run)
      BY DEF HistoryInv, finished, IInv, TypeInv
    <2>2. \A k \in Outcomes(run) : PassedAt(k) /\ ReadableAt(k) /\ Place(k) \in 1..Len(Batch)
      BY <2>1, CompleteRun
    <2>3. rows = Outcomes(run)
      <3>1. \A k \in Outcomes(run) : ledger[k].experiment_id = plan.experiment_id
        BY DEF Outcomes, Done, ReadInv, ProgressInv
      <3>2. QED BY <3>1 DEF load_experiment, Outcomes, Seqs, IInv, RowsInv, OutcomeAt
    <2>4. \A k \in Outcomes(run) : ledger[k].payment_id \in everyone
      <3>1. \A n \in 1..Len(Batch) : Batch[n] \in Range(Batch)
        BY BatchAssumption, LenProperties DEF Range
      <3>2. QED BY <2>2, <3>1 DEF PassedAt
    <2>5. \A k \in Outcomes(run) : ledger[k].payment_id \in reached <=> k \in treated
      <3>1. \A j, k \in Outcomes(run) : ledger[j].payment_id = ledger[k].payment_id => j = k
        BY <2>2 DEF ReadableAt, Outcomes
      <3>2. QED BY <2>3, <3>1
    <2>6. \A k \in Outcomes(run) : ActedFor(run, ledger[k].payment_id) => k \in treated
      BY <2>2, <2>3 DEF PassedAt, Outcomes
    <2>7. results[run].truth = sealed_truth(actioned)
      BY DEF HistoryInv, finished
    <2>8. rows \in SUBSET Outcomes(run) /\ treated \in SUBSET Outcomes(run)
      BY <2>3
    <2>9. Sum(rows) - Natural(everyone) = results[run].truth[1]
      <3>1. \A k \in Outcomes(run) : /\ ledger[k].payment_id \in everyone <=> k \in rows
                                     /\ ActedFor(run, ledger[k].payment_id) => k \in rows
        BY <2>3, <2>4
      <3> HIDE DEF rows, everyone
      <3>2. QED BY <2>1, <2>7, <2>8, <3>1, GainIsRead
    <2>10. Sum(treated) - Natural(reached) = results[run].truth[1]
      <3> HIDE DEF treated, reached
      <3>1. QED BY <2>1, <2>5, <2>6, <2>7, <2>8, GainIsRead
    <2>11. ASSUME \A k \in load_experiment(1..Len(ledger), plan.experiment_id) : ledger[k].run = run
           PROVE  results[run].naive_gross = <<Sum(treated), Cardinality(treated)>>
      <3> DEFINE obs == Observations(1..Len(ledger), plan.experiment_id)
      <3>1. results[run].naive_gross = naive_gross(obs)
        BY DEF ReadInv, ProgressInv, ResultIsRead
      <3>2. DOMAIN obs = rows
        BY <2>11 DEF Observations
      <3>3. \A k \in rows : /\ obs[k].treated = (ledger[k].arm = "treatment")
                            /\ obs[k].y = ledger[k].recovered_amount_paise
        BY DEF Observations
      <3> HIDE DEF obs, rows
      <3>4. Arm(obs, TRUE) = treated
        BY <3>2, <3>3 DEF Arm
      <3>5. [k \in Arm(obs, TRUE) |-> obs[k].y] = [k \in treated |-> ledger[k].recovered_amount_paise]
        BY <3>3, <3>4
      <3> HIDE DEF treated
      <3>6. _arm_totals(obs, TRUE, "y")
              = <<SumFunction([k \in Arm(obs, TRUE) |-> obs[k].y]), Cardinality(Arm(obs, TRUE))>>
        BY DEF _arm_totals
      <3>7. QED BY <3>1, <3>4, <3>5, <3>6 DEF naive_gross
    <2>12. QED BY <2>9, <2>10, <2>11 DEF LedgerAgreesWithSealedTruth
  <1>2. QED BY <1>1, HistoryInvariant, PTL

-----------------------------------------------------------------------------
\* The estimator is linear in the outcomes.

Sample(S) == [S -> [y : Int, treated : BOOLEAN, cluster : STRING, x : Int]]

SumOf(o, A, v) == SumFunctionOnSet([k \in A |-> o[k][v]], A)

ProductsOf(o, S, v, w) == SumFunctionOnSet([k \in S |-> o[k][v] * o[k][w]], S)

Gap(o, v) ==
  SumOf(o, Arm(o, TRUE), v) * Cardinality(Arm(o, FALSE))
    - SumOf(o, Arm(o, FALSE), v) * Cardinality(Arm(o, TRUE))

Sizes(o) == Cardinality(Arm(o, TRUE)) * Cardinality(Arm(o, FALSE))

LEMMA EstimateParts ==
  ASSUME NEW o
  PROVE  estimate_ate(o) =
           IF Cov(o, "x", "x") = 0 THEN <<Gap(o, "y"), Sizes(o)>>
           ELSE <<Cov(o, "x", "x") * Gap(o, "y") - Cov(o, "y", "x") * Gap(o, "x"),
                  Cov(o, "x", "x") * Sizes(o)>>
  <1>1. ASSUME NEW v
        PROVE  LET t == _arm_totals(o, TRUE, v)
                   h == _arm_totals(o, FALSE, v)
               IN  t[1] * h[2] - h[1] * t[2] = Gap(o, v)
    <2>1. /\ _arm_totals(o, TRUE, v) = <<SumOf(o, Arm(o, TRUE), v), Cardinality(Arm(o, TRUE))>>
          /\ _arm_totals(o, FALSE, v) = <<SumOf(o, Arm(o, FALSE), v), Cardinality(Arm(o, FALSE))>>
      BY DEF _arm_totals, SumFunction, SumOf
    <2>2. /\ _arm_totals(o, TRUE, v)[1] = SumOf(o, Arm(o, TRUE), v)
          /\ _arm_totals(o, TRUE, v)[2] = Cardinality(Arm(o, TRUE))
          /\ _arm_totals(o, FALSE, v)[1] = SumOf(o, Arm(o, FALSE), v)
          /\ _arm_totals(o, FALSE, v)[2] = Cardinality(Arm(o, FALSE))
      <3> DEFINE t == _arm_totals(o, TRUE, v)
                 h == _arm_totals(o, FALSE, v)
                 A == SumOf(o, Arm(o, TRUE), v)
                 B == Cardinality(Arm(o, TRUE))
                 C == SumOf(o, Arm(o, FALSE), v)
                 E == Cardinality(Arm(o, FALSE))
      <3>1. t = <<A, B>> /\ h = <<C, E>>
        BY <2>1
      <3> HIDE DEF t, h, A, B, C, E
      <3>2. t[1] = A /\ t[2] = B /\ h[1] = C /\ h[2] = E
        BY <3>1
      <3>3. QED BY <3>2 DEF t, h, A, B, C, E
    <2>3. QED BY <2>2, Zenon DEF Gap
  <1>2. LET t == _arm_totals(o, TRUE, "y")
            h == _arm_totals(o, FALSE, "y")
        IN  t[1] * h[2] - h[1] * t[2] = Gap(o, "y")
    BY <1>1
  <1>3. LET t == _arm_totals(o, TRUE, "x")
            h == _arm_totals(o, FALSE, "x")
        IN  t[1] * h[2] - h[1] * t[2] = Gap(o, "x")
    BY <1>1
  <1>4. QED BY <1>2, <1>3, Zenon DEF estimate_ate, Sizes

LEMMA CovParts ==
  ASSUME NEW S, NEW o, DOMAIN o = S, NEW v, NEW w
  PROVE  Cov(o, v, w) = Cardinality(S) * ProductsOf(o, S, v, w) - SumOf(o, S, v) * SumOf(o, S, w)
  BY DEF Cov, SumFunction, SumOf, ProductsOf

LEMMA DifferencesIs ==
  ASSUME NEW S, NEW h \in Sample(S), NEW m \in Sample(S)
  PROVE  /\ DOMAIN Differences(h, m) = S
         /\ \A k \in S : /\ Differences(h, m)[k].y = m[k].y - h[k].y
                         /\ Differences(h, m)[k].treated = h[k].treated
                         /\ Differences(h, m)[k].x = h[k].x
  <1>1. DOMAIN h = S
    BY DEF Sample
  <1>2. DOMAIN Differences(h, m) = S
    BY <1>1 DEF Differences
  <1>3. ASSUME NEW k \in S
        PROVE  /\ Differences(h, m)[k].y = m[k].y - h[k].y
               /\ Differences(h, m)[k].treated = h[k].treated
               /\ Differences(h, m)[k].x = h[k].x
    <2>1. Differences(h, m)[k] = [h[k] EXCEPT !.y = m[k].y - h[k].y]
      BY <1>1 DEF Differences
    <2>2. h[k] \in [y : Int, treated : BOOLEAN, cluster : STRING, x : Int]
      BY DEF Sample
    <2> DEFINE r == h[k]
               e == m[k].y - h[k].y
    <2>3. Differences(h, m)[k] = [r EXCEPT !.y = e]
      BY <2>1
    <2> HIDE DEF r, e
    <2>4. r \in [y : Int, treated : BOOLEAN, cluster : STRING, x : Int]
      BY <2>2 DEF r
    <2>5. [r EXCEPT !.y = e].y = e /\ [r EXCEPT !.y = e].treated = r.treated
          /\ [r EXCEPT !.y = e].x = r.x
      BY <2>4
    <2>6. QED BY <2>3, <2>5 DEF r, e
  <1>4. QED BY <1>2, <1>3

LEMMA EstimateOfDifferences ==
  ASSUME NEW S, IsFiniteSet(S), NEW h \in Sample(S), NEW m \in Sample(S),
         \A k \in S : h[k].treated = m[k].treated /\ h[k].x = m[k].x
  PROVE  LET delta == estimate_ate(Differences(h, m))
         IN  /\ delta[2] = estimate_ate(h)[2]
             /\ delta[1] = estimate_ate(m)[1] - estimate_ate(h)[1]
             /\ estimate_ate(h)[1] \in Int
  <1> DEFINE D == Differences(h, m)
  <1>1. /\ DOMAIN D = S /\ DOMAIN h = S /\ DOMAIN m = S
        /\ \A k \in S : /\ D[k].y = m[k].y - h[k].y
                        /\ D[k].treated = h[k].treated /\ m[k].treated = h[k].treated
                        /\ D[k].x = h[k].x /\ m[k].x = h[k].x
                        /\ h[k].y \in Int /\ m[k].y \in Int /\ h[k].x \in Int
    BY DifferencesIs DEF Sample
  <1> HIDE DEF D
  <1>2. ASSUME NEW t \in BOOLEAN
        PROVE  /\ Arm(D, t) = Arm(h, t) /\ Arm(m, t) = Arm(h, t)
               /\ IsFiniteSet(Arm(h, t)) /\ Arm(h, t) \subseteq S
               /\ Cardinality(Arm(h, t)) \in Int
    <2>1. Arm(D, t) = Arm(h, t) /\ Arm(m, t) = Arm(h, t) /\ Arm(h, t) \subseteq S
      BY <1>1 DEF Arm
    <2>2. IsFiniteSet(Arm(h, t))
      BY <2>1, FS_Subset
    <2>3. Cardinality(Arm(h, t)) \in Nat
      BY <2>2, FS_CardinalityType
    <2>4. QED BY <2>1, <2>2, <2>3
  <1>3. ASSUME NEW A \in SUBSET S
        PROVE  /\ SumOf(D, A, "y") = SumOf(m, A, "y") - SumOf(h, A, "y")
               /\ SumOf(D, A, "x") = SumOf(h, A, "x") /\ SumOf(m, A, "x") = SumOf(h, A, "x")
               /\ SumOf(h, A, "y") \in Int /\ SumOf(m, A, "y") \in Int /\ SumOf(h, A, "x") \in Int
    <2>1. IsFiniteSet(A)
      BY FS_Subset
    <2> DEFINE Y(o) == [k \in A |-> o[k]["y"]]
               X(o) == [k \in A |-> o[k]["x"]]
    <2>2. \A k \in A : /\ Y(h)[k] \in Int /\ Y(m)[k] \in Int /\ Y(D)[k] = Y(m)[k] - Y(h)[k]
                       /\ X(h)[k] \in Int
      BY <1>1
    <2>3. X(D) = X(h) /\ X(m) = X(h)
      BY <1>1
    <2> DEFINE f == Y(h)
               g == Y(m)
               u == Y(D)
               x == X(h)
    <2>4. WholeOn(x, A)
      BY <2>2 DEF WholeOn
    <2>5. \A k \in A : f[k] \in Int /\ g[k] \in Int /\ u[k] = g[k] - f[k]
      BY <2>2
    <2> HIDE DEF f, g, u, x
    <2>6. /\ SumFunctionOnSet(f, A) \in Int /\ SumFunctionOnSet(g, A) \in Int
          /\ SumFunctionOnSet(u, A) = SumFunctionOnSet(g, A) - SumFunctionOnSet(f, A)
      BY <2>1, <2>5, SumOfDifferences
    <2>7. SumFunctionOnSet(x, A) \in Int
      BY <2>1, <2>4, SumType
    <2>8. QED BY <2>3, <2>6, <2>7 DEF SumOf, f, g, u, x
  <1>4. /\ ProductsOf(D, S, "y", "x") = ProductsOf(m, S, "y", "x") - ProductsOf(h, S, "y", "x")
        /\ ProductsOf(D, S, "x", "x") = ProductsOf(h, S, "x", "x")
        /\ ProductsOf(m, S, "x", "x") = ProductsOf(h, S, "x", "x")
        /\ ProductsOf(h, S, "y", "x") \in Int /\ ProductsOf(m, S, "y", "x") \in Int
        /\ ProductsOf(h, S, "x", "x") \in Int
    <2> DEFINE YX(o) == [k \in S |-> o[k]["y"] * o[k]["x"]]
               XX(o) == [k \in S |-> o[k]["x"] * o[k]["x"]]
    <2>1. ASSUME NEW k \in S
          PROVE  /\ YX(h)[k] \in Int /\ YX(m)[k] \in Int /\ YX(D)[k] = YX(m)[k] - YX(h)[k]
                 /\ XX(h)[k] \in Int
      <3>1. D[k].y * D[k].x = (m[k].y - h[k].y) * h[k].x
        BY <1>1
      <3>2. /\ (m[k].y - h[k].y) * h[k].x = m[k].y * h[k].x - h[k].y * h[k].x
            /\ m[k].y * h[k].x \in Int /\ h[k].y * h[k].x \in Int /\ h[k].x * h[k].x \in Int
        BY <1>1
      <3>3. m[k].x = h[k].x
        BY <1>1
      <3>4. QED BY <3>1, <3>2, <3>3
    <2>2. XX(D) = XX(h) /\ XX(m) = XX(h)
      BY <1>1
    <2> DEFINE f == YX(h)
               g == YX(m)
               u == YX(D)
               x == XX(h)
    <2>3. WholeOn(x, S)
      BY <2>1 DEF WholeOn
    <2>4. \A k \in S : f[k] \in Int /\ g[k] \in Int /\ u[k] = g[k] - f[k]
      BY <2>1
    <2> HIDE DEF f, g, u, x
    <2>5. /\ SumFunctionOnSet(f, S) \in Int /\ SumFunctionOnSet(g, S) \in Int
          /\ SumFunctionOnSet(u, S) = SumFunctionOnSet(g, S) - SumFunctionOnSet(f, S)
      BY <2>4, SumOfDifferences
    <2>6. SumFunctionOnSet(x, S) \in Int
      BY <2>3, SumType
    <2>7. QED BY <2>2, <2>5, <2>6 DEF ProductsOf, f, g, u, x
  <1>5. /\ Gap(D, "y") = Gap(m, "y") - Gap(h, "y")
        /\ Gap(D, "x") = Gap(h, "x") /\ Gap(m, "x") = Gap(h, "x")
        /\ Gap(h, "y") \in Int /\ Gap(m, "y") \in Int /\ Gap(h, "x") \in Int
    <2> DEFINE T == Arm(h, TRUE)
               H == Arm(h, FALSE)
               t == Cardinality(T)
               c == Cardinality(H)
    <2>1. T \in SUBSET S /\ H \in SUBSET S /\ t \in Int /\ c \in Int
      BY <1>2
    <2>2. /\ Arm(D, TRUE) = T /\ Arm(m, TRUE) = T
          /\ Arm(D, FALSE) = H /\ Arm(m, FALSE) = H
      BY <1>2
    <2>3. ASSUME NEW v \in {"y", "x"}
          PROVE  /\ Gap(D, v) = SumOf(D, T, v) * c - SumOf(D, H, v) * t
                 /\ Gap(m, v) = SumOf(m, T, v) * c - SumOf(m, H, v) * t
                 /\ Gap(h, v) = SumOf(h, T, v) * c - SumOf(h, H, v) * t
      BY <2>2 DEF Gap
    <2> HIDE DEF T, H, t, c
    <2>4. /\ SumOf(D, T, "y") = SumOf(m, T, "y") - SumOf(h, T, "y")
          /\ SumOf(D, H, "y") = SumOf(m, H, "y") - SumOf(h, H, "y")
          /\ SumOf(h, T, "y") \in Int /\ SumOf(m, T, "y") \in Int
          /\ SumOf(h, H, "y") \in Int /\ SumOf(m, H, "y") \in Int
          /\ SumOf(h, T, "x") \in Int /\ SumOf(h, H, "x") \in Int
          /\ SumOf(D, T, "x") = SumOf(h, T, "x") /\ SumOf(m, T, "x") = SumOf(h, T, "x")
          /\ SumOf(D, H, "x") = SumOf(h, H, "x") /\ SumOf(m, H, "x") = SumOf(h, H, "x")
      BY <1>3, <2>1
    <2>5. /\ (SumOf(m, T, "y") - SumOf(h, T, "y")) * c = SumOf(m, T, "y") * c - SumOf(h, T, "y") * c
          /\ (SumOf(m, H, "y") - SumOf(h, H, "y")) * t = SumOf(m, H, "y") * t - SumOf(h, H, "y") * t
          /\ SumOf(m, T, "y") * c \in Int /\ SumOf(h, T, "y") * c \in Int
          /\ SumOf(m, H, "y") * t \in Int /\ SumOf(h, H, "y") * t \in Int
          /\ SumOf(h, T, "x") * c \in Int /\ SumOf(h, H, "x") * t \in Int
      BY <2>1, <2>4
    <2>6. QED BY <2>3, <2>4, <2>5
  <1>6. /\ Cov(D, "y", "x") = Cov(m, "y", "x") - Cov(h, "y", "x")
        /\ Cov(D, "x", "x") = Cov(h, "x", "x") /\ Cov(m, "x", "x") = Cov(h, "x", "x")
        /\ Cov(h, "y", "x") \in Int /\ Cov(m, "y", "x") \in Int /\ Cov(h, "x", "x") \in Int
    <2> DEFINE n == Cardinality(S)
    <2>1. \A o \in {D, h, m} : \A v \in {"y", "x"} :
            Cov(o, v, "x") = n * ProductsOf(o, S, v, "x") - SumOf(o, S, v) * SumOf(o, S, "x")
      BY <1>1, CovParts
    <2>2. n \in Int
      BY FS_CardinalityType
    <2> HIDE DEF n
    <2>3. /\ SumOf(D, S, "y") = SumOf(m, S, "y") - SumOf(h, S, "y")
          /\ SumOf(D, S, "x") = SumOf(h, S, "x") /\ SumOf(m, S, "x") = SumOf(h, S, "x")
          /\ SumOf(h, S, "y") \in Int /\ SumOf(m, S, "y") \in Int /\ SumOf(h, S, "x") \in Int
      BY <1>3
    <2> DEFINE x == SumOf(h, S, "x")
    <2>4. /\ (SumOf(m, S, "y") - SumOf(h, S, "y")) * x = SumOf(m, S, "y") * x - SumOf(h, S, "y") * x
          /\ SumOf(m, S, "y") * x \in Int /\ SumOf(h, S, "y") * x \in Int /\ x * x \in Int
      BY <2>3
    <2>5. /\ n * (ProductsOf(m, S, "y", "x") - ProductsOf(h, S, "y", "x"))
               = n * ProductsOf(m, S, "y", "x") - n * ProductsOf(h, S, "y", "x")
          /\ n * ProductsOf(m, S, "y", "x") \in Int /\ n * ProductsOf(h, S, "y", "x") \in Int
          /\ n * ProductsOf(h, S, "x", "x") \in Int
      BY <1>4, <2>2
    <2>6. QED BY <1>4, <2>1, <2>3, <2>4, <2>5
  <1>7. Sizes(D) = Sizes(h) /\ Sizes(m) = Sizes(h) /\ Sizes(h) \in Int
    <2>1. /\ Arm(D, TRUE) = Arm(h, TRUE) /\ Arm(m, TRUE) = Arm(h, TRUE)
          /\ Arm(D, FALSE) = Arm(h, FALSE) /\ Arm(m, FALSE) = Arm(h, FALSE)
          /\ Cardinality(Arm(h, TRUE)) \in Int /\ Cardinality(Arm(h, FALSE)) \in Int
      BY <1>2
    <2>2. Sizes(D) = Sizes(h) /\ Sizes(m) = Sizes(h)
      BY <2>1, Zenon DEF Sizes
    <2> DEFINE t == Cardinality(Arm(h, TRUE))
               c == Cardinality(Arm(h, FALSE))
    <2>3. t \in Int /\ c \in Int
      BY <2>1
    <2> HIDE DEF t, c
    <2>4. t * c \in Int
      BY <2>3
    <2>5. Sizes(h) = t * c
      BY Zenon DEF Sizes, t, c
    <2>6. QED BY <2>2, <2>4, <2>5
  <1>8. CASE Cov(h, "x", "x") = 0
    <2>1. /\ estimate_ate(D) = <<Gap(D, "y"), Sizes(D)>>
          /\ estimate_ate(h) = <<Gap(h, "y"), Sizes(h)>>
          /\ estimate_ate(m) = <<Gap(m, "y"), Sizes(m)>>
      BY <1>6, <1>8, EstimateParts
    <2>2. QED BY <1>5, <1>7, <2>1 DEF D
  <1>9. CASE Cov(h, "x", "x") # 0
    <2> DEFINE V == Cov(h, "x", "x")
               G == Gap(h, "x")
               Value(o) == V * Gap(o, "y") - Cov(o, "y", "x") * G
    <2>1. /\ estimate_ate(D) = <<Value(D), V * Sizes(h)>>
          /\ estimate_ate(h) = <<Value(h), V * Sizes(h)>>
          /\ estimate_ate(m) = <<Value(m), V * Sizes(h)>>
      BY <1>5, <1>6, <1>7, <1>9, EstimateParts
    <2>2. V \in Int /\ G \in Int
      BY <1>5, <1>6
    <2> HIDE DEF V, G
    <2>3. /\ V * (Gap(m, "y") - Gap(h, "y")) = V * Gap(m, "y") - V * Gap(h, "y")
          /\ V * Gap(m, "y") \in Int /\ V * Gap(h, "y") \in Int
      BY <1>5, <2>2
    <2>4. /\ (Cov(m, "y", "x") - Cov(h, "y", "x")) * G = Cov(m, "y", "x") * G - Cov(h, "y", "x") * G
          /\ Cov(m, "y", "x") * G \in Int /\ Cov(h, "y", "x") * G \in Int
      BY <1>6, <2>2
    <2>5. Value(D) = Value(m) - Value(h) /\ Value(h) \in Int
      BY <1>5, <1>6, <2>3, <2>4
    <2> HIDE DEF Value
    <2>6. QED BY <2>1, <2>5 DEF D
  <1>10. QED BY <1>8, <1>9

\* What a run of the experiment that was scored, at this share of holdouts, leaves
\* of the n-th decline.
Observed(r, e, share, n) ==
  LET x == Batch[n]
  IN  [y |-> Recovered(x, ActedFor(r, x.payment_id)),
       treated |-> assign_arm(e, x.customer_id, share) = "treatment",
       cluster |-> x.customer_id,
       x |-> x.cuped_covariate]

LEMMA ColumnIsObserved ==
  ASSUME IInv, ReadInv, HistoryInv, NEW r \in 1..run, Complete(r),
         NEW e, NEW share, \A k \in file(r) : ledger[k].holdout_pct = share,
         column(r, e) # <<>>
  PROVE  /\ column(r, e) = [n \in 1..Len(Batch) |-> Observed(r, e, share, n)]
         /\ \A n \in 1..Len(Batch) :
              ActedFor(r, Batch[n].payment_id) => Observed(r, e, share, n).treated
  <1> DEFINE rows == load_experiment(file(r), e)
             obs == Observations(file(r), e)
  <1>1. /\ IsFiniteSet(Outcomes(r))
        /\ \A k \in Outcomes(r) : PassedAt(k) /\ ReadableAt(k) /\ Place(k) \in 1..Len(Batch)
        /\ \A j, k \in Outcomes(r) : Place(j) = Place(k) => j = k
        /\ {Place(k) : k \in Outcomes(r)} = 1..Len(Batch)
    BY CompleteRun
  <1>2. \A k \in rows : k \in Outcomes(r) /\ ledger[k].experiment_id = e
    BY DEF load_experiment, file, Outcomes, Seqs
  <1>3. \A k \in Outcomes(r) : ledger[k].experiment_id = e => k \in rows
    BY DEF load_experiment, file, Outcomes, Seqs, IInv, RowsInv, OutcomeAt
  <1>4. rows # {}
    <2>1. column(r, e) = [n \in 1..Cardinality(rows) |->
             obs[CHOOSE k \in rows : Cardinality({j \in rows : j <= k}) = n]]
      BY DEF column
    <2>2. ASSUME rows = {} PROVE FALSE
      <3>1. Cardinality(rows) = 0
        BY <2>2, FS_EmptySet
      <3> HIDE DEF rows, obs
      <3>2. column(r, e) = <<>>
        BY <2>1, <3>1
      <3>3. QED BY <3>2
    <2>3. QED BY <2>2
  <1>5. rows = Outcomes(r)
    <2>1. PICK m \in rows : m \in Outcomes(r) /\ ledger[m].experiment_id = e
      BY <1>2, <1>4
    <2>2. ASSUME NEW k \in Outcomes(r) PROVE ledger[k].experiment_id = e
      <3>1. k \in Nat /\ m \in Nat /\ k \in Seqs("OUTCOME") /\ m \in Seqs("OUTCOME")
        BY <2>1 DEF Outcomes, Seqs
      <3>2. ledger[k].run = ledger[m].run
        BY <2>1 DEF Outcomes
      <3>3. CASE k <= m
        <4>1. k \in OutcomesTo(m)
          BY <3>1, <3>2, <3>3 DEF OutcomesTo
        <4>2. QED BY <1>1, <2>1, <4>1 DEF PassedAt
      <3>4. CASE m <= k
        <4>1. m \in OutcomesTo(k)
          BY <3>1, <3>2, <3>4 DEF OutcomesTo
        <4>2. QED BY <1>1, <2>1, <4>1 DEF PassedAt
      <3>5. QED BY <3>1, <3>3, <3>4
    <2>3. QED BY <1>2, <1>3, <2>2
  <1>6. ASSUME NEW k \in Outcomes(r)
        PROVE  /\ obs[k] = Observed(r, e, share, Place(k))
               /\ ActedFor(r, Batch[Place(k)].payment_id) => Observed(r, e, share, Place(k)).treated
    <2> DEFINE x == Batch[Place(k)]
               o == ledger[k]
    <2>1. o.payment_id = x.payment_id /\ o.customer_id = x.customer_id /\ o.run = r
          /\ ledger[o.decision_seq].cuped_covariate = x.cuped_covariate
      BY <1>1 DEF PassedAt, Outcomes
    <2>2. o.recovered_amount_paise = Recovered(x, ActedFor(r, x.payment_id))
      BY <1>1, <2>1 DEF PassedAt
    <2>3. o.arm = assign_arm(e, x.customer_id, share)
      <3>1. o.arm = assign_arm(o.experiment_id, o.customer_id, o.holdout_pct)
        BY <1>1 DEF ReadableAt
      <3>2. o.experiment_id = e /\ o.holdout_pct = share
        BY <1>2, <1>5 DEF file, Outcomes, Seqs
      <3>3. QED BY <2>1, <3>1, <3>2
    <2>4. obs[k] = [y |-> o.recovered_amount_paise, treated |-> o.arm = "treatment",
                    cluster |-> o.customer_id, x |-> ledger[o.decision_seq].cuped_covariate]
      BY <1>5 DEF Observations
    <2>5. ActedFor(r, x.payment_id) => o.arm = "treatment"
      BY <1>1, <2>1 DEF PassedAt
    <2> HIDE DEF o
    <2>6. QED BY <2>1, <2>2, <2>3, <2>4, <2>5, Zenon DEF Observed
  <1>7. ASSUME NEW n \in 1..Len(Batch)
        PROVE  LET c == CHOOSE k \in rows : Cardinality({j \in rows : j <= k}) = n
               IN  c \in Outcomes(r) /\ Place(c) = n
    <2>1. \A k \in rows : Cardinality({j \in rows : j <= k}) = Place(k)
      <3>1. \A k \in rows : {j \in rows : j <= k} = OutcomesTo(k)
        BY <1>5 DEF Outcomes, OutcomesTo
      <3>2. QED BY <3>1 DEF Place
    <2>2. \E k \in rows : Place(k) = n
      BY <1>1, <1>5
    <2> HIDE DEF rows
    <2>3. QED BY <1>5, <2>1, <2>2
  <1>8. column(r, e) = [n \in 1..Len(Batch) |-> Observed(r, e, share, n)]
    <2>1. Cardinality(rows) = Len(Batch)
      BY <1>5 DEF Complete
    <2>2. \A n \in 1..Len(Batch) :
            obs[CHOOSE k \in rows : Cardinality({j \in rows : j <= k}) = n] = Observed(r, e, share, n)
      BY <1>6, <1>7
    <2> HIDE DEF rows, obs
    <2>3. column(r, e) = [n \in 1..Cardinality(rows) |->
             obs[CHOOSE k \in rows : Cardinality({j \in rows : j <= k}) = n]]
      BY DEF column, rows, obs
    <2>4. QED BY <2>1, <2>2, <2>3
  <1>9. ASSUME NEW n \in 1..Len(Batch), ActedFor(r, Batch[n].payment_id)
        PROVE  Observed(r, e, share, n).treated
    <2>1. PICK k \in Outcomes(r) : Place(k) = n
      BY <1>1
    <2>2. QED BY <1>6, <1>9, <2>1
  <1>10. QED BY <1>8, <1>9

\* Runs of one experiment, at one share of holdouts, under two attributions can
\* always be compared, however each went: they differ by what was acted on and by
\* nothing else, and the difference of the effects is the effect on the
\* differences.
THEOREM AblationsAlwaysPaired == Spec => []AblationIsPaired
  <1>1. IInv /\ ReadInv /\ HistoryInv => AblationIsPaired
    <2> SUFFICES ASSUME IInv, ReadInv, HistoryInv, NEW r \in 1..run, NEW s \in 1..run,
                        NEW e \in Experiments, r # s, finished(r), finished(s),
                        SameShare(r, s),
                        column(r, e) # <<>>, column(s, e) # <<>>
                 PROVE  LET h == column(r, e)
                            m == column(s, e)
                            delta == paired_delta(r, s, e)
                            ActedOn(t) == {ledger[k].payment_id :
                                             k \in {k \in file(t) : ledger[k].entry_type = "ACTUATION"}}
                        IN  /\ Paired(h, m)
                            /\ \A n \in DOMAIN h : h[n].treated \/ h[n].y = m[n].y
                            /\ delta[2] = tau(r, e)[2] /\ delta[1] = tau(s, e)[1] - tau(r, e)[1]
                            /\ ActedOn(r) = ActedOn(s) => delta[1] = 0
      BY ZenonT(60) DEF AblationIsPaired
    <2> DEFINE h == column(r, e)
               m == column(s, e)
               I == 1..Len(Batch)
               ActedOn(t) == {ledger[k].payment_id :
                                k \in {k \in file(t) : ledger[k].entry_type = "ACTUATION"}}
    <2>0. PICK share : /\ \A k \in file(r) : ledger[k].holdout_pct = share
                       /\ \A k \in file(s) : ledger[k].holdout_pct = share
      <3>1. Complete(r) /\ Complete(s)
        BY DEF HistoryInv
      <3>2. 1 \in 1..Len(Batch)
        BY Declines
      <3>3. PICK j \in Outcomes(r) : Place(j) = 1
        BY <3>1, <3>2 DEF Complete
      <3>4. PICK k \in Outcomes(s) : Place(k) = 1
        BY <3>1, <3>2 DEF Complete
      <3>5. j \in file(r) /\ k \in file(s)
        BY <3>3, <3>4 DEF Outcomes, Seqs, file
      <3> HIDE DEF h, m, I, ActedOn
      <3>6. QED BY <3>5 DEF SameShare
    <2>1. /\ h = [n \in I |-> Observed(r, e, share, n)]
          /\ m = [n \in I |-> Observed(s, e, share, n)]
          /\ \A n \in I : /\ ActedFor(r, Batch[n].payment_id) => Observed(r, e, share, n).treated
                          /\ ActedFor(s, Batch[n].payment_id) => Observed(s, e, share, n).treated
      BY <2>0, ColumnIsObserved DEF HistoryInv
    <2>2. ASSUME NEW n \in I
          PROVE  /\ Observed(r, e, share, n) \in [y : Int, treated : BOOLEAN, cluster : STRING, x : Int]
                 /\ Observed(s, e, share, n) \in [y : Int, treated : BOOLEAN, cluster : STRING, x : Int]
                 /\ Observed(r, e, share, n).treated = Observed(s, e, share, n).treated
                 /\ Observed(r, e, share, n).x = Observed(s, e, share, n).x
                 /\ Observed(r, e, share, n).cluster = Observed(s, e, share, n).cluster
                 /\ (ActedFor(r, Batch[n].payment_id) <=> ActedFor(s, Batch[n].payment_id)) =>
                       Observed(r, e, share, n) = Observed(s, e, share, n)
      <3> DEFINE x == Batch[n]
                 a == ActedFor(r, x.payment_id)
                 b == ActedFor(s, x.payment_id)
      <3>1. x.customer_id \in STRING /\ x.cuped_covariate \in Int
        BY Declines DEF SyntheticDecline
      <3>2. Recovered(x, a) \in Int /\ Recovered(x, b) \in Int
        BY RecoveredIsWhole
      <3>3. (a <=> b) => Recovered(x, a) = Recovered(x, b)
        BY DEF Recovered
      <3>4. QED BY <3>1, <3>2, <3>3 DEF Observed
    <2>3. Paired(h, m)
      BY <2>1, <2>2 DEF Paired
    <2>4. ASSUME NEW n \in DOMAIN h PROVE h[n].treated \/ h[n].y = m[n].y
      <3>1. n \in I /\ h[n] = Observed(r, e, share, n) /\ m[n] = Observed(s, e, share, n)
        BY <2>1
      <3>2. CASE ActedFor(r, Batch[n].payment_id) \/ ActedFor(s, Batch[n].payment_id)
        BY <2>1, <2>2, <3>1, <3>2
      <3>3. CASE ~ActedFor(r, Batch[n].payment_id) /\ ~ActedFor(s, Batch[n].payment_id)
        BY <2>2, <3>1, <3>3
      <3>4. QED BY <3>2, <3>3
    <2>5. h \in Sample(I) /\ m \in Sample(I) /\ IsFiniteSet(I)
          /\ \A n \in I : h[n].treated = m[n].treated /\ h[n].x = m[n].x
      <3>1. IsFiniteSet(I)
        BY Declines, FS_Interval
      <3>2. h \in Sample(I) /\ m \in Sample(I)
        BY <2>1, <2>2 DEF Sample
      <3>3. QED BY <2>1, <2>2, <3>1, <3>2
    <2>6. paired_delta(r, s, e) = estimate_ate(Differences(h, m))
      BY <2>3 DEF paired_delta
    <2>7. /\ paired_delta(r, s, e)[2] = tau(r, e)[2]
          /\ paired_delta(r, s, e)[1] = tau(s, e)[1] - tau(r, e)[1]
          /\ tau(r, e)[1] \in Int
      <3>1. tau(r, e) = estimate_ate(h) /\ tau(s, e) = estimate_ate(m)
        BY DEF tau
      <3> HIDE DEF h, m, I
      <3>2. LET delta == estimate_ate(Differences(h, m))
            IN  /\ delta[2] = estimate_ate(h)[2]
                /\ delta[1] = estimate_ate(m)[1] - estimate_ate(h)[1]
                /\ estimate_ate(h)[1] \in Int
        BY <2>5, EstimateOfDifferences
      <3>3. QED BY <2>6, <3>1, <3>2
    <2>8. ActedOn(r) = ActedOn(s) => h = m
      <3>1. \A payment : /\ payment \in ActedOn(r) <=> ActedFor(r, payment)
                         /\ payment \in ActedOn(s) <=> ActedFor(s, payment)
        BY DEF file, ActedFor, Seqs
      <3>2. ASSUME ActedOn(r) = ActedOn(s), NEW n \in I
            PROVE  Observed(r, e, share, n) = Observed(s, e, share, n)
        <4> HIDE DEF ActedOn
        <4>1. QED BY <2>2, <3>1, <3>2
      <3> HIDE DEF ActedOn
      <3>3. QED BY <2>1, <3>2
    <2>9. ActedOn(r) = ActedOn(s) => paired_delta(r, s, e)[1] = 0
      <3>1. ASSUME ActedOn(r) = ActedOn(s) PROVE tau(r, e) = tau(s, e)
        BY <2>8, <3>1 DEF tau
      <3> HIDE DEF ActedOn
      <3>2. QED BY <2>7, <3>1
    <2>10. QED BY <2>3, <2>4, <2>7, <2>9
  <1>2. QED BY <1>1, HistoryInvariant, PTL

-----------------------------------------------------------------------------
(* The counters alone.                                                     *)

\* What After(s) is made of: the counters after each call.
Recording(s, c) ==
  c = [n \in 0..Len(s) |-> IF n = 0 THEN [key \in {"key"} |-> <<>>]
                           ELSE record(c[n - 1], "key", s[n])]

LEMMA RecordingExists ==
  ASSUME NEW s \in Seq(Nat)
  PROVE  \E c : Recording(s, c)
  <1> DEFINE Start == [key \in {"key"} |-> <<>>]
             Upto(m) == \E c : c = [n \in 0..m |-> IF n = 0 THEN Start
                                                  ELSE record(c[n - 1], "key", s[n])]
             Bad == {m \in Nat : ~Upto(m)}
  <1> HIDE DEF Start
  <1>1. Upto(0)
    <2> DEFINE c == [n \in 0..0 |-> Start]
    <2>1. c = [n \in 0..0 |-> IF n = 0 THEN Start ELSE record(c[n - 1], "key", s[n])]
      OBVIOUS
    <2> HIDE DEF c
    <2>2. QED BY <2>1
  <1>2. ASSUME NEW m \in Nat, Upto(m) PROVE Upto(m + 1)
    <2>1. PICK c : c = [n \in 0..m |-> IF n = 0 THEN Start ELSE record(c[n - 1], "key", s[n])]
      BY <1>2
    <2> DEFINE e == [n \in 0..(m + 1) |-> IF n = m + 1 THEN record(c[m], "key", s[m + 1]) ELSE c[n]]
    <2>2. ASSUME NEW n \in 0..(m + 1)
          PROVE  e[n] = IF n = 0 THEN Start ELSE record(e[n - 1], "key", s[n])
      <3>1. CASE n = m + 1
        <4>1. e[n] = record(c[m], "key", s[m + 1]) /\ n # 0 /\ n - 1 = m /\ m \in 0..(m + 1) /\ m # m + 1
          BY <3>1
        <4>2. e[m] = c[m]
          BY <4>1
        <4> HIDE DEF e
        <4>3. QED BY <3>1, <4>1, <4>2
      <3>2. CASE n # m + 1 /\ n # 0
        <4>1. n \in 0..m /\ n - 1 \in 0..(m + 1) /\ n - 1 # m + 1
          BY <3>2
        <4>2. e[n] = c[n] /\ e[n - 1] = c[n - 1]
          BY <3>2, <4>1
        <4>3. c[n] = record(c[n - 1], "key", s[n])
          BY <2>1, <3>2, <4>1
        <4> HIDE DEF e
        <4>4. QED BY <3>2, <4>2, <4>3
      <3>3. CASE n = 0
        <4>1. 0 \in 0..m /\ 0 # m + 1
          OBVIOUS
        <4>2. e[0] = c[0]
          BY <4>1
        <4>3. c[0] = Start
          BY <2>1, <4>1
        <4> HIDE DEF e
        <4>4. QED BY <3>3, <4>2, <4>3
      <3>4. QED BY <3>1, <3>2, <3>3
    <2>3. e = [n \in 0..(m + 1) |-> e[n]]
      OBVIOUS
    <2> HIDE DEF e
    <2>4. e = [n \in 0..(m + 1) |-> IF n = 0 THEN Start ELSE record(e[n - 1], "key", s[n])]
      BY <2>2, <2>3
    <2>5. QED BY <2>4
  <1> HIDE DEF Upto
  <1>3. Bad = {}
    <2> SUFFICES ASSUME Bad # {} PROVE FALSE
      OBVIOUS
    <2>1. PICK m \in Bad : \A l \in Bad : m <= l
      BY LeastMember
    <2>2. m \in Nat /\ ~Upto(m) /\ m # 0
      BY <1>1
    <2>3. m - 1 \in Nat /\ m - 1 \notin Bad
      BY <2>1, <2>2
    <2>4. Upto(m - 1)
      BY <2>3
    <2>5. Upto((m - 1) + 1)
      BY <1>2, <2>3, <2>4
    <2>6. (m - 1) + 1 = m
      BY <2>2
    <2>7. QED BY <2>2, <2>5, <2>6
  <1>4. Len(s) \in Nat
    BY LenProperties
  <1>5. Upto(Len(s))
    BY <1>3, <1>4
  <1>6. QED BY <1>5 DEF Upto, Recording, Start

\* Among the times a key holds there are, for every set of times, as many as
\* were recorded for it; in their order, whatever order they came in.
LEMMA AllAreRecorded ==
  ASSUME NEW s \in Seq(Nat)
  PROVE  /\ After(s)["key"] \in Seq(Nat) /\ Sorted(After(s)["key"])
         /\ \A T : Cardinality(At(After(s)["key"], T)) = Cardinality(At(s, T))
  <1> DEFINE L == Len(s)
             c == CHOOSE e : Recording(s, e)
             Seen(n, T) == {m \in 1..n : s[m] \in T}
             Good(n) == /\ DOMAIN c[n] = {"key"}
                        /\ c[n]["key"] \in Seq(Nat) /\ Sorted(c[n]["key"])
                        /\ \A T : Cardinality(At(c[n]["key"], T)) = Cardinality(Seen(n, T))
             Bad == {n \in 0..L : ~Good(n)}
  <1>1. L \in Nat /\ \A m \in 1..L : s[m] \in Nat
    BY LenProperties, ElementOfSeq
  <1>2. After(s) = c[L]
    BY DEF After, Recording
  <1>3. Recording(s, c)
    BY RecordingExists
  <1> HIDE DEF c
  <1>4. /\ c[0] = [key \in {"key"} |-> <<>>]
        /\ \A n \in 1..L : c[n] = record(c[n - 1], "key", s[n])
    <2>1. \A n \in 0..L : c[n] = IF n = 0 THEN [key \in {"key"} |-> <<>>]
                                 ELSE record(c[n - 1], "key", s[n])
      BY <1>3 DEF Recording
    <2>2. 0 \in 0..L /\ \A n \in 1..L : n \in 0..L /\ n # 0
      BY <1>1
    <2>3. QED BY <2>1, <2>2
  <1> HIDE DEF L
  <1>5. Good(0)
    <2>1. c[0]["key"] = <<>> /\ DOMAIN c[0] = {"key"}
      BY <1>4
    <2>2. <<>> \in Seq(Nat) /\ Len(<<>>) = 0
      OBVIOUS
    <2>3. Sorted(<<>>) /\ \A T : At(<<>>, T) = {}
      BY <2>2 DEF Sorted, At
    <2>4. \A T : Seen(0, T) = {}
      OBVIOUS
    <2>5. QED BY <2>1, <2>2, <2>3, <2>4
  <1>6. ASSUME NEW n \in 1..L, Good(n - 1) PROVE Good(n)
    <2> DEFINE old == c[n - 1]["key"]
               x == s[n]
    <2>1. /\ old \in Seq(Nat) /\ Sorted(old) /\ x \in Nat
          /\ \A T : Cardinality(At(old, T)) = Cardinality(Seen(n - 1, T))
      BY <1>1, <1>6
    <2>2. c[n]["key"] = insort(old, x) /\ DOMAIN c[n] = {"key"}
      BY <1>4, <1>6 DEF record
    <2> HIDE DEF old, x
    <2>3. insort(old, x) \in Seq(Nat) /\ Sorted(insort(old, x))
      BY <2>1, InsortProperties
    <2>4. ASSUME NEW T PROVE Cardinality(At(insort(old, x), T)) = Cardinality(Seen(n, T))
      <3>1. Cardinality(At(insort(old, x), T)) = Cardinality(Seen(n - 1, T)) + (IF x \in T THEN 1 ELSE 0)
        BY <2>1, InsortCounts
      <3>2. IsFiniteSet(Seen(n - 1, T)) /\ Cardinality(Seen(n - 1, T)) \in Nat
        <4>1. n - 1 \in Int /\ 1 \in Int
          BY <1>1
        <4>2. IsFiniteSet(1..(n - 1))
          BY <4>1, FS_Interval
        <4>3. Seen(n - 1, T) \subseteq 1..(n - 1)
          OBVIOUS
        <4> HIDE DEF Seen
        <4>4. QED BY <4>2, <4>3, FS_Subset, FS_CardinalityType
      <3>3. 1..n = (1..(n - 1)) \union {n} /\ n \notin 1..(n - 1)
        BY <1>1
      <3>4. CASE x \in T
        <4>1. Seen(n, T) = Seen(n - 1, T) \union {n} /\ n \notin Seen(n - 1, T)
          BY <3>3, <3>4 DEF x
        <4> HIDE DEF Seen
        <4>2. Cardinality(Seen(n - 1, T) \union {n}) = Cardinality(Seen(n - 1, T)) + 1
          BY <3>2, <4>1, FS_AddElement
        <4>3. QED BY <3>1, <3>4, <4>1, <4>2
      <3>5. CASE x \notin T
        <4>1. Seen(n, T) = Seen(n - 1, T)
          BY <3>3, <3>5 DEF x
        <4> HIDE DEF Seen
        <4>2. QED BY <3>1, <3>2, <3>5, <4>1
      <3>6. QED BY <3>4, <3>5
    <2>5. QED BY <2>2, <2>3, <2>4
  <1> HIDE DEF Good
  <1>7. Bad = {}
    <2> SUFFICES ASSUME Bad # {} PROVE FALSE
      OBVIOUS
    <2>1. Bad \in SUBSET Nat
      BY <1>1
    <2>2. PICK m \in Bad : \A l \in Bad : m <= l
      BY <2>1, LeastMember
    <2>3. m \in 1..L /\ ~Good(m)
      BY <1>1, <1>5, <2>2
    <2>4. m - 1 \in 0..L /\ m - 1 \notin Bad
      BY <1>1, <2>2, <2>3
    <2>5. Good(m - 1)
      BY <2>4
    <2>6. QED BY <1>6, <2>3, <2>5
  <1>8. Good(L)
    BY <1>1, <1>7
  <1>9. \A T : Seen(L, T) = At(s, T)
    BY DEF At, L
  <1>10. QED BY <1>2, <1>8, <1>9 DEF Good

\* What a counter says, for any times recorded in any order and any window.
LEMMA AnyCountIsExact ==
  ASSUME NEW s \in Seq(Nat), NEW now \in Nat, NEW window \in Nat
  PROVE  count(After(s), "key", now, window) = Cardinality(At(s, (now - window)..now))
  <1> DEFINE kept == After(s)["key"]
  <1>1. /\ kept \in Seq(Nat) /\ Sorted(kept)
        /\ \A T : Cardinality(At(kept, T)) = Cardinality(At(s, T))
    BY AllAreRecorded
  <1>2. count(After(s), "key", now, window) = bisect_right(kept, now) - bisect_left(kept, now - window)
    BY DEF count
  <1> HIDE DEF kept
  <1>3. bisect_right(kept, now) - bisect_left(kept, now - window)
          = Cardinality(At(kept, (now - window)..now))
    BY <1>1, WindowIsExact
  <1>4. QED BY <1>1, <1>2, <1>3

\* For every batch, and every order in which its attempts are recorded.
THEOREM CountsAlwaysExact == Spec => []CountIsExact
  <1> DEFINE Firings == {x.ts + RETRY_DELAY : x \in Range(Batch)}
             Nows == {x.ts : x \in Range(Batch)}
  <1>1. Firings \subseteq Nat /\ Nows \subseteq Nat
    <2>1. \A x \in Range(Batch) : x.ts \in Nat
      <3>1. SUFFICES ASSUME NEW x \in Range(Batch) PROVE x.ts \in Nat
        OBVIOUS
      <3>2. DOMAIN Batch = 1..Len(Batch)
        BY BatchAssumption, LenProperties
      <3>3. PICK n \in 1..Len(Batch) : x = Batch[n]
        BY <3>2 DEF Range
      <3>4. x \in SyntheticDecline
        BY <3>3, Declines
      <3>5. QED BY <3>4 DEF SyntheticDecline
    <2>2. QED BY <2>1 DEF RETRY_DELAY
  <1>2. {WINDOW_1H, WINDOW_7D, WINDOW_30D} \subseteq Nat
    BY DEF WINDOW_1H, WINDOW_7D, WINDOW_30D
  <1>3. SeqOf(Firings, Len(Batch)) \subseteq Seq(Nat)
    <2> SUFFICES ASSUME NEW s \in SeqOf(Firings, Len(Batch)) PROVE s \in Seq(Nat)
      OBVIOUS
    <2>1. PICK m \in 0..Len(Batch) : s \in [1..m -> Firings]
      BY DEF SeqOf
    <2>2. m \in Nat /\ s \in [1..m -> Nat]
      BY <1>1, <2>1, BatchAssumption, LenProperties
    <2>3. QED BY <2>2, SeqDef
  <1>4. CountIsExact
    <2> SUFFICES ASSUME NEW s \in SeqOf(Firings, Len(Batch)), NEW now \in Nows,
                        NEW window \in {WINDOW_1H, WINDOW_7D, WINDOW_30D}
                 PROVE  count(After(s), "key", now, window) =
                          Cardinality({n \in 1..Len(s) : s[n] \in (now - window)..now})
      BY DEF CountIsExact
    <2>1. s \in Seq(Nat) /\ now \in Nat /\ window \in Nat
      BY <1>1, <1>2, <1>3
    <2> HIDE DEF Firings, Nows
    <2>2. count(After(s), "key", now, window) = Cardinality(At(s, (now - window)..now))
      BY <2>1, AnyCountIsExact
    <2>3. QED BY <2>2 DEF At
  <1>5. QED BY <1>4, PTL DEF Spec

-----------------------------------------------------------------------------
(* The batch size a measured curve recommends.                             *)

\* The i-th smallest of numbers is one of them.
LEMMA SmallestExists ==
  ASSUME NEW values \in Seq(Nat), NEW c \in 1..Len(values)
  PROVE  Smallest(values, c) \in Nat
  <1> DEFINE L == Len(values)
             Below(v) == {n \in 1..L : values[n] < v}
             Upto(v) == {n \in 1..L : values[n] <= v}
             T == {v \in Range(values) : Cardinality(Upto(v)) >= c}
  <1>1. L \in Nat /\ values \in [1..L -> Nat] /\ c \in 1..L
    BY LenProperties
  <1>2. Range(values) = {values[n] : n \in 1..L} /\ \A n \in 1..L : values[n] \in Nat
    BY <1>1 DEF Range
  <1>3. IsFiniteSet(1..L) /\ Cardinality(1..L) = L
    <2>1. 1 \in Int /\ L \in Int
      BY <1>1
    <2>2. IsFiniteSet(1..L) /\ Cardinality(1..L) = IF 1 > L THEN 0 ELSE L - 1 + 1
      BY <2>1, FS_Interval
    <2>3. QED BY <1>1, <2>2
  <1> HIDE DEF L
  <1>4. ASSUME NEW K \in SUBSET (1..L)
        PROVE  K # {} => \E n \in K : \A m \in K : values[m] <= values[n]
    <2>1. PICK B \in Nat : \A n \in 1..L : values[n] <= B
      BY <1>1, BoundExists
    <2> DEFINE Gaps == {B - values[n] : n \in K}
    <2>2. Gaps \in SUBSET Nat
      BY <1>2, <2>1
    <2>3. SUFFICES ASSUME K # {} PROVE \E n \in K : \A m \in K : values[m] <= values[n]
      OBVIOUS
    <2>4. Gaps # {}
      BY <2>3
    <2>5. PICK g \in Gaps : \A h \in Gaps : g <= h
      <3> HIDE DEF Gaps
      <3>1. QED BY <2>2, <2>4, LeastMember
    <2>6. PICK n \in K : g = B - values[n]
      BY <2>5
    <2>7. ASSUME NEW m \in K PROVE values[m] <= values[n]
      <3>1. g <= B - values[m]
        BY <2>5
      <3>2. values[m] \in Nat /\ values[n] \in Nat
        BY <1>2
      <3>3. QED BY SMTT(30), <2>1, <2>6, <3>1, <3>2
    <2>8. QED BY <2>7
  <1>5. T # {} /\ T \in SUBSET Nat
    <2>1. PICK n \in 1..L : \A m \in 1..L : values[m] <= values[n]
      <3>1. 1..L # {}
        BY <1>1
      <3>2. QED BY <1>4, <3>1
    <2>2. Upto(values[n]) = 1..L
      BY <2>1
    <2>3. values[n] \in Range(values)
      BY <1>2
    <2> HIDE DEF Upto
    <2>4. values[n] \in T
      BY <1>1, <1>3, <2>2, <2>3
    <2>5. QED BY <1>2, <2>4
  <1>6. PICK v \in T : \A w \in T : v <= w
    <2> HIDE DEF T
    <2>1. QED BY <1>5, LeastMember
  <1>7. Cardinality(Upto(v)) >= c /\ v \in Range(values) /\ v \in Nat
    BY <1>5, <1>6
  <1>8. Cardinality(Below(v)) < c
    <2>1. CASE Below(v) = {}
      <3>1. Cardinality(Below(v)) = 0
        BY <2>1, FS_EmptySet
      <3>2. QED BY <1>1, <3>1
    <2>2. CASE Below(v) # {}
      <3>1. PICK n \in Below(v) : \A m \in Below(v) : values[m] <= values[n]
        BY <1>4, <2>2
      <3>2. values[n] < v /\ values[n] \in Nat /\ values[n] \in Range(values)
        BY <1>2, <3>1
      <3>3. Upto(values[n]) = Below(v)
        <4>1. \A m \in 1..L : values[m] <= values[n] => values[m] < v
          BY <1>2, <1>7, <3>2
        <4>2. \A m \in 1..L : values[m] < v => values[m] <= values[n]
          BY <3>1
        <4>3. QED BY <4>1, <4>2
      <3>4. values[n] \notin T
        BY <1>6, <1>7, <3>2
      <3>5. ~(Cardinality(Upto(values[n])) >= c)
        BY <3>2, <3>4
      <3>6. Cardinality(Below(v)) \in Nat
        <4>1. Below(v) \subseteq 1..L
          OBVIOUS
        <4> HIDE DEF Below
        <4>2. QED BY <1>3, <4>1, FS_Subset, FS_CardinalityType
      <3> HIDE DEF Below, Upto
      <3>7. QED BY <1>1, <3>3, <3>5, <3>6
    <2>3. QED BY <2>1, <2>2
  <1> DEFINE Is(u) == Cardinality(Below(u)) < c /\ Cardinality(Upto(u)) >= c
  <1>9. \E u \in Range(values) : Is(u)
    BY <1>7, <1>8
  <1>10. Smallest(values, c) = CHOOSE u \in Range(values) : Is(u)
    BY DEF Smallest, L
  <1> HIDE DEF Is
  <1>11. Smallest(values, c) \in Range(values)
    BY <1>9, <1>10
  <1>12. QED BY <1>2, <1>11

\* What the points of a curve are.
LEMMA CurvePoints ==
  ASSUME NEW points \in Curves
  PROVE  /\ points \in Seq([k : Grid, mde : Effects]) /\ Len(points) \in Nat
         /\ \A n \in 1..Len(points) :
              /\ points[n].k \in Nat \ {0} /\ points[n].mde \in Nat
              /\ size(points[n]) \in Nat \ {0}
  <1> DEFINE S == [k : Grid, mde : Effects]
  <1>1. points \in SeqOf(S, Cardinality(Grid))
    BY DEF Curves
  <1>2. PICK m \in 0..Cardinality(Grid) : points \in [1..m -> S]
    <2> HIDE DEF S
    <2>1. QED BY <1>1 DEF SeqOf
  <1>3. m \in Nat
    OBVIOUS
  <1>4. points \in Seq(S) /\ Len(points) = m
    <2> HIDE DEF S
    <2>1. QED BY <1>2, <1>3, SeqDef, LenProperties
  <1>5. ASSUME NEW n \in 1..Len(points)
        PROVE  points[n].k \in Nat \ {0} /\ points[n].mde \in Nat /\ size(points[n]) \in Nat \ {0}
    <2>1. points[n] \in S
      <3> HIDE DEF S
      <3>1. QED BY <1>4, ElementOfSeq
    <2> DEFINE x == points[n].k
    <2>2. x \in Nat \ {0} /\ points[n].mde \in Nat
      BY <2>1, PowerAssumption
    <2>3. size(points[n]) = 1000 * x * x
      BY DEF size
    <2> HIDE DEF x
    <2>4. x * x \in Nat /\ x * x >= 1
      BY <2>2
    <2>5. 1000 * x * x = 1000 * (x * x)
      BY <2>2
    <2>6. QED BY <2>2, <2>3, <2>4, <2>5 DEF x
  <1>6. QED BY <1>1, <1>3, <1>4, <1>5

\* The fit's size is a number.
LEMMA FittedIsNumber ==
  ASSUME NEW points \in Curves, NEW effect \in Effects
  PROVE  required_n_fitted(points, effect) \in Nat
  <1> DEFINE L == Len(points)
             values == [n \in 1..L |-> points[n].mde * points[n].k]
  <1>1. L \in Nat /\ \A n \in 1..L : points[n].k \in Nat /\ points[n].mde \in Nat
    BY CurvePoints
  <1>2. effect \in Nat
    BY PowerAssumption
  <1>3. CASE effect = 0 \/ points = <<>> \/ TwiceScale(points) = 0
    BY <1>3 DEF required_n_fitted
  <1>4. CASE ~(effect = 0 \/ points = <<>> \/ TwiceScale(points) = 0)
    <2>1. L >= 1
      BY <1>1, <1>4, CurvePoints, EmptySeq
    <2> HIDE DEF L
    <2>2. values \in Seq(Nat) /\ Len(values) = L
      <3>1. \A n \in 1..L : points[n].mde * points[n].k \in Nat
        BY <1>1
      <3>2. values \in [1..L -> Nat]
        BY <3>1
      <3> HIDE DEF values
      <3>3. QED BY <1>1, <3>2, SeqDef, LenProperties
    <2>3. TwiceScale(points) = TwiceMedian(values)
      BY DEF TwiceScale, L
    <2> HIDE DEF values
    <2>4. (L + 1) \div 2 \in 1..Len(values) /\ L \div 2 + 1 \in 1..Len(values)
      BY <1>1, <2>1, <2>2
    <2>5. Smallest(values, (L + 1) \div 2) \in Nat /\ Smallest(values, L \div 2 + 1) \in Nat
      BY <2>2, <2>4, SmallestExists
    <2> DEFINE s == TwiceScale(points)
    <2>6. s \in Nat
      BY <2>2, <2>3, <2>5 DEF TwiceMedian
    <2>7. required_n_fitted(points, effect) = 1000 * CeilDiv(s * s, 4 * effect * effect)
      BY <1>4 DEF required_n_fitted
    <2> HIDE DEF s
    <2> DEFINE a == s * s
               b == 4 * effect * effect
    <2>8. a \in Nat /\ b \in Nat /\ b >= 1
      <3>1. effect * effect \in Nat /\ effect * effect >= 1
        BY <1>2, <1>4
      <3>2. b = 4 * (effect * effect)
        BY <1>2
      <3>3. a \in Nat
        BY <2>6
      <3> HIDE DEF a, b
      <3>4. QED BY <3>1, <3>2, <3>3
    <2>9. CeilDiv(a, b) = (a + b - 1) \div b
      BY DEF CeilDiv
    <2> HIDE DEF a, b
    <2>10. (a + b - 1) \div b \in Nat
      BY <2>8
    <2>11. QED BY <2>7, <2>9, <2>10 DEF a, b
  <1>5. QED BY <1>3, <1>4

\* Two numbers of which the first digit, in the base L, decides.
LEMMA FirstDigit ==
  ASSUME NEW L \in Nat, NEW p \in Nat, NEW q \in Nat, NEW m \in 1..L, NEW n \in 1..L
  PROVE  /\ p * L + m \in Nat \ {0}
         /\ p * L + m = q * L + n => p = q /\ m = n
         /\ p * L + m < q * L + n => p < q \/ (p = q /\ m < n)
  <1>1. p * L \in Nat /\ q * L \in Nat
    OBVIOUS
  <1>2. ASSUME NEW a \in Nat, NEW b \in Nat, a < b PROVE a * L + L <= b * L
    <2>1. PICK c \in Nat : b = a + 1 + c
      <3>1. b - a - 1 \in Nat /\ b = a + 1 + (b - a - 1)
        BY <1>2
      <3>2. QED BY <3>1
    <2>2. b * L = a * L + L + c * L /\ c * L \in Nat /\ a * L \in Nat
      BY <2>1
    <2>3. QED BY <2>2
  <1>3. CASE p < q
    BY <1>1, <1>2, <1>3
  <1>4. CASE q < p
    BY <1>1, <1>2, <1>4
  <1>5. CASE p = q
    BY <1>1, <1>5
  <1>6. QED BY <1>3, <1>4, <1>5

\* The curve by size: every point has its place, and a later one is larger, or of
\* the same size and measured later.
LEMMA OrderedPoints ==
  ASSUME NEW points \in Curves
  PROVE  LET curve == ordered(points)
         IN  /\ Len(curve) = Len(points)
             /\ \E at \in [1..Len(points) -> 1..Len(points)] :
                  /\ \A j \in 1..Len(points) : curve[j] = points[at[j]]
                  /\ \A n \in 1..Len(points) : \E j \in 1..Len(points) : at[j] = n
                  /\ \A c, j \in 1..Len(points) : c < j =>
                       \/ curve[c].k < curve[j].k
                       \/ curve[c].k = curve[j].k /\ at[c] < at[j]
  <1> DEFINE L == Len(points)
             S == [k : Grid, mde : Effects]
             key == [n \in 1..L |-> points[n].k * L + n]
             K == {key[n] : n \in 1..L}
             at == [j \in 1..L |-> CHOOSE n \in 1..L : key[n] = Nth(K, j)]
             curve == [j \in 1..L |-> points[at[j]]]
  <1>1. /\ points \in Seq(S) /\ L \in Nat
        /\ \A n \in 1..L : points[n].k \in Nat \ {0}
    BY CurvePoints
  <1>2. \A n \in 1..L : points[n] \in S
    <2> HIDE DEF S
    <2>1. QED BY <1>1, ElementOfSeq
  <1>4. ordered(points) = curve
    <2> DEFINE Key(n) == points[n].k * L + n
               keys == {Key(n) : n \in 1..L}
               pick(j) == CHOOSE n \in 1..L : Key(n) = Nth(keys, j)
    <2>1. ordered(points) = [j \in 1..L |-> points[pick(j)]]
      BY DEF ordered
    <2>2. \A n \in 1..L : key[n] = Key(n)
      OBVIOUS
    <2> HIDE DEF Key, key
    <2>3. keys = K
      BY <2>2
    <2> HIDE DEF keys, K
    <2>4. ASSUME NEW j \in 1..L PROVE at[j] = pick(j)
      <3> DEFINE x == Nth(K, j)
      <3>1. at[j] = (CHOOSE n \in 1..L : key[n] = x) /\ pick(j) = CHOOSE n \in 1..L : Key(n) = x
        BY <2>3
      <3> HIDE DEF at, x, pick
      <3>2. QED BY <2>2, <3>1
    <2> HIDE DEF pick, at
    <2>5. QED BY <2>1, <2>4
  <1> HIDE DEF L, S
  <1>5. /\ key \in [1..L -> Nat]
        /\ \A n \in 1..L : key[n] = points[n].k * L + n /\ key[n] \in Nat \ {0}
    BY <1>1, FirstDigit
  <1>6. \A m, n \in 1..L : /\ key[m] = key[n] => m = n
                           /\ key[m] < key[n] => \/ points[m].k < points[n].k
                                                 \/ points[m].k = points[n].k /\ m < n
    <2>1. SUFFICES ASSUME NEW m \in 1..L, NEW n \in 1..L
                   PROVE  /\ key[m] = key[n] => m = n
                          /\ key[m] < key[n] => \/ points[m].k < points[n].k
                                                \/ points[m].k = points[n].k /\ m < n
      OBVIOUS
    <2> DEFINE a == points[m].k
               b == points[n].k
    <2>2. a \in Nat /\ b \in Nat /\ key[m] = a * L + m /\ key[n] = b * L + n
      BY <1>1, <1>5
    <2> HIDE DEF a, b, key
    <2>3. /\ a * L + m \in Nat \ {0}
          /\ a * L + m = b * L + n => a = b /\ m = n
          /\ a * L + m < b * L + n => a < b \/ (a = b /\ m < n)
      <3>1. L \in Nat
        BY <1>1
      <3>2. QED BY <2>1, <2>2, <3>1, FirstDigit, Zenon
    <2>4. /\ key[m] = key[n] => m = n
          /\ key[m] < key[n] => a < b \/ (a = b /\ m < n)
      BY <2>2, <2>3, Zenon
    <2>5. QED BY <2>4 DEF a, b
  <1> HIDE DEF key
  <1>7. PICK B \in Nat : \A n \in 1..L : key[n] <= B
    BY <1>1, <1>5, BoundExists
  <1>8. K \in SUBSET (1..B)
    <2>1. \A n \in 1..L : key[n] \in 1..B
      BY <1>1, <1>5, <1>7
    <2>2. QED BY <2>1
  <1>9. Cardinality(K) = L
    <2>1. key \in Bijection(1..L, K)
      <3>1. key \in [1..L -> K]
        BY <1>5
      <3>2. QED BY <1>6, <3>1 DEF Bijection, Injection, Surjection, IsInjective
    <2>2. ExistsBijection(1..L, K)
      <3> HIDE DEF K
      <3>1. QED BY <2>1 DEF ExistsBijection
    <2>3. IsFiniteSet(1..L) /\ Cardinality(1..L) = L
      <3>1. 1 \in Int /\ L \in Int
        BY <1>1
      <3>2. IsFiniteSet(1..L) /\ Cardinality(1..L) = IF 1 > L THEN 0 ELSE L - 1 + 1
        BY <3>1, FS_Interval
      <3>3. QED BY <1>1, <3>2
    <2> HIDE DEF K
    <2>4. QED BY <2>2, <2>3, FS_Bijection
  <1>10. /\ IsFiniteSet(K)
         /\ \A j \in 1..L : /\ Nth(K, j) \in K
                            /\ Cardinality({m \in K : m < Nth(K, j)}) = j - 1
         /\ \A n \in K : \E j \in 1..L : Nth(K, j) = n
         /\ \A c, j \in 1..L : Nth(K, c) = Nth(K, j) => c = j
    <2> HIDE DEF K
    <2> DEFINE C == Cardinality(K)
    <2>1. C = L
      BY <1>9
    <2>2. /\ IsFiniteSet(K) /\ C \in 0..B
          /\ \A j \in 1..C : /\ Nth(K, j) \in K
                             /\ Cardinality({m \in K : m < Nth(K, j)}) = j - 1
          /\ \A n \in K : \E j \in 1..C : Nth(K, j) = n
          /\ \A c, j \in 1..C : Nth(K, c) = Nth(K, j) => c = j
      BY <1>8, NthProperties
    <2> HIDE DEF C
    <2>3. QED BY <2>1, <2>2
  <1>11. ASSUME NEW j \in 1..L PROVE at[j] \in 1..L /\ key[at[j]] = Nth(K, j)
    <2> DEFINE x == Nth(K, j)
               n == CHOOSE n \in 1..L : key[n] = x
    <2>1. x \in K
      BY <1>10
    <2>2. at[j] = n
      OBVIOUS
    <2> HIDE DEF x, at
    <2>3. \E m \in 1..L : key[m] = x
      BY <2>1
    <2>4. n \in 1..L /\ key[n] = x
      BY <2>3
    <2> HIDE DEF n
    <2>5. QED BY <2>2, <2>4 DEF x
  <1> HIDE DEF at
  <1>12. \A c, j \in 1..L : c < j => Nth(K, c) < Nth(K, j)
    <2>1. SUFFICES ASSUME NEW c \in 1..L, NEW j \in 1..L, c < j, ~(Nth(K, c) < Nth(K, j))
                   PROVE  FALSE
      OBVIOUS
    <2> DEFINE a == Nth(K, c)
               b == Nth(K, j)
    <2>2. a \in Nat /\ b \in Nat /\ a # b /\ \A m \in K : m \in Nat
      <3>1. \A m \in K : m \in Nat
        <4> HIDE DEF K
        <4>1. QED BY <1>7, <1>8
      <3>2. a \in K /\ b \in K
        BY <1>10
      <3>3. a # b
        <4>1. c # j
          BY <2>1
        <4>2. QED BY <1>10, <4>1
      <3> HIDE DEF a, b, K
      <3>4. QED BY <3>1, <3>2, <3>3
    <2>3. b < a
      BY <2>1, <2>2
    <2>4. {m \in K : m < b} \subseteq {m \in K : m < a} /\ {m \in K : m < a} \subseteq K
      <3> HIDE DEF a, b, K
      <3>1. \A m \in K : m < b => m < a
        BY <2>2, <2>3
      <3>2. QED BY <3>1
    <2>5. Cardinality({m \in K : m < a}) = c - 1 /\ Cardinality({m \in K : m < b}) = j - 1
      BY <1>10
    <2> HIDE DEF a, b, K
    <2>6. IsFiniteSet({m \in K : m < a})
      BY <1>10, <2>4, FS_Subset
    <2>7. Cardinality({m \in K : m < b}) <= Cardinality({m \in K : m < a})
      BY <2>4, <2>6, FS_Subset
    <2>8. QED BY <2>1, <2>5, <2>7
  <1>13. \A c, j \in 1..L : c < j => \/ curve[c].k < curve[j].k
                                     \/ curve[c].k = curve[j].k /\ at[c] < at[j]
    <2>1. ASSUME NEW c \in 1..L, NEW j \in 1..L, c < j
          PROVE  \/ points[at[c]].k < points[at[j]].k
                 \/ points[at[c]].k = points[at[j]].k /\ at[c] < at[j]
      <3> HIDE DEF K
      <3>1. key[at[c]] < key[at[j]] /\ at[c] \in 1..L /\ at[j] \in 1..L
        BY <1>11, <1>12, <2>1
      <3>2. QED BY <1>6, <3>1
    <2>2. \A j \in 1..L : curve[j] = points[at[j]]
      OBVIOUS
    <2> HIDE DEF curve
    <2>3. QED BY <2>1, <2>2
  <1>14. \A n \in 1..L : \E j \in 1..L : at[j] = n
    <2>1. SUFFICES ASSUME NEW n \in 1..L PROVE \E j \in 1..L : at[j] = n
      OBVIOUS
    <2>2. key[n] \in K
      OBVIOUS
    <2> HIDE DEF K
    <2>3. PICK j \in 1..L : Nth(K, j) = key[n]
      BY <1>10, <2>2
    <2>4. at[j] = n
      BY <1>6, <1>11, <2>3
    <2>5. QED BY <2>4
  <1> HIDE DEF K
  <1>15. at \in [1..L -> 1..L]
    <2>1. DOMAIN at = 1..L /\ at = [j \in 1..L |-> at[j]]
      BY DEF at
    <2>2. QED BY <1>11, <2>1
  <1>16. Len(curve) = L
    <2>1. curve \in [1..L -> S]
      BY <1>2, <1>11
    <2> HIDE DEF curve
    <2>2. QED BY <1>1, <2>1, SeqDef, LenProperties
  <1>17. \A j \in 1..L : curve[j] = points[at[j]]
    OBVIOUS
  <1> HIDE DEF curve
  <1>18. QED BY <1>4, <1>13, <1>14, <1>15, <1>16, <1>17 DEF L

\* A larger number is a larger size.
LEMMA LargerSize ==
  ASSUME NEW p, NEW q, p.k \in Nat, q.k \in Nat, p.k < q.k
  PROVE  size(p) < size(q)
  <1> DEFINE x == p.k
             y == q.k
  <1>1. x \in Nat /\ y \in Nat /\ x < y /\ size(p) = 1000 * x * x /\ size(q) = 1000 * y * y
    BY DEF size
  <1> HIDE DEF x, y
  <1>2. x * x < y * y /\ x * x \in Nat /\ y * y \in Nat
    <2>1. x * x <= x * y /\ x * y < y * y
      BY <1>1
    <2>2. QED BY <1>1, <2>1
  <1>3. 1000 * x * x = 1000 * (x * x) /\ 1000 * y * y = 1000 * (y * y)
    BY <1>1
  <1>4. QED BY <1>1, <1>2, <1>3

\* A lucky small batch selects no size: of any curve, in any state.
LEMMA MissesAreBehindOnEveryCurve ==
  ASSUME NEW points \in Curves, NEW effect \in Effects
  PROVE  MissesAreBehindOn(points, effect)
  <1> DEFINE measured == required_n_measured(points, effect)
             fitted == required_n_fitted(points, effect)
             needed == required_n(points, effect)
             L == Len(points)
             curve == ordered(points)
             detecting == {n \in 1..Len(curve) : \A l \in n..Len(curve) : curve[l].mde <= effect}
             first == CHOOSE n \in detecting : \A l \in detecting : n <= l
  <1>1. fitted \in Nat
    BY FittedIsNumber
  <1>2. needed = IF measured >= fitted THEN measured ELSE fitted
    BY DEF required_n
  <1>3. CASE effect = 0
    <2>1. measured = 0 /\ fitted = 0
      BY <1>3 DEF required_n_measured, required_n_fitted
    <2>2. QED BY <1>2, <2>1 DEF recommends, MissesAreBehindOn
  <1>4. CASE effect # 0 /\ measured # 0
    <2>1. detecting # {} /\ measured = size(curve[first])
      BY <1>4 DEF required_n_measured
    <2>2. /\ Len(curve) = L /\ L \in Nat
          /\ \A n \in 1..L : /\ points[n].k \in Nat /\ points[n].mde \in Nat
                             /\ size(points[n]) \in Nat \ {0}
      BY OrderedPoints, CurvePoints
    <2>a. PICK at \in [1..L -> 1..L] :
            /\ \A j \in 1..L : curve[j] = points[at[j]]
            /\ \A n \in 1..L : \E j \in 1..L : at[j] = n
            /\ \A c, j \in 1..L : c < j => \/ curve[c].k < curve[j].k
                                           \/ curve[c].k = curve[j].k /\ at[c] < at[j]
      BY OrderedPoints
    <2> HIDE DEF L, curve
    <2>3. detecting \in SUBSET Nat
      BY <2>2
    <2>4. first \in detecting
      <3>1. \E n \in detecting : \A l \in detecting : n <= l
        <4> HIDE DEF detecting
        <4>1. QED BY <2>1, <2>3, LeastMember
      <3> HIDE DEF detecting
      <3>2. QED BY <3>1
    <2> HIDE DEF first
    <2>5. first \in 1..L /\ \A l \in first..L : curve[l].mde <= effect
      BY <2>2, <2>4
    <2> HIDE DEF detecting
    <2>6. \A j \in 1..L : curve[j].k \in Nat /\ size(curve[j]) \in Nat \ {0} /\ curve[j].mde \in Nat
      <3>1. \A j \in 1..L : at[j] \in 1..L /\ curve[j] = points[at[j]]
        BY <2>a
      <3>2. QED BY <2>2, <3>1, Zenon
    <2>7. measured \in Nat \ {0}
      BY <2>1, <2>5, <2>6
    <2> HIDE DEF measured, fitted, needed
    <2>8. needed \in Nat \ {0} /\ needed >= measured
      BY <1>1, <1>2, <2>7
    <2>9. ASSUME NEW n \in 1..L, points[n].mde > effect
          PROVE  \/ size(points[n]) < needed
                 \/ \E l \in n..L : points[l].k = points[n].k /\ points[l].mde <= effect
      <3>1. PICK j \in 1..L : at[j] = n /\ curve[j] = points[n]
        BY <2>a
      <3>2. effect \in Nat
        BY PowerAssumption
      <3>3. j < first
        <4>1. ~(curve[j].mde <= effect)
          BY <2>6, <2>9, <3>1, <3>2
        <4>2. j \notin first..L
          BY <2>5, <4>1
        <4>3. QED BY <2>2, <2>5, <4>2
      <3>4. CASE curve[j].k < curve[first].k
        <4>1. size(curve[j]) < size(curve[first])
          BY <2>5, <2>6, <3>4, LargerSize
        <4>2. size(points[n]) < measured /\ size(points[n]) \in Nat
          BY <2>1, <2>6, <3>1, <4>1
        <4>3. QED BY <2>7, <2>8, <4>2
      <3>5. CASE curve[j].k = curve[first].k /\ n < at[first]
        <4>1. first \in first..L /\ at[first] \in n..L
          BY <2>2, <2>5, <2>a, <3>5
        <4>2. curve[first] = points[at[first]]
          BY <2>5, <2>a
        <4>3. points[at[first]].k = points[n].k /\ points[at[first]].mde <= effect
          BY <2>5, <3>1, <3>5, <4>1, <4>2
        <4>4. QED BY <4>1, <4>3
      <3>6. QED BY <2>5, <2>a, <3>1, <3>3, <3>4, <3>5
    <2>10. needed # 0
      BY <2>8
    <2>11. QED BY <1>4, <2>9, <2>10 DEF needed, L, recommends, MissesAreBehindOn
  <1>5. CASE effect # 0 /\ measured = 0
    BY <1>5 DEF MissesAreBehindOn
  <1>6. QED BY <1>3, <1>4, <1>5

\* A lucky small batch selects no size, whatever the grid and the effects.
THEOREM MissesAlwaysBehind == Spec => []MissesAreBehind
  <1>1. MissesAreBehind
    BY MissesAreBehindOnEveryCurve DEF MissesAreBehind
  <1>2. QED BY <1>1, PTL
=============================================================================
