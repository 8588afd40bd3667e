---------------------------- MODULE IngestProofs ----------------------------
(***************************************************************************)
(* Theorems about Ingest for any events, workers, batch size and bounds on *)
(* the faults.                                                             *)
(*                                                                         *)
(* DecisionsAreBounded is not inductive: it says nothing of what is yet to *)
(* come.  What is conserved is the number of decisions on an event plus    *)
(* the number of workers that may still decide it without another fault.   *)
(***************************************************************************)
EXTENDS Ingest, OperatorLemmas

Keys == {Key(e) : e \in Events}

\* What the log and the ledger are made of.
Delivery == {c \in [op : {"insert"}, key : Keys, body : Events] : c.key = Key(c.body)}

Marking == [op : {"mark"}, key : Keys, seq : Nat]

DecisionRow ==
  [key : Keys, payment_id : {payment_id[e] : e \in Events},
   customer_id : {customer_key(e) : e \in Events}, arm : {"treatment", "holdout"},
   event : Events]

TypeInv ==
  /\ log \in Seq(Delivery \union Marking)
  /\ logSynced \in 0..Len(log)
  /\ ledger \in Seq(DecisionRow)
  /\ ledgerSynced \in 0..Len(ledger)
  /\ answered \subseteq Events
  /\ pc \in [Workers -> {"idle", "append", "mark"}]
  /\ rows \in [Workers -> Seq(Delivery)]
  /\ seq \in [Workers -> Nat]
  /\ \A w \in Workers : seq[w] <= Len(ledger) /\ (pc[w] = "idle" <=> rows[w] = <<>>)
  /\ deaths \in 0..MaxDeaths
  /\ cuts \in 0..MaxCuts

\* The primary key, in the table ...
PrimaryKey ==
  \A m, n \in 1..Len(log) :
    log[m].op = "insert" /\ log[n].op = "insert" /\ log[m].key = log[n].key => m = n

\* ... and so among the rows a worker fetched.
Distinct(s) == \A i, j \in 1..Len(s) : s[i].key = s[j].key => i = j

Recorded(n, k) == n \in 1..Len(ledger) /\ ledger[n].key = k

\* Between append and mark a worker holds the number of its own decision.
RowsInv ==
  \A w \in Workers :
    /\ Distinct(rows[w])
    /\ pc[w] = "mark" => Recorded(seq[w], rows[w][1].key)

RecordInv ==
  cuts = 0 =>
    /\ \A n \in 1..Len(log) : log[n].op = "mark" => Recorded(log[n].seq, log[n].key)
    /\ \A e \in answered : Stored(Key(e))

\* The worker has fetched the row and not yet decided it.
Ahead(w, k) ==
  \E i \in 1..Len(rows[w]) : rows[w][i].key = k /\ (i = 1 => pc[w] = "append")

\* The workers that may decide k once more though nothing fails any more.
Open(k) ==
  {w \in Workers : \/ Ahead(w, k)
                   \/ ~processed(k) /\ ~(pc[w] = "mark" /\ rows[w][1].key = k)}

Allowed == Cardinality(Workers) * (1 + cuts) + deaths

PotentialInv ==
  \A k \in Keys : Cardinality(Decisions(k)) + Cardinality(Open(k)) <= Allowed

IInv ==
  /\ TypeInv
  /\ PrimaryKey
  /\ RowsInv
  /\ RecordInv
  /\ PotentialInv

-----------------------------------------------------------------------------
\* The log and the ledger, entry by entry.
LEMMA Entries ==
  ASSUME TypeInv
  PROVE  /\ Len(log) \in Nat /\ Len(ledger) \in Nat
         /\ \A n \in 1..Len(log) : /\ log[n] \in Delivery \union Marking
                                   /\ log[n].op \in {"insert", "mark"} /\ log[n].key \in Keys
                                   /\ log[n].op = "insert" => log[n] \in Delivery
                                   /\ log[n].op = "mark" => log[n] \in Marking
         /\ \A n \in 1..Len(ledger) : ledger[n] \in DecisionRow
  <1>1. log \in Seq(Delivery \union Marking) /\ ledger \in Seq(DecisionRow)
    BY DEF TypeInv
  <1>2. Len(log) \in Nat /\ Len(ledger) \in Nat
    BY <1>1, LenProperties
  <1>3. \A n \in 1..Len(log) : log[n] \in Delivery \union Marking
    BY <1>1, ElementOfSeq
  <1>4. \A n \in 1..Len(ledger) : ledger[n] \in DecisionRow
    BY <1>1, ElementOfSeq
  <1>5. \A c \in Delivery \union Marking :
          /\ c.op \in {"insert", "mark"} /\ c.key \in Keys
          /\ c.op = "insert" => c \in Delivery
          /\ c.op = "mark" => c \in Marking
    BY DEF Delivery, Marking
  <1>6. QED BY <1>2, <1>3, <1>4, <1>5

\* What pending() returns.
LEMMA PendingProperties ==
  ASSUME TypeInv, PrimaryKey
  PROVE  /\ pending \in Seq(Delivery)
         /\ Distinct(pending)
         /\ \A i \in 1..Len(pending) : ~processed(pending[i].key)
  <1> DEFINE all == Selected(log, Unprocessed)
             n == IF Len(all) < Limit THEN Len(all) ELSE Limit
  <1>1. Unprocessed \in SUBSET (1..Len(log))
    BY DEF Unprocessed
  <1>2. /\ Len(all) = Cardinality(Unprocessed) /\ Cardinality(Unprocessed) \in 0..Len(log)
        /\ \A i \in 1..Len(all) : Nth(Unprocessed, i) \in Unprocessed /\ all[i] = log[Nth(Unprocessed, i)]
    <2>1. log \in Seq(Delivery \union Marking)
      BY DEF TypeInv
    <2>2. QED BY <1>1, <2>1, SelectedProperties
  <1>3. \A i, j \in 1..Len(all) : Nth(Unprocessed, i) = Nth(Unprocessed, j) => i = j
    <2>1. Len(log) \in Nat
      BY Entries
    <2>2. QED BY <1>1, <1>2, <2>1, NthProperties
  <1> HIDE DEF all
  <1>4. Len(all) \in Nat /\ n \in Int /\ n <= Len(all)
    <2>1. Len(log) \in Nat
      BY Entries
    <2>2. QED BY <1>2, <2>1, IngestAssumption
  <1>5. \A i \in 1..Len(all) : all[i] \in Delivery /\ ~processed(all[i].key)
    <2>1. \A m \in Unprocessed : log[m] \in Delivery /\ ~processed(log[m].key)
      BY Entries DEF Unprocessed
    <2>2. QED BY <1>2, <2>1
  <1> HIDE DEF n
  <1>6. /\ SubSeq(all, 1, n) \in Seq(Delivery)
        /\ Len(SubSeq(all, 1, n)) = IF 1 <= n THEN n - 1 + 1 ELSE 0
        /\ \A i \in 1..(n - 1 + 1) : SubSeq(all, 1, n)[i] = all[1 + i - 1]
    <2>1. 1 \in Int /\ n \in Int /\ \A i \in 1..n : all[i] \in Delivery
      BY <1>4, <1>5
    <2>2. QED BY <2>1, SubSeqProperties
  <1>7. pending = SubSeq(all, 1, n)
    BY DEF pending, all, n
  <1> DEFINE p == pending
  <1>8. p \in Seq(Delivery) /\ \A i \in 1..Len(p) : i \in 1..Len(all) /\ p[i] = all[i]
    <2>1. \A i \in 1..Len(p) : i \in 1..n /\ 1 + i - 1 = i /\ n - 1 + 1 = n
      BY <1>4, <1>6, <1>7
    <2>2. QED BY <1>4, <1>6, <1>7, <2>1
  <1> HIDE DEF p
  <1>9. ASSUME NEW i \in 1..Len(p), NEW j \in 1..Len(p), p[i].key = p[j].key PROVE i = j
    <2> DEFINE a == Nth(Unprocessed, i)
               b == Nth(Unprocessed, j)
    <2>1. a \in Unprocessed /\ b \in Unprocessed /\ p[i] = log[a] /\ p[j] = log[b]
      BY <1>2, <1>8
    <2>2. a = b
      <3> HIDE DEF a, b
      <3>1. QED BY <1>9, <2>1 DEF Unprocessed, PrimaryKey
    <2>3. QED BY <1>3, <1>8, <2>2
  <1>10. \A i \in 1..Len(p) : ~processed(p[i].key)
    BY <1>5, <1>8
  <1>11. QED BY <1>8, <1>9, <1>10 DEF p, Distinct

\* Decisions and open workers are finitely many.
LEMMA Finiteness ==
  ASSUME TypeInv, NEW k
  PROVE  /\ IsFiniteSet(Decisions(k)) /\ Cardinality(Decisions(k)) \in Nat
         /\ IsFiniteSet(Open(k)) /\ Cardinality(Open(k)) \in Nat
         /\ Cardinality(Open(k)) <= Cardinality(Workers) /\ Cardinality(Workers) \in Nat
  <1>1. IsFiniteSet(1..Len(ledger)) /\ Decisions(k) \in SUBSET (1..Len(ledger))
    <2>1. 1 \in Int /\ Len(ledger) \in Int
      BY Entries
    <2>2. QED BY <2>1, FS_Interval DEF Decisions
  <1>2. IsFiniteSet(Workers) /\ Open(k) \in SUBSET Workers
    BY IngestAssumption DEF Open
  <1>3. QED BY <1>1, <1>2, FS_Subset, FS_CardinalityType

LEMMA InvInit == Init => IInv
  <1> SUFFICES ASSUME Init PROVE IInv
    OBVIOUS
  <1>1. Len(log) = 0 /\ Len(ledger) = 0 /\ \A w \in Workers : Len(rows[w]) = 0
    BY EmptySeq DEF Init
  <1>2. TypeInv
    <2>1. <<>> \in Seq(Delivery \union Marking) /\ <<>> \in Seq(DecisionRow) /\ <<>> \in Seq(Delivery)
      BY EmptySeq
    <2>2. logSynced \in 0..Len(log) /\ ledgerSynced \in 0..Len(ledger)
      BY <1>1 DEF Init
    <2>3. deaths \in 0..MaxDeaths /\ cuts \in 0..MaxCuts
      BY IngestAssumption DEF Init
    <2>4. \A w \in Workers : seq[w] <= Len(ledger) /\ (pc[w] = "idle" <=> rows[w] = <<>>)
      BY <1>1 DEF Init
    <2>5. QED BY <2>1, <2>2, <2>3, <2>4 DEF Init, TypeInv
  <1>3. PrimaryKey /\ RowsInv
    BY <1>1 DEF Init, PrimaryKey, RowsInv, Distinct
  <1>4. RecordInv
    BY <1>1 DEF Init, RecordInv
  <1>5. PotentialInv
    <2> SUFFICES ASSUME NEW k \in Keys
                 PROVE  Cardinality(Decisions(k)) + Cardinality(Open(k)) <= Allowed
      BY DEF PotentialInv
    <2>1. Decisions(k) = {}
      BY <1>1 DEF Decisions
    <2>2. Cardinality(Decisions(k)) = 0
      BY <2>1, FS_EmptySet
    <2>3. /\ Cardinality(Open(k)) \in Nat /\ Cardinality(Workers) \in Nat
          /\ Cardinality(Open(k)) <= Cardinality(Workers)
      BY <1>2, Finiteness
    <2>4. Allowed = Cardinality(Workers)
      BY <2>3 DEF Allowed, Init
    <2>5. QED BY <2>2, <2>3, <2>4
  <1>6. QED BY <1>2, <1>3, <1>4, <1>5 DEF IInv

-----------------------------------------------------------------------------
\* One more write to the delivery log.
LEMMA LogGrows ==
  ASSUME TypeInv, NEW c \in Delivery \union Marking, log' = Append(log, c)
  PROVE  /\ log' \in Seq(Delivery \union Marking)
         /\ Len(log) \in Nat /\ Len(log') = Len(log) + 1
         /\ \A n \in 1..Len(log) : log'[n] = log[n]
         /\ log'[Len(log) + 1] = c
         /\ \A k : processed(k)' <=> processed(k) \/ (c.op = "mark" /\ c.key = k)
         /\ \A k : Stored(k)' <=> Stored(k) \/ (c.op = "insert" /\ c.key = k)
  <1>1. /\ log' \in Seq(Delivery \union Marking)
        /\ Len(log) \in Nat /\ Len(log') = Len(log) + 1
        /\ \A n \in 1..Len(log) : log'[n] = log[n]
        /\ log'[Len(log) + 1] = c
    BY AppendProperties, LenProperties DEF TypeInv
  <1>2. \A n : n \in 1..Len(log') <=> n \in 1..Len(log) \/ n = Len(log) + 1
    BY <1>1
  <1>3. ASSUME NEW k
        PROVE  processed(k)' <=> processed(k) \/ (c.op = "mark" /\ c.key = k)
    <2>1. /\ processed(k) <=> \E n \in 1..Len(log) : log[n].op = "mark" /\ log[n].key = k
          /\ processed(k)' <=> \E n \in 1..Len(log') : log'[n].op = "mark" /\ log'[n].key = k
      BY DEF processed, Marks
    <2>2. \A n \in 1..Len(log) : n \in 1..Len(log') /\ log'[n] = log[n]
      BY <1>1, <1>2
    <2>3. Len(log) + 1 \in 1..Len(log')
      BY <1>1
    <2>4. ASSUME processed(k) PROVE processed(k)'
      BY <1>1, <2>1, <2>2, <2>4
    <2>5. ASSUME c.op = "mark" /\ c.key = k PROVE processed(k)'
      BY <1>1, <2>1, <2>3, <2>5
    <2>6. ASSUME processed(k)' PROVE processed(k) \/ (c.op = "mark" /\ c.key = k)
      <3>1. PICK n \in 1..Len(log') : log'[n].op = "mark" /\ log'[n].key = k
        BY <2>1, <2>6
      <3>2. CASE n \in 1..Len(log)
        <4>1. log'[n] = log[n]
          BY <1>1, <3>2
        <4>2. QED BY <2>1, <3>1, <3>2, <4>1
      <3>3. CASE n = Len(log) + 1
        BY <1>1, <3>1, <3>3
      <3>4. QED BY <1>2, <3>2, <3>3
    <2>7. QED BY <2>4, <2>5, <2>6
  <1>4. ASSUME NEW k
        PROVE  Stored(k)' <=> Stored(k) \/ (c.op = "insert" /\ c.key = k)
    <2>1. /\ Stored(k) <=> \E n \in 1..Len(log) : log[n].op = "insert" /\ log[n].key = k
          /\ Stored(k)' <=> \E n \in 1..Len(log') : log'[n].op = "insert" /\ log'[n].key = k
      BY DEF Stored
    <2>2. \A n \in 1..Len(log) : n \in 1..Len(log') /\ log'[n] = log[n]
      BY <1>1, <1>2
    <2>3. Len(log) + 1 \in 1..Len(log')
      BY <1>1
    <2>4. ASSUME Stored(k) PROVE Stored(k)'
      BY <1>1, <2>1, <2>2, <2>4
    <2>5. ASSUME c.op = "insert" /\ c.key = k PROVE Stored(k)'
      BY <1>1, <2>1, <2>3, <2>5
    <2>6. ASSUME Stored(k)' PROVE Stored(k) \/ (c.op = "insert" /\ c.key = k)
      <3>1. PICK n \in 1..Len(log') : log'[n].op = "insert" /\ log'[n].key = k
        BY <2>1, <2>6
      <3>2. CASE n \in 1..Len(log)
        <4>1. log'[n] = log[n]
          BY <1>1, <3>2
        <4>2. QED BY <2>1, <3>1, <3>2, <4>1
      <3>3. CASE n = Len(log) + 1
        BY <1>1, <3>1, <3>3
      <3>4. QED BY <1>2, <3>2, <3>3
    <2>7. QED BY <2>4, <2>5, <2>6
  <1>5. QED BY <1>1, <1>3, <1>4

\* What of the potential a step leaves alone.
LEMMA OpenFrame ==
  ASSUME NEW k, UNCHANGED <<pc, rows>>, processed(k)' <=> processed(k)
  PROVE  Open(k)' = Open(k)
  BY DEF Open, Ahead

LEMMA DeliverStep ==
  ASSUME IInv, NEW e \in Events, Deliver(e)
  PROVE  IInv'
  <1> DEFINE c == [op |-> "insert", key |-> Key(e), body |-> e]
  <1>1. TypeInv /\ PrimaryKey /\ RowsInv /\ RecordInv /\ PotentialInv
    BY DEF IInv
  <1>2. /\ log' = IF Stored(Key(e)) THEN log ELSE Append(log, c)
        /\ answered' \subseteq answered \union {e} /\ answered' \subseteq Events
        /\ UNCHANGED <<disk, ledger, locals, faults>>
    BY <1>1 DEF Deliver, TypeInv
  <1>3. c \in Delivery /\ c \in Delivery \union Marking /\ c.op = "insert" /\ c.key = Key(e)
    BY DEF Delivery, Keys
  <1> HIDE DEF c
  <1>4. /\ log' \in Seq(Delivery \union Marking)
        /\ Len(log) \in Nat /\ Len(log') \in Nat /\ Len(log) <= Len(log')
        /\ \A n \in 1..Len(log) : n \in 1..Len(log') /\ log'[n] = log[n]
        /\ \A n \in 1..Len(log') : n \in 1..Len(log) \/ (log'[n] = c /\ ~Stored(Key(e)) /\ n = Len(log) + 1)
        /\ \A k : processed(k)' <=> processed(k)
        /\ \A k : Stored(k) \/ k = Key(e) => Stored(k)'
    <2>1. CASE Stored(Key(e))
      <3>1. log' = log
        BY <1>2, <2>1
      <3>2. Len(log) \in Nat /\ log \in Seq(Delivery \union Marking)
        BY <1>1, Entries DEF TypeInv
      <3>3. \A k : (processed(k)' <=> processed(k)) /\ (Stored(k)' <=> Stored(k))
        BY <3>1 DEF processed, Marks, Stored
      <3>4. \A k : Stored(k) \/ k = Key(e) => Stored(k)'
        BY <2>1, <3>3
      <3>5. Len(log') = Len(log) /\ \A n \in 1..Len(log) : log'[n] = log[n]
        BY <3>1
      <3>6. log' \in Seq(Delivery \union Marking)
        BY <3>1, <3>2
      <3>7. QED BY <3>2, <3>3, <3>4, <3>5, <3>6
    <2>2. CASE ~Stored(Key(e))
      <3>1. log' = Append(log, c)
        BY <1>2, <2>2
      <3>2. /\ log' \in Seq(Delivery \union Marking)
            /\ Len(log) \in Nat /\ Len(log') = Len(log) + 1
            /\ \A n \in 1..Len(log) : log'[n] = log[n]
            /\ log'[Len(log) + 1] = c
            /\ \A k : processed(k)' <=> processed(k) \/ (c.op = "mark" /\ c.key = k)
            /\ \A k : Stored(k)' <=> Stored(k) \/ (c.op = "insert" /\ c.key = k)
        BY <1>1, <1>3, <3>1, LogGrows
      <3>3. \A n \in 1..Len(log') : n \in 1..Len(log) \/ n = Len(log) + 1
        BY <3>2
      <3>4. \A n \in 1..Len(log) : n \in 1..Len(log')
        BY <3>2
      <3>5. \A n \in 1..Len(log') :
              n \in 1..Len(log) \/ (log'[n] = c /\ ~Stored(Key(e)) /\ n = Len(log) + 1)
        <4>1. ASSUME NEW n \in 1..Len(log'), n \notin 1..Len(log)
              PROVE  log'[n] = c /\ n = Len(log) + 1
          <5>1. n = Len(log) + 1
            BY <3>3, <4>1
          <5>2. log'[Len(log) + 1] = c
            BY <3>2
          <5>3. QED BY <5>1, <5>2
        <4>2. QED BY <2>2, <4>1
      <3>6. \A k : (processed(k)' <=> processed(k)) /\ (Stored(k) \/ k = Key(e) => Stored(k)')
        <4>1. ASSUME NEW k PROVE processed(k)' <=> processed(k)
          BY <1>3, <3>2
        <4>2. ASSUME NEW k, Stored(k) \/ k = Key(e) PROVE Stored(k)'
          BY <1>3, <3>2, <4>2
        <4>3. QED BY <4>1, <4>2
      <3>7. QED BY <3>2, <3>4, <3>5, <3>6
    <2>3. QED BY <2>1, <2>2
  <1>5. TypeInv'
    BY <1>1, <1>2, <1>4 DEF TypeInv, disk, locals, faults
  <1>6. PrimaryKey'
    <2> SUFFICES ASSUME NEW m \in 1..Len(log'), NEW n \in 1..Len(log'),
                        log'[m].op = "insert", log'[n].op = "insert", log'[m].key = log'[n].key
                 PROVE  m = n
      BY DEF PrimaryKey
    <2>1. CASE m \in 1..Len(log) /\ n \in 1..Len(log)
      BY <1>1, <1>4, <2>1 DEF PrimaryKey
    <2>2. CASE m \notin 1..Len(log) /\ n \notin 1..Len(log)
      BY <1>4, <2>2
    <2>3. CASE m \in 1..Len(log) /\ n \notin 1..Len(log)
      <3>1. log[m].op = "insert" /\ log[m].key = Key(e) /\ ~Stored(Key(e))
        BY <1>3, <1>4, <2>3
      <3>2. QED BY <2>3, <3>1 DEF Stored
    <2>4. CASE m \notin 1..Len(log) /\ n \in 1..Len(log)
      <3>1. log[n].op = "insert" /\ log[n].key = Key(e) /\ ~Stored(Key(e))
        BY <1>3, <1>4, <2>4
      <3>2. QED BY <2>4, <3>1 DEF Stored
    <2>5. QED BY <2>1, <2>2, <2>3, <2>4
  <1>7. RowsInv'
    BY <1>1, <1>2 DEF RowsInv, Distinct, Recorded, locals
  <1>8. RecordInv'
    <2> SUFFICES ASSUME cuts' = 0
                 PROVE  /\ \A n \in 1..Len(log') :
                             log'[n].op = "mark" => Recorded(log[n].seq, log[n].key)'
                        /\ \A f \in answered' : Stored(Key(f))'
      BY DEF RecordInv
    <2>1. cuts = 0 /\ ledger' = ledger
      BY <1>2 DEF faults
    <2>2. \A n \in 1..Len(log') : log'[n].op = "mark" => Recorded(log[n].seq, log[n].key)'
      BY <1>1, <1>3, <1>4, <2>1 DEF RecordInv, Recorded
    <2>3. \A f \in answered' : Stored(Key(f))'
      BY <1>1, <1>2, <1>4, <2>1 DEF RecordInv
    <2>4. QED BY <2>2, <2>3
  <1>9. PotentialInv'
    <2> SUFFICES ASSUME NEW k \in Keys
                 PROVE  Cardinality(Decisions(k)') + Cardinality(Open(k)') <= Allowed'
      BY DEF PotentialInv
    <2>1. Open(k)' = Open(k)
      BY <1>2, <1>4, OpenFrame DEF locals
    <2>2. Decisions(k)' = Decisions(k) /\ Allowed' = Allowed
      BY <1>2 DEF Decisions, Allowed, faults
    <2>3. QED BY <1>1, <2>1, <2>2 DEF PotentialInv
  <1>10. QED BY <1>5, <1>6, <1>7, <1>8, <1>9 DEF IInv

LEMMA StartStep ==
  ASSUME IInv, NEW w \in Workers, Start(w)
  PROVE  IInv'
  <1>1. TypeInv /\ PrimaryKey /\ RowsInv /\ RecordInv /\ PotentialInv
    BY DEF IInv
  <1>2. /\ pc[w] = "idle" /\ pending # <<>>
        /\ rows' = [rows EXCEPT ![w] = pending] /\ pc' = [pc EXCEPT ![w] = "append"]
        /\ UNCHANGED <<log, logSynced, ledgerSynced, ledger, answered, seq, deaths, cuts>>
    BY DEF Start, disk, faults
  <1>3. /\ pending \in Seq(Delivery) /\ Distinct(pending)
        /\ \A n \in 1..Len(pending) : ~processed(pending[n].key)
    BY <1>1, PendingProperties
  <1>4. /\ rows' \in [Workers -> Seq(Delivery)] /\ pc' \in [Workers -> {"idle", "append", "mark"}]
        /\ rows'[w] = pending /\ pc'[w] = "append"
        /\ \A u \in Workers \ {w} : rows'[u] = rows[u] /\ pc'[u] = pc[u]
    BY <1>1, <1>2, <1>3 DEF TypeInv
  <1>5. TypeInv'
    <2>1. \A u \in Workers : seq'[u] <= Len(ledger') /\ (pc'[u] = "idle" <=> rows'[u] = <<>>)
      BY <1>1, <1>2, <1>4 DEF TypeInv
    <2>2. QED BY <1>1, <1>2, <1>4, <2>1 DEF TypeInv
  <1>6. PrimaryKey' /\ RecordInv'
    BY <1>1, <1>2 DEF PrimaryKey, RecordInv, Recorded, Stored
  <1>7. RowsInv'
    <2> SUFFICES ASSUME NEW u \in Workers
                 PROVE  Distinct(rows'[u]) /\ (pc'[u] = "mark" => Recorded(seq[u], rows'[u][1].key))
      BY <1>2 DEF RowsInv, Recorded
    <2>1. CASE u = w
      BY <1>3, <1>4, <2>1
    <2>2. CASE u # w
      BY <1>1, <1>4, <2>2 DEF RowsInv
    <2>3. QED BY <2>1, <2>2
  <1>8. PotentialInv'
    <2> SUFFICES ASSUME NEW k \in Keys
                 PROVE  Cardinality(Decisions(k)') + Cardinality(Open(k)') <= Allowed'
      BY DEF PotentialInv
    <2>1. processed(k)' <=> processed(k)
      BY <1>2 DEF processed, Marks
    <2>2. ASSUME NEW u \in Workers PROVE u \in Open(k)' <=> u \in Open(k)
      <3>1. CASE u # w
        BY <1>4, <2>1, <3>1 DEF Open, Ahead
      <3>2. CASE u = w
        <4>1. Ahead(w, k)' => ~processed(k)
          BY <1>3, <1>4 DEF Ahead
        <4>2. ~Ahead(w, k)
          <5>1. Len(rows[w]) = 0
            BY <1>1, <1>2, EmptySeq DEF TypeInv
          <5>2. QED BY <5>1 DEF Ahead
        <4>3. QED BY <1>2, <1>4, <2>1, <3>2, <4>1, <4>2 DEF Open
      <3>3. QED BY <3>1, <3>2
    <2>3. Open(k)' = Open(k)
      BY <2>2 DEF Open
    <2>4. Decisions(k)' = Decisions(k) /\ Allowed' = Allowed
      BY <1>2 DEF Decisions, Allowed
    <2>5. QED BY <1>1, <2>3, <2>4 DEF PotentialInv
  <1>9. QED BY <1>5, <1>6, <1>7, <1>8 DEF IInv

\* The rows a worker holds, while it holds some.
LEMMA RowsInHand ==
  ASSUME TypeInv, NEW w \in Workers, pc[w] # "idle"
  PROVE  /\ rows[w] \in Seq(Delivery) /\ rows[w] # <<>>
         /\ Len(rows[w]) \in Nat \ {0} /\ 1 \in 1..Len(rows[w])
         /\ Head(rows[w]) = rows[w][1] /\ rows[w][1] \in Delivery
         /\ Tail(rows[w]) \in Seq(Delivery) /\ Len(Tail(rows[w])) = Len(rows[w]) - 1
         /\ \A i \in 1..Len(Tail(rows[w])) : i + 1 \in 1..Len(rows[w]) /\ Tail(rows[w])[i] = rows[w][i + 1]
         /\ Tail(rows[w]) = <<>> <=> Len(rows[w]) = 1
  <1>1. rows[w] \in Seq(Delivery) /\ rows[w] # <<>>
    BY DEF TypeInv
  <1>2. Len(rows[w]) \in Nat \ {0} /\ 1 \in 1..Len(rows[w])
    BY <1>1, EmptySeq
  <1>3. rows[w][1] \in Delivery
    BY <1>1, <1>2, ElementOfSeq
  <1>4. /\ Tail(rows[w]) \in Seq(Delivery) /\ Len(Tail(rows[w])) = Len(rows[w]) - 1
        /\ \A i \in 1..Len(Tail(rows[w])) : Tail(rows[w])[i] = rows[w][i + 1]
    BY <1>1, HeadTailProperties
  <1>5. Tail(rows[w]) = <<>> <=> Len(Tail(rows[w])) = 0
    BY <1>4, EmptySeq
  <1>6. \A i \in 1..Len(Tail(rows[w])) : i + 1 \in 1..Len(rows[w])
    BY <1>2, <1>4
  <1>7. QED BY <1>1, <1>2, <1>3, <1>4, <1>5, <1>6

LEMMA AppendStep ==
  ASSUME IInv, NEW w \in Workers, AppendDecision(w)
  PROVE  IInv'
  <1> DEFINE r == Head(rows[w])
             row == [key |-> r.key, payment_id |-> payment_id[r.body],
                     customer_id |-> customer_key(r.body),
                     arm |-> arm_of[customer_key(r.body)], event |-> r.body]
             L == Len(ledger)
  <1>1. TypeInv /\ PrimaryKey /\ RowsInv /\ RecordInv /\ PotentialInv
    BY DEF IInv
  <1>2. /\ pc[w] = "append" /\ ledger' = Append(ledger, row)
        /\ seq' = [seq EXCEPT ![w] = Len(ledger')] /\ pc' = [pc EXCEPT ![w] = "mark"]
        /\ UNCHANGED <<log, logSynced, ledgerSynced, answered, rows, deaths, cuts>>
    BY DEF AppendDecision, disk, faults
  <1>3. r = rows[w][1] /\ r \in Delivery /\ 1 \in 1..Len(rows[w])
    BY <1>1, <1>2, RowsInHand
  <1> HIDE DEF r
  <1>4. row \in DecisionRow /\ row.key = r.key
    <2>1. r.key \in Keys /\ r.body \in Events
      BY <1>3 DEF Delivery
    <2>2. QED BY <2>1, ArmAssumption DEF DecisionRow
  <1> HIDE DEF row
  <1>5. /\ ledger' \in Seq(DecisionRow) /\ L \in Nat /\ Len(ledger') = L + 1
        /\ \A n \in 1..L : ledger'[n] = ledger[n]
        /\ ledger'[L + 1] = row
    BY <1>1, <1>2, <1>4, AppendProperties, LenProperties DEF TypeInv
  <1> HIDE DEF L
  <1>6. /\ seq' \in [Workers -> Nat] /\ pc' \in [Workers -> {"idle", "append", "mark"}]
        /\ seq'[w] = L + 1 /\ pc'[w] = "mark"
        /\ \A u \in Workers \ {w} : seq'[u] = seq[u] /\ pc'[u] = pc[u]
    <2>1. seq' = [seq EXCEPT ![w] = L + 1]
      BY <1>2, <1>5
    <2>2. L + 1 \in Nat
      BY <1>5
    <2>3. QED BY <1>1, <1>2, <2>1, <2>2 DEF TypeInv
  <1>7. \A n, k : Recorded(n, k) => Recorded(n, k)'
    BY <1>5 DEF Recorded, L
  <1>8. TypeInv'
    <2>1. ASSUME NEW u \in Workers
          PROVE  seq'[u] <= Len(ledger') /\ (pc'[u] = "idle" <=> rows'[u] = <<>>)
      <3>1. CASE u = w
        BY <1>1, <1>2, <1>5, <1>6, <3>1 DEF TypeInv
      <3>2. CASE u # w
        <4>1. seq[u] \in Nat /\ seq[u] <= L /\ (pc[u] = "idle" <=> rows[u] = <<>>)
          BY <1>1 DEF TypeInv, L
        <4>2. QED BY <1>2, <1>5, <1>6, <3>2, <4>1
      <3>3. QED BY <3>1, <3>2
    <2>2. ledgerSynced' \in 0..Len(ledger')
      <3>1. ledgerSynced \in 0..L
        BY <1>1 DEF TypeInv, L
      <3>2. QED BY <1>2, <1>5, <3>1
    <2>3. QED BY <1>1, <1>2, <1>5, <1>6, <2>1, <2>2 DEF TypeInv
  <1>9. PrimaryKey'
    BY <1>1, <1>2 DEF PrimaryKey
  <1>10. RowsInv'
    <2> SUFFICES ASSUME NEW u \in Workers
                 PROVE  /\ Distinct(rows[u])
                        /\ pc'[u] = "mark" => /\ seq'[u] \in 1..Len(ledger')
                                               /\ ledger'[seq'[u]].key = rows[u][1].key
      BY <1>2 DEF RowsInv, Recorded
    <2>1. Distinct(rows[u]) /\ (pc[u] = "mark" => Recorded(seq[u], rows[u][1].key))
      BY <1>1 DEF RowsInv
    <2>2. CASE u = w
      <3>1. L + 1 \in 1..Len(ledger') /\ ledger'[L + 1].key = rows[w][1].key
        BY <1>3, <1>4, <1>5
      <3>2. QED BY <1>2, <1>6, <2>1, <2>2, <3>1 DEF Recorded
    <2>3. CASE u # w
      <3>1. pc'[u] = pc[u] /\ seq'[u] = seq[u] /\ rows'[u] = rows[u]
        BY <1>2, <1>6, <2>3
      <3>2. \A n \in 1..L : n \in 1..Len(ledger') /\ ledger'[n] = ledger[n]
        BY <1>5
      <3>3. QED BY <2>1, <3>1, <3>2 DEF Recorded, L
    <2>4. QED BY <2>2, <2>3
  <1>11. RecordInv'
    <2> SUFFICES ASSUME cuts' = 0
                 PROVE  /\ \A n \in 1..Len(log) : log[n].op = "mark" => Recorded(log[n].seq, log[n].key)'
                        /\ \A f \in answered : Stored(Key(f))
      BY <1>2 DEF RecordInv, Stored, Recorded
    <2>1. \A n \in 1..L : n \in 1..Len(ledger') /\ ledger'[n] = ledger[n]
      BY <1>5
    <2>2. QED BY <1>1, <1>2, <2>1 DEF RecordInv, Recorded, L
  <1>12. PotentialInv'
    <2> SUFFICES ASSUME NEW k \in Keys
                 PROVE  Cardinality(Decisions(k)') + Cardinality(Open(k)') <= Allowed'
      BY DEF PotentialInv
    <2>1. processed(k)' <=> processed(k)
      BY <1>2 DEF processed, Marks
    <2>2. Allowed' = Allowed
      BY <1>2 DEF Allowed
    <2>3. Decisions(k)' = Decisions(k) \union (IF r.key = k THEN {L + 1} ELSE {})
      BY <1>4, <1>5 DEF Decisions, L
    <2>4. L + 1 \notin Decisions(k)
      BY <1>5 DEF Decisions, L
    <2>5. ASSUME NEW u \in Workers, u # w PROVE u \in Open(k)' <=> u \in Open(k)
      BY <1>2, <1>6, <2>1, <2>5 DEF Open, Ahead
    <2>6. CASE r.key = k
      <3>1. w \in Open(k)
        BY <1>2, <1>3, <2>6 DEF Open, Ahead
      <3>2. w \notin Open(k)'
        <4>1. \A n \in 1..Len(rows[w]) : rows[w][n].key = k => n = 1
          BY <1>1, <1>3, <2>6 DEF RowsInv, Distinct
        <4>2. QED BY <1>2, <1>3, <1>6, <2>6, <4>1 DEF Open, Ahead
      <3>3. Open(k)' = Open(k) \ {w}
        BY <2>5, <3>2 DEF Open
      <3>4. Decisions(k)' = Decisions(k) \union {L + 1}
        BY <2>3, <2>6
      <3>5. /\ Cardinality(Open(k)') = Cardinality(Open(k)) - 1
            /\ Cardinality(Decisions(k)') = Cardinality(Decisions(k)) + 1
        <4>1. IsFiniteSet(Decisions(k)) /\ IsFiniteSet(Open(k))
          BY <1>1, Finiteness
        <4>2. Cardinality(Open(k) \ {w}) = Cardinality(Open(k)) - 1
          BY <3>1, <4>1, FS_RemoveElement
        <4>3. Cardinality(Decisions(k) \union {L + 1}) = Cardinality(Decisions(k)) + 1
          BY <2>4, <4>1, FS_AddElement
        <4>4. QED BY <3>3, <3>4, <4>2, <4>3
      <3>6. Cardinality(Decisions(k)) \in Nat /\ Cardinality(Open(k)) \in Nat
        BY <1>1, Finiteness
      <3>7. Cardinality(Decisions(k)) + Cardinality(Open(k)) <= Allowed
        BY <1>1 DEF PotentialInv
      <3>8. QED BY <2>2, <3>5, <3>6, <3>7
    <2>7. CASE r.key # k
      <3>1. Decisions(k)' = Decisions(k)
        BY <2>3, <2>7
      <3>2. w \in Open(k)' <=> w \in Open(k)
        BY <1>2, <1>3, <1>6, <2>1, <2>7 DEF Open, Ahead
      <3>3. Open(k)' = Open(k)
        BY <2>5, <3>2 DEF Open
      <3>4. QED BY <1>1, <2>2, <3>1, <3>3 DEF PotentialInv
    <2>8. QED BY <2>6, <2>7
  <1>13. QED BY <1>8, <1>9, <1>10, <1>11, <1>12 DEF IInv

LEMMA MarkStep ==
  ASSUME IInv, NEW w \in Workers, Mark(w)
  PROVE  IInv'
  <1> DEFINE r == rows[w][1]
             c == [op |-> "mark", key |-> r.key, seq |-> seq[w]]
             L == Len(log)
  <1>1. TypeInv /\ PrimaryKey /\ RowsInv /\ RecordInv /\ PotentialInv
    BY DEF IInv
  <1>2. pc[w] = "mark" /\ pc[w] # "idle"
    BY DEF Mark
  <1>3. /\ r \in Delivery /\ Head(rows[w]) = r /\ 1 \in 1..Len(rows[w]) /\ Len(rows[w]) \in Nat
        /\ Tail(rows[w]) \in Seq(Delivery) /\ Len(Tail(rows[w])) = Len(rows[w]) - 1
        /\ \A i \in 1..Len(Tail(rows[w])) : i + 1 \in 1..Len(rows[w]) /\ Tail(rows[w])[i] = rows[w][i + 1]
        /\ Tail(rows[w]) = <<>> <=> Len(rows[w]) = 1
    BY <1>1, <1>2, RowsInHand
  <1>4. /\ log' = Append(log, c)
        /\ rows' = [rows EXCEPT ![w] = Tail(rows[w])]
        /\ pc' = [pc EXCEPT ![w] = IF Len(rows[w]) = 1 THEN "idle" ELSE "append"]
        /\ seq' = [seq EXCEPT ![w] = 0]
        /\ UNCHANGED <<logSynced, ledgerSynced, ledger, answered, deaths, cuts>>
    BY <1>3 DEF Mark, disk, faults
  <1>5. c \in Delivery \union Marking /\ c.op = "mark" /\ c.key = r.key /\ c.seq = seq[w]
    <2>1. r.key \in Keys /\ seq[w] \in Nat
      BY <1>1, <1>3 DEF Delivery, TypeInv
    <2>2. QED BY <2>1 DEF Marking
  <1> HIDE DEF r, c
  <1>6. /\ log' \in Seq(Delivery \union Marking)
        /\ L \in Nat /\ Len(log') = L + 1
        /\ \A n \in 1..L : log'[n] = log[n]
        /\ log'[L + 1] = c
        /\ \A k : processed(k)' <=> processed(k) \/ k = r.key
        /\ \A k : Stored(k) => Stored(k)'
    <2>1. /\ log' \in Seq(Delivery \union Marking)
          /\ L \in Nat /\ Len(log') = L + 1
          /\ \A n \in 1..L : log'[n] = log[n]
          /\ log'[L + 1] = c
      BY <1>1, <1>4, <1>5, LogGrows
    <2>2. ASSUME NEW k
          PROVE  (processed(k)' <=> processed(k) \/ k = r.key) /\ (Stored(k) => Stored(k)')
      <3>1. /\ processed(k)' <=> processed(k) \/ (c.op = "mark" /\ c.key = k)
            /\ Stored(k)' <=> Stored(k) \/ (c.op = "insert" /\ c.key = k)
        BY <1>1, <1>4, <1>5, LogGrows
      <3>2. QED BY <1>5, <3>1
    <2>3. QED BY <2>1, <2>2
  <1>7. \A n \in 1..Len(log') : n \in 1..L \/ n = L + 1
    BY <1>6
  <1>8. /\ rows' \in [Workers -> Seq(Delivery)] /\ seq' \in [Workers -> Nat]
        /\ pc' \in [Workers -> {"idle", "append", "mark"}]
        /\ rows'[w] = Tail(rows[w]) /\ seq'[w] = 0 /\ pc'[w] \in {"idle", "append"}
        /\ pc'[w] = "idle" <=> rows'[w] = <<>>
        /\ \A u \in Workers \ {w} : rows'[u] = rows[u] /\ seq'[u] = seq[u] /\ pc'[u] = pc[u]
    BY <1>1, <1>3, <1>4 DEF TypeInv
  <1>9. TypeInv'
    <2>1. ASSUME NEW u \in Workers
          PROVE  seq'[u] <= Len(ledger') /\ (pc'[u] = "idle" <=> rows'[u] = <<>>)
      <3>1. Len(ledger) \in Nat
        BY <1>1, Entries
      <3>2. CASE u = w
        BY <1>4, <1>8, <3>1, <3>2
      <3>3. CASE u # w
        BY <1>1, <1>4, <1>8, <3>3 DEF TypeInv
      <3>4. QED BY <3>2, <3>3
    <2>2. logSynced' \in 0..Len(log')
      <3>1. logSynced \in 0..L
        BY <1>1 DEF TypeInv
      <3> HIDE DEF L
      <3>2. QED BY <1>4, <1>6, <3>1
    <2>3. QED BY <1>1, <1>4, <1>6, <1>8, <2>1, <2>2 DEF TypeInv
  <1> HIDE DEF L
  <1>10. PrimaryKey'
    <2>1. ASSUME NEW m \in 1..Len(log'), log'[m].op = "insert"
          PROVE  m \in 1..L /\ log[m].op = "insert" /\ log'[m] = log[m]
      BY <1>5, <1>6, <1>7, <2>1
    <2>2. QED BY <1>1, <2>1 DEF PrimaryKey, L
  <1>11. RowsInv'
    <2> SUFFICES ASSUME NEW u \in Workers
                 PROVE  /\ Distinct(rows'[u])
                        /\ pc'[u] = "mark" => Recorded(seq'[u], rows'[u][1].key)
      BY <1>4 DEF RowsInv, Recorded
    <2>1. Distinct(rows[u]) /\ (pc[u] = "mark" => Recorded(seq[u], rows[u][1].key))
      BY <1>1 DEF RowsInv
    <2>2. CASE u = w
      <3>1. ASSUME NEW i \in 1..Len(Tail(rows[w])), NEW j \in 1..Len(Tail(rows[w])),
                   Tail(rows[w])[i].key = Tail(rows[w])[j].key
            PROVE  i = j
        <4>1. i + 1 \in 1..Len(rows[w]) /\ j + 1 \in 1..Len(rows[w])
              /\ rows[w][i + 1].key = rows[w][j + 1].key
          BY <1>3, <3>1
        <4>2. i + 1 = j + 1
          BY <2>1, <2>2, <4>1 DEF Distinct
        <4>3. QED BY <1>3, <4>2
      <3>2. Distinct(rows'[w])
        BY <1>8, <3>1 DEF Distinct
      <3>3. QED BY <1>8, <2>2, <3>2
    <2>3. CASE u # w
      BY <1>8, <2>1, <2>3
    <2>4. QED BY <2>2, <2>3
  <1>12. RecordInv'
    <2> SUFFICES ASSUME cuts' = 0
                 PROVE  /\ \A n \in 1..Len(log') : log'[n].op = "mark" =>
                             /\ log'[n].seq \in 1..Len(ledger')
                             /\ ledger'[log'[n].seq].key = log'[n].key
                        /\ \A f \in answered' : Stored(Key(f))'
      BY DEF RecordInv, Recorded
    <2>1. ASSUME NEW n \in 1..Len(log'), log'[n].op = "mark"
          PROVE  Recorded(log'[n].seq, log'[n].key)
      <3>1. CASE n \in 1..L
        BY <1>1, <1>4, <1>6, <2>1, <3>1 DEF RecordInv, L
      <3>2. CASE n = L + 1
        BY <1>1, <1>2, <1>5, <1>6, <3>2 DEF RowsInv, r
      <3>3. QED BY <1>7, <3>1, <3>2
    <2>2. \A f \in answered' : Stored(Key(f))'
      BY <1>1, <1>4, <1>6 DEF RecordInv
    <2>3. QED BY <1>4, <2>1, <2>2 DEF Recorded
  <1>13. PotentialInv'
    <2> SUFFICES ASSUME NEW k \in Keys
                 PROVE  Cardinality(Decisions(k)') + Cardinality(Open(k)') <= Allowed'
      BY DEF PotentialInv
    <2>1. Decisions(k)' = Decisions(k) /\ Allowed' = Allowed
      BY <1>4 DEF Decisions, Allowed
    <2>2. ASSUME NEW u \in Workers, u \in Open(k)' PROVE u \in Open(k)
      <3>1. Ahead(u, k)' \/ ~processed(k)'
        BY <2>2 DEF Open
      <3>2. processed(k) => processed(k)'
        BY <1>6
      <3>3. CASE u # w
        <4>1. Ahead(u, k)' <=> Ahead(u, k)
          BY <1>8, <3>3 DEF Ahead
        <4>2. QED BY <1>8, <2>2, <3>2, <3>3, <4>1 DEF Open
      <3>4. CASE u = w /\ Ahead(w, k)'
        <4>1. PICK i \in 1..Len(Tail(rows[w])) : Tail(rows[w])[i].key = k
          BY <1>8, <3>4 DEF Ahead
        <4>2. i + 1 \in 1..Len(rows[w]) /\ rows[w][i + 1].key = k /\ i + 1 # 1
          BY <1>3, <4>1
        <4>3. QED BY <3>4, <4>2 DEF Open, Ahead
      <3>5. CASE u = w /\ ~processed(k)'
        <4>1. ~processed(k) /\ k # r.key
          BY <1>6, <3>5
        <4>2. QED BY <3>5, <4>1 DEF Open, r
      <3>6. QED BY <3>1, <3>3, <3>4, <3>5
    <2>3. Open(k)' \in SUBSET Open(k)
      BY <2>2 DEF Open
    <2>4. /\ IsFiniteSet(Open(k)) /\ Cardinality(Open(k)) \in Nat
          /\ Cardinality(Decisions(k)) \in Nat
      BY <1>1, Finiteness
    <2>5. Cardinality(Open(k)') <= Cardinality(Open(k)) /\ Cardinality(Open(k)') \in Nat
      BY <2>3, <2>4, FS_Subset, FS_CardinalityType
    <2>6. Cardinality(Decisions(k)) + Cardinality(Open(k)) <= Allowed
      BY <1>1 DEF PotentialInv
    <2>7. Allowed \in Int
      <3>1. Cardinality(Workers) \in Nat /\ cuts \in Nat /\ deaths \in Nat
        <4>1. Cardinality(Workers) \in Nat
          BY <1>1, Finiteness
        <4>2. cuts \in Nat /\ deaths \in Nat
          BY <1>1, IngestAssumption DEF TypeInv
        <4>3. QED BY <4>1, <4>2
      <3>2. QED BY <3>1 DEF Allowed
    <2>8. QED BY <2>1, <2>4, <2>5, <2>6, <2>7
  <1>14. QED BY <1>9, <1>10, <1>11, <1>12, <1>13 DEF IInv

LEMMA DieStep ==
  ASSUME IInv, NEW w \in Workers, Die(w)
  PROVE  IInv'
  <1>1. TypeInv /\ PrimaryKey /\ RowsInv /\ RecordInv /\ PotentialInv
    BY DEF IInv
  <1>2. /\ deaths < MaxDeaths /\ deaths' = deaths + 1
        /\ pc' = [pc EXCEPT ![w] = "idle"] /\ rows' = [rows EXCEPT ![w] = <<>>]
        /\ seq' = [seq EXCEPT ![w] = 0]
        /\ UNCHANGED <<log, logSynced, ledgerSynced, ledger, answered, cuts>>
    BY DEF Die, disk
  <1>3. <<>> \in Seq(Delivery) /\ Len(<<>>) = 0
    BY EmptySeq
  <1>4. /\ rows' \in [Workers -> Seq(Delivery)] /\ seq' \in [Workers -> Nat]
        /\ pc' \in [Workers -> {"idle", "append", "mark"}]
        /\ rows'[w] = <<>> /\ seq'[w] = 0 /\ pc'[w] = "idle"
        /\ \A u \in Workers \ {w} : rows'[u] = rows[u] /\ seq'[u] = seq[u] /\ pc'[u] = pc[u]
    BY <1>1, <1>2, <1>3 DEF TypeInv
  <1>5. TypeInv'
    <2>1. ASSUME NEW u \in Workers
          PROVE  seq'[u] <= Len(ledger') /\ (pc'[u] = "idle" <=> rows'[u] = <<>>)
      <3>1. Len(ledger) \in Nat
        BY <1>1, Entries
      <3>2. CASE u = w
        BY <1>2, <1>4, <3>1, <3>2
      <3>3. CASE u # w
        BY <1>1, <1>2, <1>4, <3>3 DEF TypeInv
      <3>4. QED BY <3>2, <3>3
    <2>2. deaths' \in 0..MaxDeaths
      BY <1>1, <1>2, IngestAssumption DEF TypeInv
    <2>3. QED BY <1>1, <1>2, <1>4, <2>1, <2>2 DEF TypeInv
  <1>6. PrimaryKey' /\ RecordInv'
    BY <1>1, <1>2 DEF PrimaryKey, RecordInv, Recorded, Stored
  <1>7. RowsInv'
    <2> SUFFICES ASSUME NEW u \in Workers
                 PROVE  /\ Distinct(rows'[u])
                        /\ pc'[u] = "mark" => Recorded(seq'[u], rows'[u][1].key)
      BY <1>2 DEF RowsInv, Recorded
    <2>1. CASE u = w
      BY <1>3, <1>4, <2>1 DEF Distinct
    <2>2. CASE u # w
      BY <1>1, <1>4, <2>2 DEF RowsInv
    <2>3. QED BY <2>1, <2>2
  <1>8. PotentialInv'
    <2> SUFFICES ASSUME NEW k \in Keys
                 PROVE  Cardinality(Decisions(k)') + Cardinality(Open(k)') <= Allowed'
      BY DEF PotentialInv
    <2>1. Decisions(k)' = Decisions(k) /\ (processed(k)' <=> processed(k))
      BY <1>2 DEF Decisions, processed, Marks
    <2>2. \A u \in Workers \ {w} : u \in Open(k)' <=> u \in Open(k)
      BY <1>4, <2>1 DEF Open, Ahead
    <2>3. Open(k)' \in SUBSET (Open(k) \union {w})
      BY <2>2 DEF Open
    <2>4. /\ IsFiniteSet(Open(k)) /\ Cardinality(Open(k)) \in Nat
          /\ Cardinality(Decisions(k)) \in Nat
      BY <1>1, Finiteness
    <2>5. /\ IsFiniteSet(Open(k) \union {w})
          /\ Cardinality(Open(k) \union {w}) <= Cardinality(Open(k)) + 1
          /\ Cardinality(Open(k) \union {w}) \in Nat
      <3>1. /\ IsFiniteSet(Open(k) \union {w})
            /\ Cardinality(Open(k) \union {w}) =
                 IF w \in Open(k) THEN Cardinality(Open(k)) ELSE Cardinality(Open(k)) + 1
        BY <2>4, FS_AddElement
      <3>2. QED BY <2>4, <3>1
    <2>6. /\ Cardinality(Open(k)') <= Cardinality(Open(k) \union {w})
          /\ Cardinality(Open(k)') \in Nat
      BY <2>3, <2>5, FS_Subset, FS_CardinalityType
    <2>7. Cardinality(Decisions(k)) + Cardinality(Open(k)) <= Allowed
      BY <1>1 DEF PotentialInv
    <2>8. Allowed' = Allowed + 1 /\ Allowed \in Int
      <3>1. Cardinality(Workers) \in Nat /\ cuts \in Nat /\ deaths \in Nat
        <4>1. Cardinality(Workers) \in Nat
          BY <1>1, Finiteness
        <4>2. cuts \in Nat /\ deaths \in Nat
          BY <1>1, IngestAssumption DEF TypeInv
        <4>3. QED BY <4>1, <4>2
      <3>2. Cardinality(Workers) * (1 + cuts) \in Int
        BY <3>1
      <3>3. QED BY <1>2, <3>1, <3>2 DEF Allowed
    <2>9. QED BY <2>1, <2>4, <2>5, <2>6, <2>7, <2>8
  <1>9. QED BY <1>5, <1>6, <1>7, <1>8 DEF IInv

\* A worker that raises leaves its rows undecided: whatever it may decide now,
\* it could have decided before.
LEMMA RaiseStep ==
  ASSUME IInv, NEW w \in Workers, Raise(w)
  PROVE  IInv'
  <1>1. TypeInv /\ PrimaryKey /\ RowsInv /\ RecordInv /\ PotentialInv
    BY DEF IInv
  <1>2. /\ pc[w] = "append"
        /\ pc' = [pc EXCEPT ![w] = "idle"] /\ rows' = [rows EXCEPT ![w] = <<>>]
        /\ UNCHANGED <<log, logSynced, ledgerSynced, ledger, answered, seq, deaths, cuts>>
    BY DEF Raise, disk, faults
  <1>3. <<>> \in Seq(Delivery) /\ Len(<<>>) = 0
    BY EmptySeq
  <1>4. /\ rows' \in [Workers -> Seq(Delivery)]
        /\ pc' \in [Workers -> {"idle", "append", "mark"}]
        /\ rows'[w] = <<>> /\ pc'[w] = "idle"
        /\ \A u \in Workers \ {w} : rows'[u] = rows[u] /\ pc'[u] = pc[u]
    BY <1>1, <1>2, <1>3 DEF TypeInv
  <1>5. TypeInv'
    <2>1. \A u \in Workers : seq'[u] <= Len(ledger') /\ (pc'[u] = "idle" <=> rows'[u] = <<>>)
      BY <1>1, <1>2, <1>4 DEF TypeInv
    <2>2. QED BY <1>1, <1>2, <1>4, <2>1 DEF TypeInv
  <1>6. PrimaryKey' /\ RecordInv'
    BY <1>1, <1>2 DEF PrimaryKey, RecordInv, Recorded, Stored
  <1>7. RowsInv'
    <2> SUFFICES ASSUME NEW u \in Workers
                 PROVE  /\ Distinct(rows'[u])
                        /\ pc'[u] = "mark" => Recorded(seq'[u], rows'[u][1].key)
      BY <1>2 DEF RowsInv, Recorded
    <2>1. CASE u = w
      BY <1>3, <1>4, <2>1 DEF Distinct
    <2>2. CASE u # w
      BY <1>1, <1>2, <1>4, <2>2 DEF RowsInv
    <2>3. QED BY <2>1, <2>2
  <1>8. PotentialInv'
    <2> SUFFICES ASSUME NEW k \in Keys
                 PROVE  Cardinality(Decisions(k)') + Cardinality(Open(k)') <= Allowed'
      BY DEF PotentialInv
    <2>1. Decisions(k)' = Decisions(k) /\ (processed(k)' <=> processed(k)) /\ Allowed' = Allowed
      BY <1>2 DEF Decisions, processed, Marks, Allowed
    <2>2. \A u \in Workers \ {w} : u \in Open(k)' <=> u \in Open(k)
      BY <1>4, <2>1 DEF Open, Ahead
    <2>3. w \in Open(k)' => w \in Open(k)
      <3>1. ~Ahead(w, k)'
        BY <1>3, <1>4 DEF Ahead
      <3>2. QED BY <1>2, <2>1, <3>1 DEF Open
    <2>4. Open(k)' \in SUBSET Open(k)
      BY <2>2, <2>3 DEF Open
    <2>5. /\ IsFiniteSet(Open(k)) /\ Cardinality(Open(k)) \in Nat
          /\ Cardinality(Decisions(k)) \in Nat
      BY <1>1, Finiteness
    <2>6. Cardinality(Open(k)') <= Cardinality(Open(k)) /\ Cardinality(Open(k)') \in Nat
      BY <2>4, <2>5, FS_Subset, FS_CardinalityType
    <2>7. Cardinality(Decisions(k)) + Cardinality(Open(k)) <= Allowed
      BY <1>1 DEF PotentialInv
    <2>8. Allowed \in Int
      <3>1. Cardinality(Workers) \in Nat
        BY <1>1, Finiteness
      <3>2. cuts \in Nat /\ deaths \in Nat
        BY <1>1, IngestAssumption DEF TypeInv
      <3>3. Cardinality(Workers) * (1 + cuts) \in Int
        BY <3>1, <3>2
      <3>4. QED BY <3>2, <3>3 DEF Allowed
    <2>9. QED BY <2>1, <2>5, <2>6, <2>7, <2>8
  <1>9. QED BY <1>5, <1>6, <1>7, <1>8 DEF IInv

\* A step that leaves all but what is surely on disk.
LEMMA DiskStep ==
  ASSUME IInv, UNCHANGED <<log, ledger, answered, locals, faults>>,
         logSynced' \in 0..Len(log), ledgerSynced' \in 0..Len(ledger)
  PROVE  IInv'
  <1>1. TypeInv'
    BY DEF IInv, TypeInv, locals, faults
  <1>2. PrimaryKey' /\ RowsInv' /\ RecordInv'
    BY DEF IInv, PrimaryKey, RowsInv, RecordInv, Recorded, Stored, Distinct, locals, faults
  <1>3. \A k : Open(k)' = Open(k) /\ Decisions(k)' = Decisions(k) /\ Allowed' = Allowed
    BY DEF Open, Ahead, processed, Marks, Decisions, Allowed, locals, faults
  <1>4. PotentialInv'
    BY <1>3 DEF IInv, PotentialInv
  <1>5. QED BY <1>1, <1>2, <1>4 DEF IInv

LEMMA PowerLossStep ==
  ASSUME IInv, NEW n \in logSynced..Len(log), NEW m \in ledgerSynced..Len(ledger), PowerLoss(n, m)
  PROVE  IInv'
  <1>1. TypeInv /\ PrimaryKey /\ PotentialInv
    BY DEF IInv
  <1>2. /\ cuts < MaxCuts /\ cuts' = cuts + 1
        /\ pc' = [w \in Workers |-> "idle"] /\ rows' = [w \in Workers |-> <<>>]
        /\ seq' = [w \in Workers |-> 0]
        /\ log' = SubSeq(log, 1, n) /\ ledger' = SubSeq(ledger, 1, m)
        /\ UNCHANGED <<logSynced, ledgerSynced, answered, deaths>>
    BY DEF PowerLoss, LoseMemory, disk
  <1>3. /\ Len(log) \in Nat /\ logSynced \in 0..Len(log) /\ n \in 0..Len(log)
        /\ Len(ledger) \in Nat /\ ledgerSynced \in 0..Len(ledger) /\ m \in 0..Len(ledger)
    BY <1>1, Entries DEF TypeInv
  <1>4. /\ log' \in Seq(Delivery \union Marking) /\ Len(log') = n
        /\ \A i \in 1..n : i \in 1..Len(log) /\ log'[i] = log[i]
    <2>1. n \in Int /\ \A i \in 1..n : i \in 1..Len(log) /\ log[i] \in Delivery \union Marking
      BY <1>1, <1>3, Entries
    <2>2. /\ log' \in Seq(Delivery \union Marking)
          /\ Len(log') = IF 1 <= n THEN n - 1 + 1 ELSE 0
          /\ \A i \in 1..(n - 1 + 1) : log'[i] = log[1 + i - 1]
      BY <1>2, <2>1, SubSeqProperties
    <2>3. \A i \in 1..n : i \in 1..(n - 1 + 1) /\ 1 + i - 1 = i
      BY <1>3
    <2>4. Len(log') = n
      BY <1>3, <2>2
    <2>5. QED BY <2>1, <2>2, <2>3, <2>4
  <1>5. /\ ledger' \in Seq(DecisionRow) /\ Len(ledger') = m
        /\ \A i \in 1..m : i \in 1..Len(ledger) /\ ledger'[i] = ledger[i]
    <2>1. m \in Int /\ \A i \in 1..m : i \in 1..Len(ledger) /\ ledger[i] \in DecisionRow
      BY <1>1, <1>3, Entries
    <2>2. /\ ledger' \in Seq(DecisionRow)
          /\ Len(ledger') = IF 1 <= m THEN m - 1 + 1 ELSE 0
          /\ \A i \in 1..(m - 1 + 1) : ledger'[i] = ledger[1 + i - 1]
      BY <1>2, <2>1, SubSeqProperties
    <2>3. \A i \in 1..m : i \in 1..(m - 1 + 1) /\ 1 + i - 1 = i
      BY <1>3
    <2>4. Len(ledger') = m
      BY <1>3, <2>2
    <2>5. QED BY <2>1, <2>2, <2>3, <2>4
  <1>6. TypeInv'
    <2>1. logSynced' \in 0..Len(log') /\ ledgerSynced' \in 0..Len(ledger')
      BY <1>2, <1>3, <1>4, <1>5
    <2>2. cuts' \in 0..MaxCuts
      BY <1>1, <1>2, IngestAssumption DEF TypeInv
    <2>3. <<>> \in Seq(Delivery)
      BY EmptySeq
    <2>4. /\ pc' \in [Workers -> {"idle", "append", "mark"}]
          /\ rows' \in [Workers -> Seq(Delivery)] /\ seq' \in [Workers -> Nat]
      BY <1>2, <2>3
    <2>5. \A w \in Workers : seq'[w] <= Len(ledger') /\ (pc'[w] = "idle" <=> rows'[w] = <<>>)
      BY <1>2, <1>3, <1>5
    <2>6. QED BY <1>1, <1>2, <1>4, <1>5, <2>1, <2>2, <2>4, <2>5 DEF TypeInv
  <1>7. PrimaryKey'
    BY <1>1, <1>4 DEF PrimaryKey
  <1>8. RowsInv'
    <2>1. Len(<<>>) = 0
      BY EmptySeq
    <2>2. QED BY <1>2, <2>1 DEF RowsInv, Distinct
  <1>9. RecordInv'
    <2>1. cuts' # 0
      BY <1>1, <1>2, IngestAssumption DEF TypeInv
    <2>2. QED BY <2>1 DEF RecordInv
  <1>10. PotentialInv'
    <2> SUFFICES ASSUME NEW k \in Keys
                 PROVE  Cardinality(Decisions(k)') + Cardinality(Open(k)') <= Allowed'
      BY DEF PotentialInv
    <2>1. Decisions(k)' \in SUBSET Decisions(k)
      BY <1>5 DEF Decisions
    <2>2. /\ IsFiniteSet(Decisions(k)) /\ Cardinality(Decisions(k)) \in Nat
          /\ Cardinality(Open(k)) \in Nat
      BY <1>1, Finiteness
    <2>3. Cardinality(Decisions(k)') <= Cardinality(Decisions(k)) /\ Cardinality(Decisions(k)') \in Nat
      BY <2>1, <2>2, FS_Subset, FS_CardinalityType
    <2>4. Open(k)' \in SUBSET Workers /\ IsFiniteSet(Workers) /\ Cardinality(Workers) \in Nat
      BY IngestAssumption, FS_CardinalityType DEF Open
    <2>5. Cardinality(Open(k)') <= Cardinality(Workers) /\ Cardinality(Open(k)') \in Nat
      BY <2>4, FS_Subset, FS_CardinalityType
    <2>6. Cardinality(Decisions(k)) + Cardinality(Open(k)) <= Allowed
      BY <1>1 DEF PotentialInv
    <2>7. Allowed' = Allowed + Cardinality(Workers) /\ Allowed \in Int
      <3>1. cuts \in Nat /\ deaths \in Nat
        BY <1>1, IngestAssumption DEF TypeInv
      <3>2. \A N \in Nat, x \in Nat : N * (1 + (x + 1)) = N * (1 + x) + N /\ N * (1 + x) \in Int
        OBVIOUS
      <3>3. QED BY <1>2, <2>4, <3>1, <3>2 DEF Allowed
    <2>8. QED BY <2>2, <2>3, <2>4, <2>5, <2>6, <2>7
  <1>11. QED BY <1>6, <1>7, <1>8, <1>9, <1>10 DEF IInv

LEMMA InvNext == IInv /\ [Next]_vars => IInv'
  <1> SUFFICES ASSUME IInv, [Next]_vars PROVE IInv'
    OBVIOUS
  <1>1. ASSUME NEW e \in Events, Deliver(e) PROVE IInv'
    BY <1>1, DeliverStep
  <1>2. ASSUME NEW w \in Workers, WorkerStep(w) \/ Die(w) PROVE IInv'
    BY <1>2, StartStep, AppendStep, RaiseStep, MarkStep, DieStep DEF WorkerStep
  <1>3. logSynced \in 0..Len(log) /\ ledgerSynced \in 0..Len(ledger)
        /\ Len(log) \in Nat /\ Len(ledger) \in Nat
    BY Entries DEF IInv, TypeInv
  <1>4. CASE Checkpoint
    <2>1. logSynced' \in 0..Len(log) /\ ledgerSynced' \in 0..Len(ledger)
      BY <1>3, <1>4 DEF Checkpoint
    <2>2. QED BY <1>4, <2>1, DiskStep DEF Checkpoint
  <1>5. ASSUME NEW n \in logSynced..Len(log), NEW m \in ledgerSynced..Len(ledger), PowerLoss(n, m)
        PROVE  IInv'
    BY <1>5, PowerLossStep
  <1>6. CASE UNCHANGED vars
    BY <1>3, <1>6, DiskStep DEF vars, locals, faults
  <1>7. QED BY <1>1, <1>2, <1>4, <1>5, <1>6 DEF Next

LEMMA Invariance == Spec => []IInv
  BY InvInit, InvNext, PTL DEF Spec

-----------------------------------------------------------------------------
\* Every variable of the delivery log, the ledger and the workers keeps its
\* type, through deaths and power cuts.
THEOREM TypeCorrect == Spec => []TypeOK
  <1>1. IInv => TypeOK
    <2> SUFFICES ASSUME IInv PROVE TypeOK
      OBVIOUS
    <2>1. TypeInv
      BY DEF IInv
    <2>2. \A n \in 1..Len(log) : log[n].op \in {"insert", "mark"} /\ log[n].key \in Keys
      BY <2>1, Entries
    <2>3. \A n \in 1..Len(ledger) : ledger[n].arm \in {"treatment", "holdout"}
      BY <2>1, Entries DEF DecisionRow
    <2>4. \A w \in Workers : seq[w] \in 0..Len(ledger)
      BY <2>1, Entries DEF TypeInv
    <2>5. QED BY <2>1, <2>2, <2>3, <2>4 DEF TypeInv, TypeOK, Keys
  <1>2. QED BY <1>1, Invariance, PTL

\* For any number of workers, faults and redeliveries: an event is decided at
\* most once per worker and power cut, and once more per death.
THEOREM DecisionsAlwaysBounded == Spec => []DecisionsAreBounded
  <1>1. IInv => DecisionsAreBounded
    <2> SUFFICES ASSUME IInv, NEW e \in Events
                 PROVE  Cardinality(Decisions(Key(e))) <= Cardinality(Workers) * (1 + cuts) + deaths
      BY DEF DecisionsAreBounded
    <2>1. Cardinality(Decisions(Key(e))) + Cardinality(Open(Key(e))) <= Allowed
      BY DEF IInv, PotentialInv, Keys
    <2>2. /\ Cardinality(Decisions(Key(e))) \in Nat /\ Cardinality(Open(Key(e))) \in Nat
          /\ Cardinality(Workers) \in Nat
      BY Finiteness DEF IInv
    <2>3. cuts \in Nat /\ deaths \in Nat
      BY IngestAssumption DEF IInv, TypeInv
    <2>4. Cardinality(Workers) * (1 + cuts) + deaths \in Int
      BY <2>2, <2>3
    <2>5. QED BY <2>1, <2>2, <2>4 DEF Allowed
  <1>2. QED BY <1>1, Invariance, PTL

\* A processed row leads an auditor to a decision about its own event, for any
\* number of racing, dying and repeating workers, while the power stays.
THEOREM ProcessedAlwaysRecorded == Spec => []ProcessedIsRecorded
  <1>1. IInv => ProcessedIsRecorded
    <2> SUFFICES ASSUME IInv, cuts = 0, NEW k \in Keys, processed(k)
                 PROVE  Recorded(decision_seq(k), k)
      BY DEF ProcessedIsRecorded, Recorded, Keys
    <2> DEFINE last == CHOOSE n \in Marks(k) : \A m \in Marks(k) : m <= n
    <2>1. Marks(k) # {} /\ Marks(k) \subseteq 1..Len(log)
      BY DEF processed, Marks
    <2>2. Len(log) \in Nat
      BY Entries DEF IInv
    <2>3. \E n \in Marks(k) : \A m \in Marks(k) : m <= n
      <3> DEFINE T == {n \in Nat : \E m \in Marks(k) : n = Len(log) - m}
      <3>1. T # {} /\ T \in SUBSET Nat
        <4>1. PICK m \in Marks(k) : m \in 1..Len(log)
          BY <2>1
        <4>2. Len(log) - m \in T
          BY <2>2, <4>1
        <4>3. QED BY <4>2
      <3> HIDE DEF T
      <3>2. PICK n \in T : \A m \in T : n <= m
        BY <3>1, LeastMember
      <3>3. PICK i \in Marks(k) : n = Len(log) - i
        BY DEF T
      <3>4. ASSUME NEW m \in Marks(k) PROVE m <= i
        <4>1. m \in 1..Len(log) /\ i \in 1..Len(log)
          BY <2>1
        <4>2. Len(log) - m \in T
          BY <2>2, <4>1 DEF T
        <4>3. Len(log) - i <= Len(log) - m
          BY <3>2, <3>3, <4>2
        <4>4. QED BY <2>2, <4>1, <4>3
      <3>5. QED BY <3>4
    <2>4. last \in Marks(k)
      BY <2>3
    <2> HIDE DEF last
    <2>5. last \in 1..Len(log) /\ log[last].op = "mark" /\ log[last].key = k
      BY <2>4 DEF Marks
    <2>6. Recorded(log[last].seq, k)
      BY <2>5 DEF IInv, RecordInv
    <2>7. QED BY <2>6 DEF decision_seq, last
  <1>2. QED BY <1>1, Invariance, PTL

\* What was answered 200 is in the delivery log, with its own body if Razorpay
\* named the event, while the power stays.
THEOREM AnsweredAlwaysStored == Spec => []AnsweredIsStored
  <1>1. IInv => AnsweredIsStored
    <2> SUFFICES ASSUME IInv, cuts = 0, NEW e \in answered
                 PROVE  \E n \in 1..Len(log) : /\ log[n].op = "insert" /\ log[n].key = Key(e)
                                               /\ event_id[e] # NoId => log[n].body = e
      BY DEF AnsweredIsStored
    <2>1. PICK n \in 1..Len(log) : log[n].op = "insert" /\ log[n].key = Key(e)
      BY DEF IInv, RecordInv, Stored
    <2>2. log[n] \in Delivery
      BY <2>1, Entries DEF IInv
    <2>3. log[n].body \in Events /\ Key(log[n].body) = Key(e) /\ e \in Events
      BY <2>1, <2>2 DEF Delivery, IInv, TypeInv
    <2>4. ASSUME event_id[e] # NoId PROVE log[n].body = e
      <3> DEFINE b == log[n].body
                 id == IF event_id[b] = NoId THEN <<"noeid", payment_id[b]>> ELSE event_id[b]
      <3>1. id = event_id[e]
        BY <2>3, <2>4 DEF Key
      <3>2. event_id[e] # <<"noeid", payment_id[b]>>
        BY <2>3, <2>4, EventIdAssumption
      <3>3. event_id[b] = event_id[e]
        BY <3>1, <3>2
      <3>4. QED BY <2>3, <2>4, <3>3, EventIdAssumption
    <2>5. QED BY <2>1, <2>4
  <1>2. QED BY <1>1, Invariance, PTL
=============================================================================
