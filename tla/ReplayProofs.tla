---------------------------- MODULE ReplayProofs ----------------------------
(***************************************************************************)
(* Theorems about Replay for any number of commands, ports, revisions and  *)
(* rows, any contents of dist/, and rows appended and edited at any time.  *)
(*                                                                         *)
(* The report holds three numbers.  The argument is that they count: the   *)
(* rows a command fetched fall into those reproduced, those without an     *)
(* input, those that diverged, those left of the current revision, those   *)
(* of the revisions to come and those without a bundle, and none is in two *)
(* of the first five.  So a number that is equal to the total leaves no    *)
(* room for a row that was not reproduced.                                 *)
(***************************************************************************)
EXTENDS Replay, OperatorLemmas

Revs == {r.bundle_revision : r \in Rows}

TypeInv ==
  /\ ledger \in Seq(Entry)
  /\ tampered \in BOOLEAN
  /\ dist \in Dists
  /\ pc \in [Verifiers -> {"idle", "fetch", "next", "await", "replay"} \union Ended]
  /\ mode \in [Verifiers -> Modes]
  /\ rows \in [Verifiers -> Seq(Rows)]
  /\ todo \in [Verifiers -> Seq(Revs)]
  /\ left \in [Verifiers -> Seq(Rows)]
  /\ server \in [Verifiers -> [state : {"none", "starting", "listening", "active", "dead"},
                               port : Ports, revision : Revs \union {UNKNOWN}]]
  /\ report \in [Verifiers -> [reproduced : Nat, unreplayable : Nat, diverged : Nat, ran : BOOLEAN]]
  /\ disturbed \in [Verifiers -> BOOLEAN]

\* Only an edit breaks the chain, and there is one.
LedgerInv == tampered \/ verify(ledger)

\* What a command's place in its program says of its variables.
Phase(v) ==
  /\ pc[v] \in {"idle", "fetch"} => rows[v] = <<>> /\ todo[v] = <<>> /\ report[v] = NoReport
  /\ left[v] # <<>> => pc[v] \in {"await", "replay", "error"}
  /\ pc[v] \in {"await", "replay"} => rows[v] # <<>>
  /\ todo[v] # <<>> => rows[v] # <<>>
  /\ report[v].ran => rows[v] # <<>>
  /\ \A m, n \in 1..Len(todo[v]) : todo[v][m] = todo[v][n] => m = n
  /\ server[v].state # "none" => server[v].revision \in DOMAIN dist
  /\ pc[v] \in {"await", "replay"} => server[v].revision \in DOMAIN dist
  /\ pc[v] = "replay" /\ ~disturbed[v] => server[v].state \in {"active", "dead"}
  /\ pc[v] = "pass" /\ (report[v].ran \/ mode[v] = "require") =>
       report[v].ran /\ ok(report[v], Len(rows[v]))
  /\ pc[v] = "fail" =>
       \/ ~verify(ledger)
       \/ mode[v] = "require" /\ ~report[v].ran
       \/ report[v].ran /\ ~ok(report[v], Len(rows[v])) /\ todo[v] = <<>> /\ left[v] = <<>>

Positions(v) == 1..Len(rows[v])

\* The rows of the revisions to come, and those without a bundle.
Waiting(v) ==
  {i \in Positions(v) : \E n \in 1..Len(todo[v]) : todo[v][n] = rows[v][i].bundle_revision}

Missing(v) == {i \in Positions(v) : rows[v][i].bundle_revision \notin DOMAIN dist}

\* The command goes through the revisions: OPA is installed, and it fetched.
Going(v) == todo[v] # <<>> \/ pc[v] \in {"await", "replay"} \/ report[v].ran

Reproduced(v, r) ==
  IF disturbed[v] THEN \E file \in DOMAIN dist : ReproducedBy(r, file) ELSE Reproducible(r)

\* U are the rows left, R those reproduced, N those without an input and X
\* those that diverged.
Accounted(v, U, R, N, X) ==
  /\ U \union R \union N \union X \subseteq Positions(v)
  /\ left[v] = Selected(rows[v], U)
  /\ Cardinality(R) = report[v].reproduced
  /\ Cardinality(N) = report[v].unreplayable
  /\ Cardinality(X) = report[v].diverged
  /\ U \intersect (R \union N \union X) = {}
  /\ R \intersect (N \union X) = {}
  /\ N \intersect X = {}
  /\ Waiting(v) \intersect (U \union R \union N \union X) = {}
  /\ Going(v) => Positions(v) \subseteq U \union R \union N \union X \union Waiting(v) \union Missing(v)
  /\ \A i \in U : rows[v][i].bundle_revision = server[v].revision
  /\ \A i \in R : Reproduced(v, rows[v][i])
  /\ \A i \in N : rows[v][i].policy_input = NoInput
  /\ \A i \in X : disturbed[v] \/ ~Reproducible(rows[v][i])

CountInv(v) == \E U, R, N, X \in SUBSET Positions(v) : Accounted(v, U, R, N, X)

IInv ==
  /\ TypeInv
  /\ LedgerInv
  /\ \A v \in Verifiers : Phase(v) /\ CountInv(v)

-----------------------------------------------------------------------------
\* The rows of the ledger.

LEMMA AnyValues == AnyMode \in Modes /\ AnyPort \in Ports
  BY ReplayAssumption DEF AnyMode, AnyPort

\* The revisions of some rows: each once.
LEMMA RevisionsProperties ==
  ASSUME NEW s \in Seq(Rows)
  PROVE  /\ Revisions(s) \in Seq(Revs)
         /\ \A m, n \in 1..Len(Revisions(s)) : Revisions(s)[m] = Revisions(s)[n] => m = n
         /\ \A i \in 1..Len(s) : \E n \in 1..Len(Revisions(s)) : Revisions(s)[n] = s[i].bundle_revision
         /\ \A n \in 1..Len(Revisions(s)) : \E i \in 1..Len(s) : Revisions(s)[n] = s[i].bundle_revision
         /\ Revisions(s) # <<>> => s # <<>>
  <1> DEFINE L == Len(s)
             names == [n \in 1..L |-> s[n].bundle_revision]
             first == {n \in 1..L : \A m \in 1..(n - 1) : s[m].bundle_revision # s[n].bundle_revision}
             C == Cardinality(first)
             t == Revisions(s)
  <1>1. L \in Nat /\ \A n \in 1..L : s[n].bundle_revision \in Revs
    BY LenProperties, ElementOfSeq DEF Revs
  <1>2. t = Selected(names, first)
    BY DEF Revisions
  <1>3. names \in Seq(Revs) /\ Len(names) = L /\ \A n \in 1..L : names[n] = s[n].bundle_revision
    <2>1. names \in [1..L -> Revs]
      BY <1>1
    <2> HIDE DEF L
    <2>2. names \in Seq(Revs)
      BY <1>1, <2>1
    <2>3. QED BY <1>1, <2>1, <2>2, LenProperties
  <1>4. first \in SUBSET (1..Len(names))
    BY <1>3
  <1> HIDE DEF names, t
  <1>5. /\ t \in Seq(Revs) /\ Len(t) = C
        /\ \A j \in 1..C : Nth(first, j) \in first /\ t[j] = names[Nth(first, j)]
        /\ \A n \in first : \E j \in 1..C : t[j] = names[n]
        /\ t = <<>> <=> first = {}
    <2> HIDE DEF first
    <2>1. QED BY <1>2, <1>3, <1>4, SelectedProperties
  <1>6. \A j, k \in 1..C : Nth(first, j) = Nth(first, k) => j = k
    <2> HIDE DEF first
    <2>1. QED BY <1>1, <1>3, <1>4, NthProperties
  <1>7. ASSUME NEW j \in 1..C, NEW k \in 1..C, t[j] = t[k] PROVE j = k
    <2> DEFINE p == Nth(first, j)
               q == Nth(first, k)
    <2>1. p \in first /\ q \in first /\ names[p] = names[q]
      BY <1>5, <1>7
    <2> HIDE DEF p, q
    <2>2. p \in 1..L /\ q \in 1..L /\ s[p].bundle_revision = s[q].bundle_revision
      BY <1>3, <2>1
    <2>3. p \notin 1..(q - 1) /\ q \notin 1..(p - 1)
      BY <2>1, <2>2
    <2>4. p = q
      BY <1>1, <2>2, <2>3
    <2>5. QED BY <1>6, <2>4 DEF p, q
  <1>8. ASSUME NEW i \in 1..L PROVE \E n \in 1..C : t[n] = s[i].bundle_revision
    <2> DEFINE T == {m \in 1..L : s[m].bundle_revision = s[i].bundle_revision}
    <2>1. T # {} /\ T \in SUBSET Nat
      OBVIOUS
    <2>2. PICK n \in T : \A m \in T : n <= m
      <3> HIDE DEF T
      <3>1. QED BY <2>1, LeastMember
    <2>3. n \in 1..L /\ s[n].bundle_revision = s[i].bundle_revision
      OBVIOUS
    <2>4. ASSUME NEW m \in 1..(n - 1) PROVE s[m].bundle_revision # s[n].bundle_revision
      <3>1. m \in 1..L /\ ~(n <= m)
        BY <1>1, <2>3
      <3>2. QED BY <2>2, <2>3, <3>1
    <2>5. n \in first
      BY <2>3, <2>4
    <2>6. QED BY ZenonT(60), <1>3, <1>5, <2>3, <2>5
  <1>9. t # <<>> => s # <<>>
    <2>1. s = <<>> => L = 0
      BY EmptySeq
    <2>2. s = <<>> => first = {}
      BY <2>1
    <2>3. QED BY <1>5, <2>2
  <1>10. ASSUME NEW n \in 1..C PROVE \E i \in 1..L : t[n] = s[i].bundle_revision
    <2>1. Nth(first, n) \in first /\ t[n] = names[Nth(first, n)]
      BY <1>5
    <2>2. \A m \in first : m \in 1..L /\ names[m] = s[m].bundle_revision
      BY <1>3
    <2> HIDE DEF first
    <2>3. QED BY <2>1, <2>2
  <1>11. QED BY <1>5, <1>7, <1>8, <1>9, <1>10 DEF t

LEMMA HeadType ==
  ASSUME NEW l \in Seq(Entry)
  PROVE  /\ Len(l) \in Nat
         /\ head_hash(l) = StoredHashBefore(l, Len(l) + 1)
         /\ head_hash(l) \in Hash
         /\ \A i \in 1..Len(l) : l[i] \in Entry /\ l[i].row \in Rows
  <1>1. Len(l) \in Nat /\ \A i \in 1..Len(l) : l[i] \in Entry
    BY LenProperties, ElementOfSeq
  <1>2. \A e \in Entry : e.row \in Rows /\ e.entry_hash \in Hash
    BY DEF Entry
  <1>3. CASE l = <<>>
    <2>1. Len(l) = 0 /\ <<>> \in Seq(Rows)
      BY <1>3, EmptySeq
    <2>2. QED BY <1>1, <1>2, <1>3, <2>1 DEF head_hash, StoredHashBefore, GENESIS, Hash
  <1>4. CASE l # <<>>
    <2>1. Len(l) \in 1..Len(l) /\ Len(l) + 1 # 1 /\ (Len(l) + 1) - 1 = Len(l)
      <3>1. Len(l) \in Nat \ {0}
        BY <1>4, EmptySeq
      <3>2. QED BY <3>1
    <2>2. head_hash(l) = l[Len(l)].entry_hash
      BY <1>4 DEF head_hash
    <2>3. StoredHashBefore(l, Len(l) + 1) = l[Len(l)].entry_hash
      BY <2>1 DEF StoredHashBefore
    <2>4. QED BY <1>1, <1>2, <2>1, <2>2, <2>3
  <1>5. QED BY <1>3, <1>4

\* An entry that is linked as append() links it changes no verdict of verify().
LEMMA AppendKeepsVerdict ==
  ASSUME NEW l \in Seq(Entry), NEW r \in Rows
  PROVE  LET l2 == Append(l, NewEntry(l, head_hash(l), r))
         IN  l2 \in Seq(Entry) /\ (verify(l2) <=> verify(l))
  <1> DEFINE n == Len(l)
             h == head_hash(l)
             e == NewEntry(l, h, r)
             l2 == Append(l, e)
  <1>1. /\ n \in Nat /\ h \in Hash /\ h = StoredHashBefore(l, n + 1)
    BY HeadType
  <1> HIDE DEF h
  <1>2. e \in Entry /\ e.seq = n + 1 /\ e.prev_hash = h /\ e.entry_hash = Append(h, r) /\ e.row = r
    <2>1. Append(h, r) \in Hash
      BY <1>1, AppendProperties DEF Hash
    <2>2. QED BY <1>1, <2>1 DEF NewEntry, Entry, entry_hash
  <1> HIDE DEF e
  <1>3. /\ l2 \in Seq(Entry) /\ Len(l2) = n + 1 /\ l2[n + 1] = e
        /\ \A i \in 1..n : l2[i] = l[i]
    BY <1>2, AppendProperties
  <1> HIDE DEF l2, n
  <1>4. \A i \in 1..(n + 1) : StoredHashBefore(l2, i) = StoredHashBefore(l, i)
    <2>1. ASSUME NEW i \in 1..(n + 1) PROVE StoredHashBefore(l2, i) = StoredHashBefore(l, i)
      <3>1. i # 1 => i - 1 \in 1..n
        BY <1>1
      <3>2. QED BY <1>3, <3>1 DEF StoredHashBefore
    <2>2. QED BY <2>1
  <1>5. \A i \in 1..n : EntryOK(l2, i) <=> EntryOK(l, i)
    BY <1>1, <1>3, <1>4 DEF EntryOK
  <1>6. EntryOK(l2, n + 1)
    <2>1. StoredHashBefore(l2, n + 1) = h
      BY <1>1, <1>4
    <2>2. QED BY <1>2, <1>3, <2>1 DEF EntryOK, entry_hash
  <1>7. \A i : i \in 1..(n + 1) <=> i \in 1..n \/ i = n + 1
    BY <1>1
  <1>8. verify(l2) <=> verify(l)
    <2>1. verify(l2) <=> \A i \in 1..(n + 1) : EntryOK(l2, i)
      BY <1>3 DEF verify
    <2>2. verify(l) <=> \A i \in 1..n : EntryOK(l, i)
      BY DEF verify, n
    <2>3. QED BY <1>5, <1>6, <1>7, <2>1, <2>2, Zenon
  <1>9. QED BY <1>3, <1>8 DEF l2, e, h

-----------------------------------------------------------------------------
\* What a step leaves alone.

Same(u) ==
  /\ pc'[u] = pc[u] /\ mode'[u] = mode[u] /\ rows'[u] = rows[u] /\ todo'[u] = todo[u]
  /\ left'[u] = left[u] /\ server'[u] = server[u] /\ report'[u] = report[u]
  /\ disturbed'[u] = disturbed[u]

Others(v) == \A u \in Verifiers : u # v => Same(u)

LEMMA RowsOfCommand ==
  ASSUME TypeInv, NEW v \in Verifiers
  PROVE  /\ rows[v] \in Seq(Rows) /\ Len(rows[v]) \in Nat
         /\ \A i \in Positions(v) : rows[v][i] \in Rows
         /\ \A K \in SUBSET Positions(v) :
              /\ Selected(rows[v], K) = <<>> <=> K = {}
              /\ IsFiniteSet(K) /\ Cardinality(K) \in Nat
  <1>1. rows[v] \in Seq(Rows)
    BY DEF TypeInv
  <1>2. Len(rows[v]) \in Nat /\ \A i \in Positions(v) : rows[v][i] \in Rows
    BY <1>1, LenProperties, ElementOfSeq DEF Positions
  <1>3. ASSUME NEW K \in SUBSET Positions(v)
        PROVE  /\ Selected(rows[v], K) = <<>> <=> K = {}
               /\ IsFiniteSet(K) /\ Cardinality(K) \in Nat
    <2>1. K \in SUBSET (1..Len(rows[v]))
      BY DEF Positions
    <2>2. Selected(rows[v], K) = <<>> <=> K = {}
      BY <1>1, <2>1, SelectedProperties
    <2>3. IsFiniteSet(K) /\ Cardinality(K) \in Nat
      BY <1>2, <2>1, NthProperties, FS_CardinalityType
    <2>4. QED BY <2>2, <2>3
  <1>4. QED BY <1>1, <1>2, <1>3

\* What a disturbance leaves of a reproduction.
LEMMA StaysReproduced ==
  ASSUME NEW v \in Verifiers, disturbed[v] => disturbed'[v], dist' = dist, NEW r, Reproduced(v, r)
  PROVE  Reproduced(v, r)'
  <1>1. \A file : ReproducedBy(r, file)' <=> ReproducedBy(r, file)
    BY DEF ReproducedBy
  <1>2. CASE disturbed[v]
    BY <1>1, <1>2 DEF Reproduced
  <1>3. CASE ~disturbed[v]
    <2>1. ReproducedBy(r, r.bundle_revision) /\ r.bundle_revision \in DOMAIN dist
      BY <1>3 DEF Reproduced, Reproducible, ReproducedBy
    <2>2. ReproducedBy(r, r.bundle_revision)'
      BY <1>1, <2>1
    <2>3. QED BY <2>1, <2>2 DEF Reproduced, Reproducible
  <1>4. QED BY <1>2, <1>3

\* The counts survive whatever leaves the rows and the numbers alone: OPA's
\* doings, a new place in the program, a disturbance.
LEMMA CountFrame ==
  ASSUME TypeInv, NEW v \in Verifiers, CountInv(v),
         rows'[v] = rows[v], todo'[v] = todo[v], left'[v] = left[v],
         report'[v].reproduced = report[v].reproduced,
         report'[v].unreplayable = report[v].unreplayable,
         report'[v].diverged = report[v].diverged,
         left[v] = <<>> \/ server'[v].revision = server[v].revision,
         disturbed[v] => disturbed'[v],
         dist' = dist,
         Going(v)' => Going(v)
  PROVE  CountInv(v)'
  <1>1. PICK U \in SUBSET Positions(v), R \in SUBSET Positions(v),
             N \in SUBSET Positions(v), X \in SUBSET Positions(v) : Accounted(v, U, R, N, X)
    BY DEF CountInv
  <1>2. Positions(v)' = Positions(v) /\ Waiting(v)' = Waiting(v) /\ Missing(v)' = Missing(v)
    BY DEF Positions, Waiting, Missing
  <1>3. \A r : Reproduced(v, r) => Reproduced(v, r)'
    BY StaysReproduced
  <1>4. \A r : Reproducible(r)' <=> Reproducible(r)
    BY DEF Reproducible, ReproducedBy
  <1>5. left[v] = <<>> => U = {}
    BY <1>1, RowsOfCommand DEF Accounted
  <1>6. /\ left'[v] = Selected(rows'[v], U)
        /\ Cardinality(R) = report'[v].reproduced
        /\ Cardinality(N) = report'[v].unreplayable
        /\ Cardinality(X) = report'[v].diverged
    BY <1>1 DEF Accounted
  <1>7. /\ U \intersect (R \union N \union X) = {}
        /\ R \intersect (N \union X) = {}
        /\ N \intersect X = {}
        /\ Waiting(v)' \intersect (U \union R \union N \union X) = {}
        /\ Going(v)' => Positions(v)' \subseteq
                          U \union R \union N \union X \union Waiting(v)' \union Missing(v)'
    BY <1>1, <1>2 DEF Accounted
  <1>8. /\ \A i \in U : rows'[v][i].bundle_revision = server'[v].revision
        /\ \A i \in R : Reproduced(v, rows[v][i])'
        /\ \A i \in N : rows'[v][i].policy_input = NoInput
        /\ \A i \in X : disturbed'[v] \/ ~Reproducible(rows[v][i])'
    BY <1>1, <1>3, <1>4, <1>5 DEF Accounted
  <1>9. Accounted(v, U, R, N, X)'
    BY <1>1, <1>2, <1>6, <1>7, <1>8 DEF Accounted
  <1>10. QED BY <1>2, <1>9 DEF CountInv

LEMMA Frame ==
  ASSUME TypeInv, NEW v \in Verifiers, Phase(v), CountInv(v), Same(v), dist' = dist,
         verify(ledger)' => verify(ledger)
  PROVE  Phase(v)' /\ CountInv(v)'
  <1>1. Phase(v)'
    BY DEF Phase, Same
  <1>2. Going(v)' => Going(v)
    BY DEF Going, Same
  <1>3. CountInv(v)'
    BY <1>2, CountFrame DEF Same
  <1>4. QED BY <1>1, <1>3

\* A step of one command, or of its OPA.
LEMMA StepOf ==
  ASSUME IInv, NEW v \in Verifiers, TypeInv', Phase(v)', CountInv(v)', Others(v),
         UNCHANGED <<ledger, tampered, dist>>
  PROVE  IInv'
  <1>1. LedgerInv'
    BY DEF IInv, LedgerInv
  <1>2. ASSUME NEW u \in Verifiers PROVE Phase(u)' /\ CountInv(u)'
    <2>1. CASE u = v
      BY <2>1
    <2>2. CASE u # v
      BY <2>2, Frame DEF IInv, Others
    <2>3. QED BY <2>1, <2>2
  <1>3. QED BY <1>1, <1>2 DEF IInv

\* A step of something else.
LEMMA LedgerStep ==
  ASSUME IInv, UNCHANGED <<dist, pc, locals>>, ledger' \in Seq(Entry), tampered' \in BOOLEAN,
         LedgerInv', verify(ledger)' => verify(ledger)
  PROVE  IInv'
  <1>1. \A u \in Verifiers : Same(u)
    BY DEF Same, locals
  <1>2. TypeInv'
    BY DEF IInv, TypeInv, locals
  <1>3. QED BY <1>1, <1>2, Frame DEF IInv

LEMMA InvInit == Init => IInv
  <1> SUFFICES ASSUME Init PROVE IInv
    OBVIOUS
  <1>1. <<>> \in Seq(Entry) /\ <<>> \in Seq(Rows) /\ <<>> \in Seq(Revs) /\ Len(<<>>) = 0
    BY EmptySeq
  <1>2. TypeInv
    BY <1>1, AnyValues DEF Init, TypeInv, NoServer, NoReport
  <1>3. LedgerInv
    BY <1>1 DEF Init, LedgerInv, verify
  <1>4. ASSUME NEW v \in Verifiers PROVE Phase(v) /\ CountInv(v)
    <2>1. /\ pc[v] = "idle" /\ rows[v] = <<>> /\ todo[v] = <<>> /\ left[v] = <<>>
          /\ server[v] = NoServer /\ report[v] = NoReport
      BY DEF Init
    <2>2. Phase(v)
      BY <1>1, <2>1 DEF Phase, NoServer, NoReport
    <2>3. Accounted(v, {}, {}, {}, {})
      <3>1. Selected(rows[v], {}) = <<>>
        BY <1>2, RowsOfCommand
      <3>2. Waiting(v) = {} /\ Positions(v) = {}
        BY <1>1, <2>1 DEF Waiting, Positions
      <3>3. report[v].reproduced = 0 /\ report[v].unreplayable = 0 /\ report[v].diverged = 0
        BY <2>1 DEF NoReport
      <3>4. QED BY <2>1, <3>1, <3>2, <3>3, FS_EmptySet DEF Accounted
    <2>4. QED BY <2>2, <2>3 DEF CountInv
  <1>5. QED BY <1>2, <1>3, <1>4 DEF IInv

-----------------------------------------------------------------------------
\* The steps that count nothing.

LEMMA StartStep ==
  ASSUME IInv, NEW v \in Verifiers, NEW m \in Modes, Start(v, m)
  PROVE  IInv'
  <1>1. /\ UNCHANGED <<ledger, tampered, dist, rows, todo, left, server, report, disturbed>>
        /\ pc[v] = "idle" /\ mode'[v] = m
        /\ pc'[v] = IF ~verify(ledger) THEN "fail" ELSE IF m = "chain" THEN "pass" ELSE "fetch"
        /\ TypeInv /\ Phase(v) /\ CountInv(v)
    BY DEF Start, IInv, TypeInv
  <1>2. TypeInv'
    BY <1>1 DEF Start, TypeInv, Ended
  <1>3. rows[v] = <<>> /\ todo[v] = <<>> /\ left[v] = <<>> /\ report[v] = NoReport
    BY <1>1 DEF Phase
  <1>4. Phase(v)'
    BY <1>1, <1>3 DEF Phase, NoReport
  <1>5. Going(v)' => Going(v)
    BY <1>1, <1>3 DEF Going
  <1>6. CountInv(v)'
    BY <1>1, <1>5, CountFrame
  <1>7. Others(v)
    BY DEF IInv, TypeInv, Start, Others, Same
  <1>8. QED BY <1>1, <1>2, <1>4, <1>6, <1>7, StepOf

LEMMA ReadyStep ==
  ASSUME IInv, NEW v \in Verifiers, Ready(v)
  PROVE  IInv'
  <1>1. PICK w \in Listeners(server[v].port) :
          server[w].state = "active" /\ disturbed' = [disturbed EXCEPT ![v] = @ \/ w # v]
    BY DEF Ready
  <1>2. /\ UNCHANGED <<ledger, tampered, dist, mode, rows, todo, left, server, report>>
        /\ pc[v] = "await" /\ pc'[v] = "replay" /\ disturbed'[v] = (disturbed[v] \/ w # v)
        /\ TypeInv /\ Phase(v) /\ CountInv(v)
    BY <1>1 DEF Ready, IInv, TypeInv
  <1>3. TypeInv'
    BY <1>1, <1>2 DEF Ready, TypeInv
  <1>4. Phase(v)'
    BY <1>1, <1>2 DEF Phase
  <1>5. Going(v)' => Going(v)
    BY <1>2 DEF Going
  <1>6. CountInv(v)'
    BY <1>2, <1>5, CountFrame
  <1>7. Others(v)
    BY <1>1 DEF IInv, TypeInv, Ready, Others, Same
  <1>8. QED BY <1>2, <1>3, <1>4, <1>6, <1>7, StepOf

LEMMA GiveUpStep ==
  ASSUME IInv, NEW v \in Verifiers, GiveUp(v)
  PROVE  IInv'
  <1>1. /\ UNCHANGED <<ledger, tampered, dist, mode, rows, todo, left, server, report>>
        /\ pc[v] = "await" /\ pc'[v] = "error" /\ disturbed'[v] = TRUE
        /\ TypeInv /\ Phase(v) /\ CountInv(v)
    BY DEF GiveUp, IInv, TypeInv
  <1>2. TypeInv'
    BY <1>1 DEF GiveUp, TypeInv, Ended
  <1>3. Phase(v)'
    BY <1>1 DEF Phase
  <1>4. Going(v)' => Going(v)
    BY <1>1 DEF Going
  <1>5. CountInv(v)'
    BY <1>1, <1>4, CountFrame
  <1>6. Others(v)
    BY DEF IInv, TypeInv, GiveUp, Others, Same
  <1>7. QED BY <1>1, <1>2, <1>3, <1>5, <1>6, StepOf

LEMMA CloseStep ==
  ASSUME IInv, NEW v \in Verifiers, Close(v)
  PROVE  IInv'
  <1>1. /\ UNCHANGED <<ledger, tampered, dist, mode, rows, todo, left, disturbed>>
        /\ pc[v] = "replay" /\ left[v] = <<>> /\ pc'[v] = "next" /\ server'[v] = NoServer
        /\ report'[v] = [report[v] EXCEPT !.ran = TRUE]
        /\ TypeInv /\ Phase(v) /\ CountInv(v)
    BY DEF Close, IInv, TypeInv
  <1>2. TypeInv'
    BY ZenonT(60), <1>1, AnyValues DEF Close, TypeInv, NoServer
  <1>3. Phase(v)'
    BY <1>1 DEF Phase, NoServer
  <1>4. Going(v)' => Going(v)
    BY <1>1 DEF Going
  <1>5. /\ report'[v].reproduced = report[v].reproduced
        /\ report'[v].unreplayable = report[v].unreplayable
        /\ report'[v].diverged = report[v].diverged
    BY <1>1
  <1>6. CountInv(v)'
    BY <1>1, <1>4, <1>5, CountFrame
  <1>7. Others(v)
    BY DEF IInv, TypeInv, Close, Others, Same
  <1>8. QED BY <1>1, <1>2, <1>3, <1>6, <1>7, StepOf

LEMMA ConcludeStep ==
  ASSUME IInv, NEW v \in Verifiers, Conclude(v)
  PROVE  IInv'
  <1> DEFINE failed == \/ report[v].ran /\ ~ok(report[v], Len(rows[v]))
                       \/ mode[v] = "require" /\ ~report[v].ran
  <1>1. /\ UNCHANGED <<ledger, tampered, dist, mode, rows, todo, left, server, report, disturbed>>
        /\ pc[v] = "next" /\ todo[v] = <<>>
        /\ pc' = [pc EXCEPT ![v] = IF failed THEN "fail" ELSE "pass"]
        /\ TypeInv /\ Phase(v) /\ CountInv(v)
    BY DEF Conclude, IInv, locals
  <1>2. /\ pc \in [Verifiers -> {"idle", "fetch", "next", "await", "replay"} \union Ended]
        /\ pc'[v] = IF failed THEN "fail" ELSE "pass"
        /\ \A u \in Verifiers : u # v => pc'[u] = pc[u]
    <2> HIDE DEF failed
    <2>1. QED BY <1>1 DEF TypeInv
  <1>3. TypeInv'
    <2> HIDE DEF failed
    <2>1. QED BY <1>1 DEF TypeInv, Ended
  <1>4. left[v] = <<>>
    BY <1>1 DEF Phase
  <1>5. Phase(v)'
    BY <1>1, <1>2, <1>4 DEF Phase
  <1>6. Going(v)' => Going(v)
    BY <1>1, <1>2 DEF Going
  <1>7. CountInv(v)'
    BY <1>1, <1>6, CountFrame
  <1>8. Others(v)
    BY <1>1, <1>2 DEF Others, Same
  <1>9. QED BY <1>1, <1>3, <1>5, <1>7, <1>8, StepOf

\* OPA starts, loads its bundle, exits: the revision it was given stays.
LEMMA OpaStep ==
  ASSUME IInv, NEW v \in Verifiers, OpaBinds(v) \/ OpaActivates(v) \/ OpaExits(v)
  PROVE  IInv'
  <1>1. /\ UNCHANGED <<ledger, tampered, dist, pc, mode, rows, todo, left, report, disturbed>>
        /\ \E s \in {"listening", "active", "dead"} :
             /\ server' = [server EXCEPT ![v].state = s]
             /\ server[v].state # "none"
             /\ server[v].state = "active" => s = "dead"
             /\ server[v].state = "dead" => s = "dead"
        /\ TypeInv /\ Phase(v) /\ CountInv(v)
    <2>1. CASE OpaBinds(v)
      BY <2>1 DEF OpaBinds, IInv
    <2>2. CASE OpaActivates(v)
      BY <2>2 DEF OpaActivates, IInv
    <2>3. CASE OpaExits(v)
      BY <2>3 DEF OpaExits, IInv
    <2>4. QED BY <2>1, <2>2, <2>3
  <1>2. PICK s \in {"listening", "active", "dead"} :
          /\ server' = [server EXCEPT ![v].state = s]
          /\ server[v].state # "none"
          /\ server[v].state = "active" => s = "dead"
          /\ server[v].state = "dead" => s = "dead"
    BY <1>1
  <1>3. /\ server'[v].state = s /\ server'[v].revision = server[v].revision
        /\ \A u \in Verifiers : u # v => server'[u] = server[u]
    BY <1>1, <1>2 DEF TypeInv
  <1>4. TypeInv'
    BY ZenonT(60), <1>1, <1>2 DEF TypeInv
  <1>5. Phase(v)'
    BY <1>1, <1>2, <1>3 DEF Phase
  <1>6. Going(v)' => Going(v)
    BY <1>1 DEF Going
  <1>7. CountInv(v)'
    BY <1>1, <1>3, <1>6, CountFrame
  <1>8. Others(v)
    BY <1>1, <1>3 DEF Others, Same
  <1>9. QED BY <1>1, <1>4, <1>5, <1>7, <1>8, StepOf

-----------------------------------------------------------------------------
\* Rows are appended and edited.

LEMMA AppendStep ==
  ASSUME IInv, NEW r \in Rows, AppendRow(r)
  PROVE  IInv'
  <1>1. /\ UNCHANGED <<dist, pc, locals>> /\ tampered' = tampered
        /\ ledger' = Append(ledger, NewEntry(ledger, head_hash(ledger), r))
        /\ ledger \in Seq(Entry) /\ tampered \in BOOLEAN
    BY DEF AppendRow, IInv, TypeInv
  <1>2. ledger' \in Seq(Entry) /\ (verify(ledger') <=> verify(ledger))
    BY <1>1, AppendKeepsVerdict
  <1>3. verify(ledger)' <=> verify(ledger)
    BY <1>2
  <1>4. LedgerInv'
    BY <1>1, <1>3 DEF IInv, LedgerInv
  <1>5. QED BY <1>1, <1>2, <1>3, <1>4, LedgerStep

LEMMA TamperStep ==
  ASSUME IInv, NEW i \in 1..Len(ledger), NEW r \in Rows, Tamper(i, r)
  PROVE  IInv'
  <1>1. /\ UNCHANGED <<dist, pc, locals>> /\ ~tampered /\ tampered' = TRUE
        /\ ledger' = [ledger EXCEPT ![i].row = r]
        /\ ledger \in Seq(Entry)
    BY DEF Tamper, IInv, TypeInv
  <1>2. ledger' \in Seq(Entry)
    <2>1. Len(ledger) \in Nat /\ ledger \in [1..Len(ledger) -> Entry]
      BY <1>1, LenProperties
    <2>2. [ledger[i] EXCEPT !.row = r] \in Entry
      BY <2>1 DEF Entry
    <2>3. ledger' \in [1..Len(ledger) -> Entry]
      BY <1>1, <2>1, <2>2
    <2>4. QED BY <2>1, <2>3
  <1>3. verify(ledger)
    BY <1>1 DEF IInv, LedgerInv
  <1>4. LedgerInv' /\ tampered' \in BOOLEAN
    BY <1>1 DEF LedgerInv
  <1>5. QED BY <1>1, <1>2, <1>3, <1>4, LedgerStep

-----------------------------------------------------------------------------
\* The steps that count.

\* The next of the rows left has the number n.
Takes(v, n, U) ==
  /\ n \in U /\ n \in Positions(v)
  /\ Head(left[v]) = rows[v][n] /\ rows[v][n] \in Rows
  /\ Tail(left[v]) = Selected(rows[v], U \ {n})
  /\ rows[v][n].bundle_revision = server[v].revision

LEMMA TakeOne ==
  ASSUME TypeInv, NEW v \in Verifiers, left[v] # <<>>,
         NEW U, NEW R, NEW N, NEW X, Accounted(v, U, R, N, X)
  PROVE  \E n : Takes(v, n, U) /\ n \notin R \union N \union X
  <1>1. rows[v] \in Seq(Rows) /\ U \in SUBSET (1..Len(rows[v])) /\ U \in SUBSET Positions(v)
    BY RowsOfCommand DEF Positions, Accounted
  <1>2. left[v] = Selected(rows[v], U) /\ U # {}
    BY <1>1, RowsOfCommand DEF Accounted
  <1> DEFINE n == Nth(U, 1)
  <1>3. /\ n \in U /\ Head(Selected(rows[v], U)) = rows[v][n]
        /\ Tail(Selected(rows[v], U)) = Selected(rows[v], U \ {n})
    BY <1>1, <1>2, SelectedHeadTail
  <1> HIDE DEF n
  <1>4. n \in Positions(v) /\ rows[v][n] \in Rows
    BY <1>1, <1>3, RowsOfCommand
  <1>5. n \notin R \union N \union X /\ rows[v][n].bundle_revision = server[v].revision
    BY <1>3 DEF Accounted
  <1>6. Takes(v, n, U)
    BY <1>2, <1>3, <1>4, <1>5 DEF Takes
  <1>7. QED BY <1>5, <1>6

\* The command stays where it is, and leaves its rows alone.
Stays(v) ==
  /\ pc[v] = "replay" /\ pc'[v] = "replay"
  /\ rows'[v] = rows[v] /\ todo'[v] = todo[v]
  /\ server'[v].revision = server[v].revision
  /\ dist' = dist
  /\ disturbed[v] => disturbed'[v]

\* The row goes to one of the three counts, which is right about it.
Joins(v, n, R, N, X, R2, N2, X2) ==
  /\ Cardinality(R2) = report'[v].reproduced
  /\ Cardinality(N2) = report'[v].unreplayable
  /\ Cardinality(X2) = report'[v].diverged
  /\ R2 \union N2 \union X2 = R \union N \union X \union {n}
  /\ R2 \intersect (N2 \union X2) = {} /\ N2 \intersect X2 = {}
  /\ \A i \in R2 : i \in R \/ Reproduced(v, rows[v][i])'
  /\ \A i \in N2 : i \in N \/ rows[v][i].policy_input = NoInput
  /\ \A i \in X2 : i \in X \/ disturbed'[v] \/ ~Reproducible(rows[v][i])

LEMMA Counted ==
  ASSUME TypeInv, NEW v \in Verifiers, Stays(v),
         NEW U, NEW R, NEW N, NEW X, Accounted(v, U, R, N, X),
         NEW n \in U, left'[v] = Selected(rows[v], U \ {n}),
         NEW R2, NEW N2, NEW X2, Joins(v, n, R, N, X, R2, N2, X2)
  PROVE  CountInv(v)'
  <1> USE DEF Stays, Joins
  <1> DEFINE U2 == U \ {n}
  <1>1. U2 \union R2 \union N2 \union X2 \subseteq Positions(v)
    BY DEF Accounted
  <1>2. Positions(v)' = Positions(v) /\ Waiting(v)' = Waiting(v) /\ Missing(v)' = Missing(v)
    BY DEF Positions, Waiting, Missing
  <1>3. \A r : Reproduced(v, r) => Reproduced(v, r)'
    BY StaysReproduced
  <1>4. \A r : Reproducible(r)' <=> Reproducible(r)
    BY DEF Reproducible, ReproducedBy
  <1>5. left'[v] = Selected(rows'[v], U2)
    OBVIOUS
  <1>6. U2 \intersect (R2 \union N2 \union X2) = {}
    BY DEF Accounted
  <1>7. Waiting(v)' \intersect (U2 \union R2 \union N2 \union X2) = {}
    BY <1>2 DEF Accounted
  <1>8. Going(v)' => Positions(v)' \subseteq
          U2 \union R2 \union N2 \union X2 \union Waiting(v)' \union Missing(v)'
    BY <1>2 DEF Accounted, Going
  <1>9. \A i \in U2 : rows'[v][i].bundle_revision = server'[v].revision
    BY DEF Accounted
  <1>10. \A i \in R2 : Reproduced(v, rows[v][i])'
    BY <1>3 DEF Accounted
  <1>11. \A i \in N2 : rows'[v][i].policy_input = NoInput
    BY DEF Accounted
  <1>12. \A i \in X2 : disturbed'[v] \/ ~Reproducible(rows[v][i])'
    BY <1>4 DEF Accounted
  <1>13. Accounted(v, U2, R2, N2, X2)'
    <2> HIDE DEF U2
    <2>1. QED BY <1>1, <1>2, <1>5, <1>6, <1>7, <1>8, <1>9, <1>10, <1>11, <1>12 DEF Accounted
  <1>14. /\ U2 \in SUBSET Positions(v)' /\ R2 \in SUBSET Positions(v)'
         /\ N2 \in SUBSET Positions(v)' /\ X2 \in SUBSET Positions(v)'
    BY <1>1, <1>2
  <1>15. QED BY <1>13, <1>14 DEF CountInv

LEMMA OneMore ==
  ASSUME TypeInv, NEW v \in Verifiers, NEW K \in SUBSET Positions(v),
         NEW n \in Positions(v), n \notin K
  PROVE  Cardinality(K \union {n}) = Cardinality(K) + 1
  <1>1. IsFiniteSet(K)
    BY RowsOfCommand
  <1>2. QED BY <1>1, FS_AddElement

ReportType == [reproduced : Nat, unreplayable : Nat, diverged : Nat, ran : BOOLEAN]

\* One more of a kind.
More(p, reproduced, unreplayable, diverged) ==
  [reproduced |-> p.reproduced + reproduced, unreplayable |-> p.unreplayable + unreplayable,
   diverged |-> p.diverged + diverged, ran |-> p.ran]

LEMMA OneMoreOf ==
  ASSUME NEW p \in ReportType
  PROVE  /\ [p EXCEPT !.reproduced = @ + 1] = More(p, 1, 0, 0)
         /\ [p EXCEPT !.unreplayable = @ + 1] = More(p, 0, 1, 0)
         /\ [p EXCEPT !.diverged = @ + 1] = More(p, 0, 0, 1)
         /\ More(p, 1, 0, 0) \in ReportType
         /\ More(p, 0, 1, 0) \in ReportType
         /\ More(p, 0, 0, 1) \in ReportType
  BY DEF ReportType, More

LEMMA PassOverStep ==
  ASSUME IInv, NEW v \in Verifiers, PassOver(v)
  PROVE  IInv'
  <1>1. /\ UNCHANGED <<ledger, tampered, dist, pc, mode, rows, todo, server, disturbed>>
        /\ pc[v] = "replay" /\ left[v] # <<>> /\ Head(left[v]).policy_input = NoInput
        /\ left' = [left EXCEPT ![v] = Tail(@)]
        /\ TypeInv /\ Phase(v) /\ CountInv(v)
    BY DEF PassOver, IInv
  <1>2. /\ left'[v] = Tail(left[v]) /\ Tail(left[v]) \in Seq(Rows)
        /\ left' \in [Verifiers -> Seq(Rows)]
        /\ \A u \in Verifiers : u # v => left'[u] = left[u]
    BY <1>1, HeadTailProperties DEF TypeInv
  <1>3. /\ report[v] \in ReportType /\ report'[v] = More(report[v], 0, 1, 0)
        /\ report' \in [Verifiers -> ReportType]
        /\ \A u \in Verifiers : u # v => report'[u] = report[u]
    <2>1. report \in [Verifiers -> ReportType]
      BY <1>1 DEF TypeInv, ReportType
    <2>2. report' = [report EXCEPT ![v] = [report[v] EXCEPT !.unreplayable = @ + 1]]
      BY Zenon DEF PassOver
    <2>3. report[v] \in ReportType
      BY <2>1
    <2>4. report' = [report EXCEPT ![v] = More(report[v], 0, 1, 0)]
      BY <2>2, <2>3, OneMoreOf, Zenon
    <2>5. More(report[v], 0, 1, 0) \in ReportType
      BY <2>3, OneMoreOf
    <2>6. QED BY <2>1, <2>3, <2>4, <2>5
  <1>4. /\ report'[v].reproduced = report[v].reproduced
         /\ report'[v].unreplayable = report[v].unreplayable + 1
         /\ report'[v].diverged = report[v].diverged
         /\ report'[v].ran = report[v].ran
    BY <1>3 DEF More, ReportType
  <1>5. TypeInv'
    BY <1>1, <1>2, <1>3 DEF TypeInv, ReportType
  <1>6. Phase(v)'
    BY <1>1, <1>2, <1>4 DEF Phase
  <1>7. PICK U \in SUBSET Positions(v), R \in SUBSET Positions(v),
             N \in SUBSET Positions(v), X \in SUBSET Positions(v) : Accounted(v, U, R, N, X)
    BY <1>1 DEF CountInv
  <1>8. PICK n : Takes(v, n, U) /\ n \notin R \union N \union X
    BY <1>1, <1>7, TakeOne
  <1>9. n \in U /\ n \in Positions(v) /\ Head(left[v]) = rows[v][n]
    BY <1>8 DEF Takes
  <1> DEFINE N2 == N \union {n}
  <1>10. N2 \in SUBSET Positions(v) /\ Cardinality(N2) = Cardinality(N) + 1
    BY <1>1, <1>8, <1>9, OneMore
  <1>11. /\ Cardinality(R) = report'[v].reproduced
        /\ Cardinality(N2) = report'[v].unreplayable
        /\ Cardinality(X) = report'[v].diverged
    <2> HIDE DEF N2
    <2>1. QED BY <1>4, <1>7, <1>10 DEF Accounted
  <1>12. /\ R \union N2 \union X = R \union N \union X \union {n}
        /\ R \intersect (N2 \union X) = {} /\ N2 \intersect X = {}
    BY <1>7, <1>8 DEF Accounted
  <1>13. \A i \in N2 : i \in N \/ rows[v][i].policy_input = NoInput
    BY <1>1, <1>9
  <1>14. left'[v] = Selected(rows[v], U \ {n})
    BY <1>2, <1>8 DEF Takes
  <1>15. Joins(v, n, R, N, X, R, N2, X)
    <2> HIDE DEF N2
    <2>1. QED BY <1>11, <1>12, <1>13 DEF Joins
  <1>16. Stays(v)
    BY <1>1 DEF Stays
  <1>17. CountInv(v)'
    <2> HIDE DEF N2
    <2>1. QED BY <1>1, <1>7, <1>14, <1>15, <1>16, <1>9, Counted
  <1>18. Others(v)
    BY <1>1, <1>2, <1>3 DEF Others, Same
  <1>19. QED BY <1>1, <1>5, <1>6, <1>17, <1>18, StepOf

\* What an answer is worth: a bundle that gives the row's answer reproduces it.
LEMMA AnswerIsBundles ==
  ASSUME IInv, NEW v \in Verifiers, NEW w \in Listeners(server[v].port),
         NEW r \in Rows, r.policy_input # NoInput,
         pc[v] = "replay", r.bundle_revision = server[v].revision
  PROVE  /\ ~compare(r, deny_closed)
         /\ compare(r, Answer(w, r.policy_input)) => ReproducedBy(r, server[w].revision)
         /\ w = v /\ compare(r, Answer(w, r.policy_input)) => Reproducible(r)
         /\ w = v /\ ~compare(r, Answer(w, r.policy_input)) => disturbed[v] \/ ~Reproducible(r)
  <1>1. w \in Verifiers /\ server[w].state \in {"listening", "active"}
    BY DEF Listeners
  <1>2. server[w].revision \in DOMAIN dist
    BY <1>1 DEF IInv, Phase
  <1>3. server[v].revision \in DOMAIN dist
    BY DEF IInv, Phase
  <1>4. dist \in Dists
    BY DEF IInv, TypeInv
  <1>5. ~compare(r, deny_closed)
    BY <1>3, <1>4, ReplayAssumption DEF compare, deny_closed
  <1>6. compare(r, Answer(w, r.policy_input)) <=> ReproducedBy(r, server[w].revision) /\ server[w].state = "active"
    <2>1. CASE server[w].state = "active"
      BY <1>2, <2>1 DEF compare, Answer, ReproducedBy
    <2>2. CASE server[w].state # "active"
      BY <1>5, <2>2 DEF Answer
    <2>3. QED BY <2>1, <2>2
  <1>7. w = v /\ ~disturbed[v] => server[w].state = "active"
    <2>1. Phase(v)
      BY DEF IInv
    <2>2. QED BY <1>1, <2>1 DEF Phase
  <1>8. w = v => (Reproducible(r) <=> ReproducedBy(r, server[w].revision))
    BY DEF Reproducible
  <1>9. QED BY <1>5, <1>6, <1>7, <1>8

\* One more row reproduced, and one more that was not.
Reproduces(v, n) ==
  /\ report' = [report EXCEPT ![v] = More(report[v], 1, 0, 0)]
  /\ Reproduced(v, rows[v][n])'

Diverges(v, n) ==
  /\ report' = [report EXCEPT ![v] = More(report[v], 0, 0, 1)]
  /\ disturbed'[v] \/ ~Reproducible(rows[v][n])

LEMMA CountedIsMore ==
  ASSUME TypeInv, NEW v \in Verifiers
  PROVE  /\ counted(v, TRUE) = [report EXCEPT ![v] = More(report[v], 1, 0, 0)]
         /\ counted(v, FALSE) = [report EXCEPT ![v] = More(report[v], 0, 0, 1)]
  <1>1. report[v] \in ReportType
    BY DEF TypeInv, ReportType
  <1>2. /\ [report[v] EXCEPT !.reproduced = @ + 1] = More(report[v], 1, 0, 0)
        /\ [report[v] EXCEPT !.diverged = @ + 1] = More(report[v], 0, 0, 1)
    BY <1>1, OneMoreOf
  <1>3. counted(v, TRUE) = [report EXCEPT ![v] = [report[v] EXCEPT !.reproduced = @ + 1]]
    BY Zenon DEF counted
  <1>4. counted(v, FALSE) = [report EXCEPT ![v] = [report[v] EXCEPT !.diverged = @ + 1]]
    BY Zenon DEF counted
  <1>5. QED BY <1>2, <1>3, <1>4, Zenon

LEMMA EvaluateCounts ==
  ASSUME IInv, NEW v \in Verifiers, Evaluate(v),
         NEW n, rows[v][n] = Head(left[v]), rows[v][n] \in Rows,
         rows[v][n].bundle_revision = server[v].revision
  PROVE  /\ \E d \in BOOLEAN : disturbed' = [disturbed EXCEPT ![v] = d]
         /\ disturbed[v] => disturbed'[v]
         /\ Reproduces(v, n) \/ Diverges(v, n)
  <1> DEFINE r == rows[v][n]
             Agrees(answer) == compare(r, answer)
  <1>1. /\ dist' = dist /\ rows' = rows /\ server' = server
        /\ pc[v] = "replay" /\ r.policy_input # NoInput
        /\ TypeInv /\ Phase(v)
    BY DEF Evaluate, IInv
  <1>2. \/ \E w \in Listeners(server[v].port) :
             /\ report' = counted(v, Agrees(Answer(w, r.policy_input)))
             /\ disturbed' = [disturbed EXCEPT ![v] = @ \/ w # v]
        \/ /\ report' = counted(v, Agrees(deny_closed))
           /\ disturbed' = [disturbed EXCEPT ![v] = TRUE]
    BY Zenon DEF Evaluate
  <1>3. disturbed \in [Verifiers -> BOOLEAN]
    BY <1>1 DEF TypeInv
  <1>4. \A x, file : ReproducedBy(x, file)' <=> ReproducedBy(x, file)
    BY <1>1 DEF ReproducedBy
  <1>5. rows'[v][n] = r
    BY <1>1
  <1>6. \A answer : Agrees(answer) \in BOOLEAN
    BY DEF compare
  <1> HIDE DEF r, Agrees
  <1>7. ASSUME NEW w \in Listeners(server[v].port),
               report' = counted(v, Agrees(Answer(w, r.policy_input))),
               disturbed' = [disturbed EXCEPT ![v] = @ \/ w # v]
        PROVE  /\ \E d \in BOOLEAN : disturbed' = [disturbed EXCEPT ![v] = d]
               /\ disturbed[v] => disturbed'[v]
               /\ Reproduces(v, n) \/ Diverges(v, n)
    <2>1. disturbed'[v] = (disturbed[v] \/ w # v)
      BY <1>3, <1>7
    <2>2. \E d \in BOOLEAN : disturbed' = [disturbed EXCEPT ![v] = d]
      BY <1>3, <1>7
    <2>3. /\ Agrees(Answer(w, r.policy_input)) => ReproducedBy(r, server[w].revision)
          /\ w = v /\ Agrees(Answer(w, r.policy_input)) => Reproducible(r)
          /\ w = v /\ ~Agrees(Answer(w, r.policy_input)) => disturbed[v] \/ ~Reproducible(r)
      BY <1>1, AnswerIsBundles DEF r, Agrees
    <2>4. CASE Agrees(Answer(w, r.policy_input))
      <3>1. PICK f \in DOMAIN dist : /\ dist[f].revision = r.bundle_revision
                                     /\ dist[f].says[r.policy_input] = r.verdict
        BY <2>3, <2>4 DEF ReproducedBy
      <3>2. ~disturbed'[v] => Reproducible(rows[v][n])'
        <4>1. ASSUME ~disturbed'[v] PROVE ReproducedBy(r, r.bundle_revision)
          BY <2>1, <2>3, <2>4, <4>1 DEF Reproducible
        <4>2. ASSUME ~disturbed'[v]
              PROVE  /\ r.policy_input # NoInput /\ r.bundle_revision \in DOMAIN dist
                     /\ dist[r.bundle_revision].revision = r.bundle_revision
                     /\ dist[r.bundle_revision].says[r.policy_input] = r.verdict
          BY <4>1, <4>2 DEF ReproducedBy
        <4>3. QED BY <1>1, <1>5, <4>2 DEF Reproducible, ReproducedBy
      <3>3. Reproduced(v, rows[v][n])'
        <4>1. \E file \in DOMAIN dist' : ReproducedBy(rows[v][n], file)'
          BY <1>1, <1>5, <3>1 DEF ReproducedBy
        <4>2. QED BY <3>2, <4>1 DEF Reproduced
      <3>4. report' = [report EXCEPT ![v] = More(report[v], 1, 0, 0)]
        <4>1. report' = counted(v, TRUE)
          BY <1>6, <1>7, <2>4
        <4>2. QED BY <1>1, <4>1, CountedIsMore, Zenon
      <3>5. Reproduces(v, n)
        BY <3>3, <3>4 DEF Reproduces
      <3>6. QED BY <2>1, <2>2, <3>5
    <2>5. CASE ~Agrees(Answer(w, r.policy_input))
      <3>1. disturbed'[v] \/ ~Reproducible(rows[v][n])
        BY <2>1, <2>3, <2>5 DEF r
      <3>2. report' = [report EXCEPT ![v] = More(report[v], 0, 0, 1)]
        <4>1. report' = counted(v, FALSE)
          BY <1>6, <1>7, <2>5
        <4>2. QED BY <1>1, <4>1, CountedIsMore, Zenon
      <3>3. QED BY <2>1, <2>2, <3>1, <3>2 DEF Diverges
    <2>6. QED BY <2>4, <2>5
  <1>8. ASSUME report' = counted(v, Agrees(deny_closed)),
               disturbed' = [disturbed EXCEPT ![v] = TRUE]
        PROVE  /\ \E d \in BOOLEAN : disturbed' = [disturbed EXCEPT ![v] = d]
               /\ disturbed'[v]
               /\ Diverges(v, n)
    <2>1. ~Agrees(deny_closed)
      <3>1. server[v].revision \in DOMAIN dist /\ dist \in Dists
        BY <1>1 DEF Phase, TypeInv
      <3>2. QED BY <3>1, ReplayAssumption DEF compare, deny_closed, Agrees, r
    <2>2. report' = counted(v, FALSE)
      BY <1>6, <1>8, <2>1
    <2>3. report' = [report EXCEPT ![v] = More(report[v], 0, 0, 1)]
      BY <1>1, <2>2, CountedIsMore, Zenon
    <2>4. disturbed'[v]
      BY <1>3, <1>8
    <2>5. QED BY <1>8, <2>3, <2>4 DEF Diverges
  <1>9. QED BY <1>2, <1>7, <1>8

LEMMA EvaluateStep ==
  ASSUME IInv, NEW v \in Verifiers, Evaluate(v)
  PROVE  IInv'
  <1>1. /\ UNCHANGED <<ledger, tampered, dist, pc, mode, rows, todo, server>>
        /\ pc[v] = "replay" /\ left[v] # <<>>
        /\ left' = [left EXCEPT ![v] = Tail(@)]
        /\ TypeInv /\ Phase(v) /\ CountInv(v)
    BY DEF Evaluate, IInv
  <1>2. /\ left'[v] = Tail(left[v]) /\ Tail(left[v]) \in Seq(Rows)
        /\ left' \in [Verifiers -> Seq(Rows)]
        /\ \A u \in Verifiers : u # v => left'[u] = left[u]
    BY <1>1, HeadTailProperties DEF TypeInv
  <1>3. PICK U \in SUBSET Positions(v), R \in SUBSET Positions(v),
             N \in SUBSET Positions(v), X \in SUBSET Positions(v) : Accounted(v, U, R, N, X)
    BY <1>1 DEF CountInv
  <1>4. PICK n : Takes(v, n, U) /\ n \notin R \union N \union X
    BY <1>1, <1>3, TakeOne
  <1>5. /\ n \in U /\ n \in Positions(v) /\ left'[v] = Selected(rows[v], U \ {n})
        /\ rows[v][n] = Head(left[v]) /\ rows[v][n] \in Rows
        /\ rows[v][n].bundle_revision = server[v].revision
    BY <1>2, <1>4 DEF Takes
  <1>6. /\ \E d \in BOOLEAN : disturbed' = [disturbed EXCEPT ![v] = d]
        /\ disturbed[v] => disturbed'[v]
        /\ Reproduces(v, n) \/ Diverges(v, n)
    BY <1>5, EvaluateCounts
  <1>7. /\ disturbed' \in [Verifiers -> BOOLEAN]
        /\ \A u \in Verifiers : u # v => disturbed'[u] = disturbed[u]
    BY <1>1, <1>6 DEF TypeInv
  <1>8. report \in [Verifiers -> ReportType]
    BY <1>1 DEF TypeInv, ReportType
  <1>9. /\ More(report[v], 1, 0, 0) \in ReportType
        /\ More(report[v], 0, 0, 1) \in ReportType
    BY <1>8, OneMoreOf
  <1>10. /\ report' \in [Verifiers -> ReportType]
         /\ \A u \in Verifiers : u # v => report'[u] = report[u]
         /\ report'[v].ran = report[v].ran
         /\ report'[v].unreplayable = report[v].unreplayable
    <2>1. CASE Reproduces(v, n)
      <3>1. report' = [report EXCEPT ![v] = More(report[v], 1, 0, 0)]
        BY <2>1 DEF Reproduces
      <3>2. report'[v] = More(report[v], 1, 0, 0)
        BY <1>8, <3>1
      <3>3. report'[v].ran = report[v].ran /\ report'[v].unreplayable = report[v].unreplayable
        BY <1>8, <3>2 DEF More, ReportType
      <3>4. QED BY <1>8, <1>9, <3>1, <3>3
    <2>2. CASE Diverges(v, n)
      <3>1. report' = [report EXCEPT ![v] = More(report[v], 0, 0, 1)]
        BY <2>2 DEF Diverges
      <3>2. report'[v] = More(report[v], 0, 0, 1)
        BY <1>8, <3>1
      <3>3. report'[v].ran = report[v].ran /\ report'[v].unreplayable = report[v].unreplayable
        BY <1>8, <3>2 DEF More, ReportType
      <3>4. QED BY <1>8, <1>9, <3>1, <3>3
    <2>3. QED BY <1>6, <2>1, <2>2
  <1>11. TypeInv'
    BY <1>1, <1>2, <1>7, <1>10 DEF TypeInv, ReportType
  <1>12. Phase(v)'
    BY <1>1, <1>2, <1>6, <1>10 DEF Phase
  <1>13. Stays(v)
    BY <1>1, <1>6 DEF Stays
  <1>14. ASSUME Reproduces(v, n) PROVE CountInv(v)'
    <2> DEFINE R2 == R \union {n}
    <2>1. Cardinality(R2) = Cardinality(R) + 1
      BY <1>1, <1>4, <1>5, OneMore
    <2>2. report'[v] = More(report[v], 1, 0, 0)
      BY <1>8, <1>14 DEF Reproduces
    <2>3. /\ report'[v].reproduced = report[v].reproduced + 1
          /\ report'[v].diverged = report[v].diverged
      BY <1>8, <2>2 DEF More, ReportType
    <2>4. /\ Cardinality(R2) = report'[v].reproduced
          /\ Cardinality(N) = report'[v].unreplayable
          /\ Cardinality(X) = report'[v].diverged
      <3> HIDE DEF R2
      <3>1. QED BY <1>3, <1>10, <2>1, <2>3 DEF Accounted
    <2>5. /\ R2 \union N \union X = R \union N \union X \union {n}
          /\ R2 \intersect (N \union X) = {} /\ N \intersect X = {}
      BY <1>3, <1>4 DEF Accounted
    <2>6. \A i \in R2 : i \in R \/ Reproduced(v, rows[v][i])'
      BY <1>14 DEF Reproduces
    <2> HIDE DEF R2
    <2>7. Joins(v, n, R, N, X, R2, N, X)
      BY <2>4, <2>5, <2>6 DEF Joins
    <2>8. TypeInv /\ n \in U /\ left'[v] = Selected(rows[v], U \ {n})
      BY <1>1, <1>5
    <2>9. QED BY <1>3, <1>13, <2>7, <2>8, Counted
  <1>15. ASSUME Diverges(v, n) PROVE CountInv(v)'
    <2> DEFINE X2 == X \union {n}
    <2>1. Cardinality(X2) = Cardinality(X) + 1
      BY <1>1, <1>4, <1>5, OneMore
    <2>2. report'[v] = More(report[v], 0, 0, 1)
      BY <1>8, <1>15 DEF Diverges
    <2>3. /\ report'[v].reproduced = report[v].reproduced
          /\ report'[v].diverged = report[v].diverged + 1
      BY <1>8, <2>2 DEF More, ReportType
    <2>4. /\ Cardinality(R) = report'[v].reproduced
          /\ Cardinality(N) = report'[v].unreplayable
          /\ Cardinality(X2) = report'[v].diverged
      <3> HIDE DEF X2
      <3>1. QED BY <1>3, <1>10, <2>1, <2>3 DEF Accounted
    <2>5. /\ R \union N \union X2 = R \union N \union X \union {n}
          /\ R \intersect (N \union X2) = {} /\ N \intersect X2 = {}
      BY <1>3, <1>4 DEF Accounted
    <2>6. \A i \in X2 : i \in X \/ disturbed'[v] \/ ~Reproducible(rows[v][i])
      BY <1>15 DEF Diverges
    <2> HIDE DEF X2
    <2>7. Joins(v, n, R, N, X, R, N, X2)
      BY <2>4, <2>5, <2>6 DEF Joins
    <2>8. TypeInv /\ n \in U /\ left'[v] = Selected(rows[v], U \ {n})
      BY <1>1, <1>5
    <2>9. QED BY <1>3, <1>13, <2>7, <2>8, Counted
  <1>16. CountInv(v)'
    BY <1>6, <1>14, <1>15
  <1>17. Others(v)
    BY <1>1, <1>2, <1>7, <1>10 DEF Others, Same
  <1>18. QED BY <1>1, <1>11, <1>12, <1>16, <1>17, StepOf

\* The revisions of the rows that are to be gone through, all of them at first.
LEMMA FetchStep ==
  ASSUME IInv, NEW v \in Verifiers, Fetch(v)
  PROVE  IInv'
  <1> DEFINE table == [i \in 1..Len(ledger) |-> ledger[i].row]
             decisive == {i \in 1..Len(ledger) : ledger[i].row.entry_type = "DECISION"}
  <1>1. PICK found \in BOOLEAN :
          todo' = [todo EXCEPT ![v] = IF found THEN Revisions(decisions) ELSE <<>>]
    BY DEF Fetch
  <1>2. /\ UNCHANGED <<ledger, tampered, dist, mode, left, server, report, disturbed>>
        /\ pc[v] = "fetch" /\ pc' = [pc EXCEPT ![v] = "next"]
        /\ rows' = [rows EXCEPT ![v] = decisions]
        /\ TypeInv /\ Phase(v)
    BY DEF Fetch, IInv
  <1>3. decisions \in Seq(Rows)
    <2>1. Len(ledger) \in Nat /\ \A i \in 1..Len(ledger) : ledger[i].row \in Rows
      BY <1>2, HeadType DEF TypeInv
    <2>2. table \in Seq(Rows) /\ Len(table) = Len(ledger)
      BY <2>1
    <2>3. decisive \in SUBSET (1..Len(table))
      BY <2>2
    <2> HIDE DEF table, decisive
    <2>4. Selected(table, decisive) \in Seq(Rows)
      BY <2>2, <2>3, SelectedProperties
    <2>5. QED BY <2>4 DEF decisions, table, decisive
  <1> HIDE DEF decisive, table
  <1>4. /\ Revisions(decisions) \in Seq(Revs)
        /\ \A m, n \in 1..Len(Revisions(decisions)) :
             Revisions(decisions)[m] = Revisions(decisions)[n] => m = n
        /\ \A i \in 1..Len(decisions) : \E n \in 1..Len(Revisions(decisions)) :
             Revisions(decisions)[n] = decisions[i].bundle_revision
        /\ Revisions(decisions) # <<>> => decisions # <<>>
    BY <1>3, RevisionsProperties
  <1>5. /\ rows'[v] = decisions /\ pc'[v] = "next"
        /\ todo'[v] = IF found THEN Revisions(decisions) ELSE <<>>
    BY <1>1, <1>2 DEF TypeInv
  <1>6. /\ rows[v] = <<>> /\ todo[v] = <<>> /\ left[v] = <<>> /\ report[v] = NoReport
    BY <1>2 DEF Phase
  <1>7. todo'[v] \in Seq(Revs)
    BY <1>4, <1>5, EmptySeq
  <1>8. TypeInv'
    <2>1. todo' \in [Verifiers -> Seq(Revs)]
      BY <1>1, <1>2, <1>4, EmptySeq DEF TypeInv
    <2>2. rows' \in [Verifiers -> Seq(Rows)]
      BY <1>2, <1>3 DEF TypeInv
    <2>3. QED BY <1>2, <2>1, <2>2 DEF TypeInv
  <1>9. /\ todo'[v] # <<>> => rows'[v] # <<>> /\ todo'[v] = Revisions(decisions)
        /\ \A m, n \in 1..Len(todo'[v]) : todo'[v][m] = todo'[v][n] => m = n
    <2>1. Len(<<>>) = 0
      BY EmptySeq
    <2>2. QED BY <1>4, <1>5, <2>1
  <1>10. Phase(v)'
    BY <1>2, <1>5, <1>6, <1>9 DEF Phase, NoReport
  <1>11. Accounted(v, {}, {}, {}, {})'
    <2>1. TypeInv'
      BY <1>8
    <2>2. Selected(rows'[v], {}) = <<>>
      <3>1. rows'[v] \in Seq(Rows) /\ {} \in SUBSET (1..Len(rows'[v]))
        BY <1>3, <1>5
      <3>2. QED BY <3>1, SelectedProperties
    <2>3. /\ left'[v] = <<>>
          /\ report'[v].reproduced = 0 /\ report'[v].unreplayable = 0 /\ report'[v].diverged = 0
          /\ ~report'[v].ran
      BY <1>2, <1>6 DEF NoReport
    <2>4. Going(v)' => todo'[v] = Revisions(decisions)
      BY <1>5, <1>9, <2>3 DEF Going
    <2>5. todo'[v] = Revisions(decisions) => Positions(v)' \subseteq Waiting(v)'
      BY <1>4, <1>5 DEF Positions, Waiting
    <2>6. Cardinality({}) = 0
      BY FS_EmptySet
    <2>7. QED BY <2>2, <2>3, <2>4, <2>5, <2>6 DEF Accounted
  <1>12. CountInv(v)'
    BY <1>11 DEF CountInv
  <1>13. Others(v)
    BY <1>1, <1>2 DEF TypeInv, Others, Same
  <1>14. QED BY <1>2, <1>8, <1>10, <1>12, <1>13, StepOf

\* What is left of the revisions once the first is taken.
LEMMA NextRevision ==
  ASSUME TypeInv, NEW v \in Verifiers, Phase(v), todo[v] # <<>>
  PROVE  /\ Tail(todo[v]) \in Seq(Revs) /\ Head(todo[v]) \in Revs
         /\ Len(todo[v]) \in Nat \ {0} /\ Head(todo[v]) = todo[v][1]
         /\ Len(Tail(todo[v])) = Len(todo[v]) - 1
         /\ \A n \in 1..Len(Tail(todo[v])) :
              n + 1 \in 1..Len(todo[v]) /\ Tail(todo[v])[n] = todo[v][n + 1]
         /\ \A n \in 1..Len(Tail(todo[v])) : Tail(todo[v])[n] # Head(todo[v])
         /\ \A m, n \in 1..Len(Tail(todo[v])) : Tail(todo[v])[m] = Tail(todo[v])[n] => m = n
         /\ \A n \in 1..Len(todo[v]) :
              \/ todo[v][n] = Head(todo[v])
              \/ \E m \in 1..Len(Tail(todo[v])) : Tail(todo[v])[m] = todo[v][n]
  <1> DEFINE t == todo[v]
             s == Tail(t)
  <1>1. t \in Seq(Revs) /\ t # <<>>
    BY DEF TypeInv
  <1>2. \A m, n \in 1..Len(t) : t[m] = t[n] => m = n
    BY DEF Phase
  <1> HIDE DEF t
  <1>3. /\ s \in Seq(Revs) /\ Head(t) \in Revs /\ Head(t) = t[1]
        /\ Len(s) = Len(t) - 1 /\ Len(t) \in Nat \ {0}
        /\ \A n \in 1..Len(s) : s[n] = t[n + 1]
    BY <1>1, HeadTailProperties, LenProperties, EmptySeq
  <1> HIDE DEF s
  <1>4. \A n \in 1..Len(s) : n \in Nat /\ n + 1 \in 1..Len(t) /\ n + 1 # 1
    BY <1>3
  <1>5. 1 \in 1..Len(t)
    BY <1>3
  <1>6. \A n \in 1..Len(s) : s[n] # Head(t)
    BY <1>2, <1>3, <1>4, <1>5
  <1>7. ASSUME NEW m \in 1..Len(s), NEW n \in 1..Len(s), s[m] = s[n] PROVE m = n
    <2>1. m + 1 = n + 1
      BY <1>2, <1>3, <1>4, <1>7
    <2>2. QED BY <1>4, <2>1
  <1>8. ASSUME NEW n \in 1..Len(t), n # 1 PROVE \E m \in 1..Len(s) : s[m] = t[n]
    <2>1. n - 1 \in 1..Len(s) /\ (n - 1) + 1 = n
      BY <1>3, <1>8
    <2>2. QED BY <1>3, <2>1
  <1>9. QED BY <1>3, <1>4, <1>6, <1>7, <1>8 DEF s, t

LEMMA SkipStep ==
  ASSUME IInv, NEW v \in Verifiers, Skip(v)
  PROVE  IInv'
  <1>1. /\ UNCHANGED <<ledger, tampered, dist, pc, mode, rows, left, server, report, disturbed>>
        /\ pc[v] = "next" /\ todo[v] # <<>> /\ Head(todo[v]) \notin DOMAIN dist
        /\ todo' = [todo EXCEPT ![v] = Tail(@)]
        /\ TypeInv /\ Phase(v) /\ CountInv(v)
    BY DEF Skip, IInv
  <1> DEFINE t == todo[v]
             s == Tail(todo[v])
  <1>2. /\ s \in Seq(Revs)
        /\ \A n \in 1..Len(s) : n + 1 \in 1..Len(t) /\ s[n] = t[n + 1]
        /\ \A m, n \in 1..Len(s) : s[m] = s[n] => m = n
        /\ \A n \in 1..Len(t) : t[n] = Head(t) \/ \E m \in 1..Len(s) : s[m] = t[n]
    BY <1>1, NextRevision
  <1>3. todo'[v] = s /\ \A u \in Verifiers : u # v => todo'[u] = todo[u]
    BY <1>1 DEF TypeInv
  <1> HIDE DEF s
  <1>4. TypeInv'
    BY <1>1, <1>2 DEF TypeInv, s
  <1>5. Phase(v)'
    BY <1>1, <1>2, <1>3 DEF Phase
  <1>6. PICK U \in SUBSET Positions(v), R \in SUBSET Positions(v),
             N \in SUBSET Positions(v), X \in SUBSET Positions(v) : Accounted(v, U, R, N, X)
    BY <1>1 DEF CountInv
  <1>7. Positions(v)' = Positions(v) /\ Missing(v)' = Missing(v)
    BY <1>1 DEF Positions, Missing
  <1>8. Waiting(v)' \subseteq Waiting(v)
    BY <1>1, <1>2, <1>3 DEF Waiting, Positions
  <1>9. Waiting(v) \subseteq Waiting(v)' \union Missing(v)'
    <2>1. ASSUME NEW i \in Waiting(v), i \notin Missing(v) PROVE i \in Waiting(v)'
      <3>1. PICK n \in 1..Len(t) : t[n] = rows[v][i].bundle_revision
        BY DEF Waiting
      <3>2. i \in Positions(v) /\ rows[v][i].bundle_revision \in DOMAIN dist
        BY <2>1 DEF Waiting, Missing
      <3>3. PICK m \in 1..Len(s) : s[m] = rows[v][i].bundle_revision
        BY <1>1, <1>2, <3>1, <3>2
      <3>4. QED BY <1>1, <1>3, <3>2, <3>3 DEF Waiting, Positions
    <2>2. QED BY <1>7, <2>1
  <1>10. /\ \A i \in R : Reproduced(v, rows[v][i])'
         /\ \A i \in X : disturbed'[v] \/ ~Reproducible(rows[v][i])'
    BY <1>1, <1>6 DEF Accounted, Reproduced, Reproducible, ReproducedBy
  <1>11. Going(v)
    BY <1>1 DEF Going
  <1>12. /\ Waiting(v)' \intersect (U \union R \union N \union X) = {}
         /\ Positions(v)' \subseteq U \union R \union N \union X \union Waiting(v)' \union Missing(v)'
    <2>1. /\ Waiting(v) \intersect (U \union R \union N \union X) = {}
          /\ Positions(v) \subseteq U \union R \union N \union X \union Waiting(v) \union Missing(v)
      BY <1>6, <1>11 DEF Accounted
    <2>2. QED BY <1>7, <1>8, <1>9, <2>1
  <1>13. Accounted(v, U, R, N, X)'
    BY <1>1, <1>6, <1>7, <1>10, <1>12 DEF Accounted
  <1>14. CountInv(v)'
    BY <1>7, <1>13 DEF CountInv
  <1>15. Others(v)
    BY <1>1, <1>3 DEF Others, Same
  <1>16. QED BY <1>1, <1>4, <1>5, <1>14, <1>15, StepOf

LEMMA LaunchStep ==
  ASSUME IInv, NEW v \in Verifiers, Launch(v)
  PROVE  IInv'
  <1> DEFINE t == todo[v]
             s == Tail(todo[v])
             rev == Head(todo[v])
             group == {i \in Positions(v) : rows[v][i].bundle_revision = rev}
  <1>1. PICK p \in Ports :
          server' = [server EXCEPT ![v] = [state |-> "starting", port |-> p, revision |-> rev]]
    BY DEF Launch
  <1>2. /\ UNCHANGED <<ledger, tampered, dist, mode, rows, report, disturbed>>
        /\ pc[v] = "next" /\ t # <<>> /\ rev \in DOMAIN dist
        /\ left' = [left EXCEPT ![v] = Selected(rows[v], group)]
        /\ todo' = [todo EXCEPT ![v] = s]
        /\ pc' = [pc EXCEPT ![v] = "await"]
        /\ TypeInv /\ Phase(v) /\ CountInv(v)
    BY DEF Launch, IInv, by_revision, Positions
  <1>3. /\ s \in Seq(Revs) /\ rev \in Revs
        /\ \A n \in 1..Len(s) : n + 1 \in 1..Len(t) /\ s[n] = t[n + 1]
        /\ \A n \in 1..Len(s) : s[n] # rev
        /\ \A m, n \in 1..Len(s) : s[m] = s[n] => m = n
        /\ \A n \in 1..Len(t) : t[n] = rev \/ \E m \in 1..Len(s) : s[m] = t[n]
    BY <1>2, NextRevision
  <1>4. 1 \in 1..Len(t) /\ t[1] = rev
    BY <1>2, NextRevision
  <1> HIDE DEF s, rev
  <1>5. Selected(rows[v], group) \in Seq(Rows)
    <2>1. rows[v] \in Seq(Rows) /\ group \in SUBSET (1..Len(rows[v]))
      BY <1>2, RowsOfCommand DEF Positions
    <2> HIDE DEF group
    <2>2. QED BY <2>1, SelectedProperties
  <1> HIDE DEF group
  <1>6. /\ todo'[v] = s /\ left'[v] = Selected(rows[v], group) /\ pc'[v] = "await"
        /\ server'[v].state = "starting" /\ server'[v].revision = rev
        /\ \A u \in Verifiers : u # v => /\ todo'[u] = todo[u] /\ left'[u] = left[u]
                                         /\ pc'[u] = pc[u] /\ server'[u] = server[u]
    BY <1>1, <1>2 DEF TypeInv
  <1>7. TypeInv'
    BY <1>1, <1>2, <1>3, <1>5 DEF TypeInv
  <1>8. left[v] = <<>> /\ rows[v] # <<>>
    BY <1>2 DEF Phase
  <1>9. Phase(v)'
    BY <1>2, <1>3, <1>6, <1>8 DEF Phase
  <1>10. PICK U \in SUBSET Positions(v), R \in SUBSET Positions(v),
             N \in SUBSET Positions(v), X \in SUBSET Positions(v) : Accounted(v, U, R, N, X)
    BY <1>2 DEF CountInv
  <1>11. U = {}
    BY <1>2, <1>8, <1>10, RowsOfCommand DEF Accounted
  <1>12. Positions(v)' = Positions(v) /\ Missing(v)' = Missing(v)
    BY <1>2 DEF Positions, Missing
  <1>13. Waiting(v)' \subseteq Waiting(v)
    BY <1>2, <1>3, <1>6 DEF Waiting, Positions
  <1>14. group \subseteq Waiting(v)
    BY <1>4 DEF Waiting, group
  <1>15. Waiting(v)' \intersect group = {}
    BY <1>2, <1>3, <1>6 DEF Waiting, group
  <1>16. Waiting(v) \subseteq Waiting(v)' \union group
    <2>1. ASSUME NEW i \in Waiting(v), i \notin group PROVE i \in Waiting(v)'
      <3>1. PICK n \in 1..Len(t) : t[n] = rows[v][i].bundle_revision
        BY DEF Waiting
      <3>2. i \in Positions(v) /\ rows[v][i].bundle_revision # rev
        BY <2>1 DEF Waiting, group
      <3>3. PICK m \in 1..Len(s) : s[m] = rows[v][i].bundle_revision
        BY <1>3, <3>1, <3>2
      <3>4. QED BY <1>2, <1>6, <3>2, <3>3 DEF Waiting, Positions
    <2>2. QED BY <2>1
  <1>17. /\ \A i \in R : Reproduced(v, rows[v][i])'
         /\ \A i \in X : disturbed'[v] \/ ~Reproducible(rows[v][i])'
         /\ \A i \in N : rows'[v][i].policy_input = NoInput
    BY <1>2, <1>10 DEF Accounted, Reproduced, Reproducible, ReproducedBy
  <1>18. Going(v)
    BY <1>2 DEF Going
  <1>19. /\ Waiting(v) \intersect (R \union N \union X) = {}
         /\ Positions(v) \subseteq R \union N \union X \union Waiting(v) \union Missing(v)
    BY <1>10, <1>11, <1>18 DEF Accounted
  <1>20. /\ group \intersect (R \union N \union X) = {}
         /\ Waiting(v)' \intersect (group \union R \union N \union X) = {}
         /\ Positions(v)' \subseteq group \union R \union N \union X \union Waiting(v)' \union Missing(v)'
    BY <1>12, <1>13, <1>14, <1>15, <1>16, <1>19
  <1>21. /\ group \in SUBSET Positions(v)
         /\ \A i \in group : rows'[v][i].bundle_revision = server'[v].revision
         /\ left'[v] = Selected(rows'[v], group)
    BY <1>2, <1>6 DEF group
  <1>22. /\ R \intersect (N \union X) = {} /\ N \intersect X = {}
         /\ Cardinality(R) = report'[v].reproduced
         /\ Cardinality(N) = report'[v].unreplayable
         /\ Cardinality(X) = report'[v].diverged
    BY <1>2, <1>10 DEF Accounted
  <1>23. \E K : /\ K \in SUBSET Positions(v)' /\ Accounted(v, K, R, N, X)'
    <2>1. PICK K : K = group
      OBVIOUS
    <2>2. Accounted(v, K, R, N, X)'
      BY <1>12, <1>17, <1>20, <1>21, <1>22, <2>1 DEF Accounted
    <2>3. QED BY <1>12, <1>21, <2>1, <2>2
  <1>24. CountInv(v)'
    BY <1>12, <1>23 DEF CountInv
  <1>25. Others(v)
    BY <1>2, <1>6 DEF Others, Same
  <1>26. QED BY <1>2, <1>7, <1>9, <1>24, <1>25, StepOf

-----------------------------------------------------------------------------

LEMMA InvNext == IInv /\ [Next]_vars => IInv'
  <1> SUFFICES ASSUME IInv, [Next]_vars PROVE IInv'
    OBVIOUS
  <1>1. ASSUME NEW r \in Rows, AppendRow(r) PROVE IInv'
    BY <1>1, AppendStep
  <1>2. ASSUME NEW i \in 1..Len(ledger), NEW r \in Rows, Tamper(i, r) PROVE IInv'
    BY <1>2, TamperStep
  <1>3. ASSUME NEW v \in Verifiers, NEW m \in Modes, Start(v, m) PROVE IInv'
    BY <1>3, StartStep
  <1>4. ASSUME NEW v \in Verifiers, VerifierStep(v) PROVE IInv'
    <2>1. CASE Fetch(v)
      BY <2>1, FetchStep
    <2>2. CASE Skip(v)
      BY <2>2, SkipStep
    <2>3. CASE Launch(v)
      BY <2>3, LaunchStep
    <2>4. CASE Ready(v)
      BY <2>4, ReadyStep
    <2>5. CASE GiveUp(v)
      BY <2>5, GiveUpStep
    <2>6. CASE PassOver(v)
      BY <2>6, PassOverStep
    <2>7. CASE Evaluate(v)
      BY <2>7, EvaluateStep
    <2>8. CASE Close(v)
      BY <2>8, CloseStep
    <2>9. CASE Conclude(v)
      BY <2>9, ConcludeStep
    <2>10. QED BY <1>4, <2>1, <2>2, <2>3, <2>4, <2>5, <2>6, <2>7, <2>8, <2>9 DEF VerifierStep
  <1>5. ASSUME NEW v \in Verifiers, OpaBinds(v) \/ OpaActivates(v) \/ OpaExits(v) PROVE IInv'
    BY <1>5, OpaStep
  <1>6. CASE UNCHANGED vars
    <2>1. /\ UNCHANGED <<dist, pc, locals>> /\ ledger' = ledger /\ tampered' = tampered
      BY <1>6 DEF vars
    <2>2. ledger \in Seq(Entry) /\ tampered \in BOOLEAN
      BY DEF IInv, TypeInv
    <2>3. LedgerInv' /\ (verify(ledger)' => verify(ledger))
      BY <2>1 DEF IInv, LedgerInv
    <2>4. QED BY <2>1, <2>2, <2>3, LedgerStep
  <1>7. QED BY <1>1, <1>2, <1>3, <1>4, <1>5, <1>6 DEF Next

LEMMA Invariance == Spec => []IInv
  BY InvInit, InvNext, PTL DEF Spec

\* What the counts say together: none counts more than there is.
LEMMA CountsFit ==
  ASSUME TypeInv, NEW v \in Verifiers, NEW U, NEW R, NEW N, NEW X, Accounted(v, U, R, N, X)
  PROVE  /\ report[v].reproduced + report[v].unreplayable + report[v].diverged <= Len(rows[v])
         /\ report[v].reproduced = Len(rows[v]) => R = Positions(v)
  <1> DEFINE P == Positions(v)
  <1>1. /\ R \in SUBSET P /\ N \in SUBSET P /\ X \in SUBSET P
        /\ R \intersect (N \union X) = {} /\ N \intersect X = {}
        /\ Cardinality(R) = report[v].reproduced
        /\ Cardinality(N) = report[v].unreplayable
        /\ Cardinality(X) = report[v].diverged
    BY DEF Accounted
  <1>2. /\ IsFiniteSet(R) /\ IsFiniteSet(N) /\ IsFiniteSet(X)
        /\ Cardinality(R) \in Nat /\ Cardinality(N) \in Nat /\ Cardinality(X) \in Nat
    BY <1>1, RowsOfCommand
  <1>3. IsFiniteSet(P) /\ Cardinality(P) = Len(rows[v]) /\ Len(rows[v]) \in Nat
    <2>1. Len(rows[v]) \in Nat
      BY RowsOfCommand
    <2>2. QED BY <2>1, FS_Interval DEF Positions
  <1> HIDE DEF P
  <1>4. /\ IsFiniteSet(N \union X)
        /\ Cardinality(N \union X) = Cardinality(N) + Cardinality(X) - Cardinality(N \intersect X)
    BY <1>2, FS_Union
  <1>5. /\ IsFiniteSet(R \union (N \union X))
        /\ Cardinality(R \union (N \union X))
             = Cardinality(R) + Cardinality(N \union X) - Cardinality(R \intersect (N \union X))
    BY <1>2, <1>4, FS_Union
  <1>6. Cardinality({}) = 0
    BY FS_EmptySet
  <1>7. R \union (N \union X) \in SUBSET P
    BY <1>1
  <1>8. Cardinality(R \union (N \union X)) <= Cardinality(P)
    BY <1>3, <1>7, FS_Subset
  <1>9. report[v].reproduced + report[v].unreplayable + report[v].diverged <= Len(rows[v])
    <2>1. Cardinality(N \intersect X) = 0 /\ Cardinality(R \intersect (N \union X)) = 0
      BY <1>1, <1>6
    <2>2. Cardinality(N \union X) = Cardinality(N) + Cardinality(X)
      BY <1>2, <1>4, <2>1
    <2>3. Cardinality(R \union (N \union X)) = Cardinality(R) + (Cardinality(N) + Cardinality(X))
      BY <1>2, <1>5, <2>1, <2>2
    <2>4. QED BY <1>1, <1>2, <1>3, <1>8, <2>3
  <1>10. R # P => Cardinality(R) < Cardinality(P)
    <2>1. Cardinality(R) <= Cardinality(P) /\ (Cardinality(P) = Cardinality(R) => P = R)
      BY <1>1, <1>3, FS_Subset
    <2>2. QED BY <1>2, <1>3, <2>1
  <1>11. QED BY <1>1, <1>2, <1>3, <1>9, <1>10 DEF P

\* Type correctness, the rows of one revision at a time and the bound on the
\* counts included (ledger/replay.py).
THEOREM TypeCorrect == Spec => []TypeOK
  <1>1. IInv => TypeOK
    <2> SUFFICES ASSUME IInv PROVE TypeOK
      OBVIOUS
    <2>1. TypeInv
      BY DEF IInv
    <2>2. ASSUME NEW v \in Verifiers
          PROVE  /\ rows[v] \in Seq(Rows)
                 /\ left[v] # <<>> => pc[v] \in {"await", "replay", "error"}
                 /\ \A i \in 1..Len(left[v]) : left[v][i].bundle_revision = server[v].revision
                 /\ server[v].state \in {"none", "starting", "listening", "active", "dead"}
                 /\ server[v].port \in Ports
                 /\ report[v].reproduced + report[v].unreplayable + report[v].diverged <= Len(rows[v])
      <3>1. PICK U \in SUBSET Positions(v), R \in SUBSET Positions(v),
                 N \in SUBSET Positions(v), X \in SUBSET Positions(v) : Accounted(v, U, R, N, X)
        BY DEF IInv, CountInv
      <3>2. /\ left[v] = Selected(rows[v], U) /\ rows[v] \in Seq(Rows)
            /\ U \in SUBSET (1..Len(rows[v]))
            /\ \A i \in U : rows[v][i].bundle_revision = server[v].revision
        BY <2>1, <3>1 DEF Accounted, TypeInv, Positions
      <3>3. /\ Len(left[v]) = Cardinality(U)
            /\ \A j \in 1..Cardinality(U) : Nth(U, j) \in U /\ left[v][j] = rows[v][Nth(U, j)]
        BY <3>2, SelectedProperties
      <3>4. \A i \in 1..Len(left[v]) : left[v][i].bundle_revision = server[v].revision
        BY <3>2, <3>3
      <3>5. report[v].reproduced + report[v].unreplayable + report[v].diverged <= Len(rows[v])
        BY <2>1, <3>1, CountsFit
      <3>6. left[v] # <<>> => pc[v] \in {"await", "replay", "error"}
        BY DEF IInv, Phase
      <3>7. /\ server[v].state \in {"none", "starting", "listening", "active", "dead"}
            /\ server[v].port \in Ports
        BY <2>1 DEF TypeInv
      <3>8. QED BY <3>2, <3>4, <3>5, <3>6, <3>7
    <2>3. QED BY <2>1, <2>2 DEF TypeOK, TypeInv
  <1>2. QED BY <1>1, Invariance, PTL

\* A command that replayed, or had to, passes only on decisions that its own
\* committed bundles reproduce - or, when OPA failed it or another's answered
\* it, that some committed bundle of that revision does (ReplayReport.ok).
THEOREM AttestationAlwaysIsProof == Spec => []AttestationIsProof
  <1>1. IInv => AttestationIsProof
    <2> SUFFICES ASSUME IInv, NEW v \in Verifiers,
                        pc[v] = "pass", report[v].ran \/ mode[v] = "require"
                 PROVE  /\ rows[v] # <<>>
                        /\ \A i \in 1..Len(rows[v]) : Reproduced(v, rows[v][i])
                        /\ decisions = rows[v] =>
                             /\ attestation.decisions = report[v].reproduced
                             /\ attestation.unreplayable = {}
                             /\ \A n \in 1..Len(attestation.spans) :
                                  disturbed[v] \/ attestation.spans[n].revision \in DOMAIN dist
      BY DEF AttestationIsProof, Reproduced
    <2>1. TypeInv /\ Phase(v) /\ CountInv(v)
      BY DEF IInv
    <2>2. /\ report[v].ran /\ report[v].reproduced = Len(rows[v]) /\ rows[v] # <<>>
      BY <2>1 DEF Phase, ok
    <2>3. PICK U \in SUBSET Positions(v), R \in SUBSET Positions(v),
               N \in SUBSET Positions(v), X \in SUBSET Positions(v) : Accounted(v, U, R, N, X)
      BY <2>1 DEF CountInv
    <2>4. R = Positions(v)
      BY <2>1, <2>2, <2>3, CountsFit
    <2>5. \A i \in R : Reproduced(v, rows[v][i])
      BY <2>3 DEF Accounted
    <2>6. \A i \in 1..Len(rows[v]) : Reproduced(v, rows[v][i])
      BY <2>4, <2>5 DEF Positions
    <2>7. ASSUME decisions = rows[v]
          PROVE  /\ attestation.decisions = report[v].reproduced
                 /\ attestation.unreplayable = {}
                 /\ \A n \in 1..Len(attestation.spans) :
                      disturbed[v] \/ attestation.spans[n].revision \in DOMAIN dist
      <3> DEFINE t == Revisions(decisions)
      <3>1. attestation.decisions = report[v].reproduced
        BY <2>2, <2>7 DEF attestation
      <3>2. attestation.unreplayable = {}
        BY <2>6, <2>7 DEF attestation, Reproduced, Reproducible, ReproducedBy
      <3>3. rows[v] \in Seq(Rows)
        BY <2>1 DEF TypeInv
      <3>4. /\ t \in Seq(Revs)
            /\ \A n \in 1..Len(t) : \E i \in 1..Len(rows[v]) : t[n] = rows[v][i].bundle_revision
        BY <2>7, <3>3, RevisionsProperties
      <3>5. attestation.spans = [n \in 1..Len(t) |->
                                   [revision |-> t[n], group |-> by_revision(decisions, t[n])]]
        BY DEF attestation
      <3>6. Len(t) \in Nat
        BY <3>4, LenProperties
      <3> HIDE DEF t
      <3>7. /\ Len(attestation.spans) = Len(t)
            /\ \A n \in 1..Len(t) : attestation.spans[n].revision = t[n]
        BY <3>5, <3>6
      <3>8. ASSUME NEW n \in 1..Len(t), ~disturbed[v] PROVE t[n] \in DOMAIN dist
        <4>1. PICK i \in 1..Len(rows[v]) : t[n] = rows[v][i].bundle_revision
          BY <3>4
        <4>2. QED BY <2>6, <3>8, <4>1 DEF Reproduced, Reproducible, ReproducedBy
      <3>9. QED BY <3>1, <3>2, <3>7, <3>8
    <2>8. QED BY <2>2, <2>6, <2>7
  <1>2. QED BY <1>1, Invariance, PTL

\* A command that OPA served and that could replay fails only on a ledger that
\* is bad: its chain, or a decision its own bundle does not reproduce (the
\* phantom divergences of ledger/replay.py are gone).
THEOREM FailAlwaysHasACause == Spec => []FailHasACause
  <1>1. IInv => FailHasACause
    <2> SUFFICES ASSUME IInv, NEW v \in Verifiers, pc[v] = "fail", ~disturbed[v], verify(ledger),
                        ~(mode[v] = "require" /\ ~report[v].ran),
                        \A i \in 1..Len(rows[v]) : Reproducible(rows[v][i])
                 PROVE  FALSE
      BY DEF FailHasACause
    <2>1. TypeInv /\ Phase(v) /\ CountInv(v)
      BY DEF IInv
    <2>2. /\ report[v].ran /\ ~ok(report[v], Len(rows[v])) /\ todo[v] = <<>> /\ left[v] = <<>>
      BY <2>1 DEF Phase
    <2>3. PICK U \in SUBSET Positions(v), R \in SUBSET Positions(v),
               N \in SUBSET Positions(v), X \in SUBSET Positions(v) : Accounted(v, U, R, N, X)
      BY <2>1 DEF CountInv
    <2>4. U = {}
      BY <2>1, <2>2, <2>3, RowsOfCommand DEF Accounted
    <2>5. Waiting(v) = {}
      <3>1. Len(todo[v]) = 0
        BY <2>2, EmptySeq
      <3>2. QED BY <3>1 DEF Waiting
    <2>6. Missing(v) = {}
      BY DEF Missing, Positions, Reproducible, ReproducedBy
    <2>7. N = {} /\ X = {}
      BY <2>3 DEF Accounted, Positions, Reproducible, ReproducedBy
    <2>8. R = Positions(v)
      BY <2>2, <2>3, <2>4, <2>5, <2>6, <2>7 DEF Accounted, Going
    <2>9. report[v].unreplayable = 0 /\ report[v].diverged = 0
      <3>1. Cardinality(N) = report[v].unreplayable /\ Cardinality(X) = report[v].diverged
        BY <2>3 DEF Accounted
      <3>2. QED BY <2>7, <3>1, FS_EmptySet
    <2>10. report[v].reproduced = Len(rows[v])
      <3>1. Cardinality(R) = report[v].reproduced /\ Len(rows[v]) \in Nat
        BY <2>1, <2>3, RowsOfCommand DEF Accounted
      <3>2. Cardinality(Positions(v)) = Len(rows[v])
        <4>1. Cardinality(1..Len(rows[v])) = Len(rows[v])
          BY <3>1, FS_Interval
        <4>2. QED BY <4>1 DEF Positions
      <3>3. QED BY <2>8, <3>1, <3>2
    <2>11. QED BY <2>2, <2>9, <2>10 DEF ok
  <1>2. QED BY <1>1, Invariance, PTL
=============================================================================
