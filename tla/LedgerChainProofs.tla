------------------------- MODULE LedgerChainProofs -------------------------
(***************************************************************************)
(* Theorems about LedgerChain for any number of writers, processes and     *)
(* rows and a ledger of any length.                                        *)
(*                                                                         *)
(* The chain stays intact because of one inductive fact: the writer that   *)
(* holds SQLite's write lock is the only one past BEGIN IMMEDIATE, so from *)
(* its read of the head to its commit the head cannot move.                *)
(***************************************************************************)
EXTENDS LedgerChain, SequenceTheorems, TLAPS

USE DEF Hash, GENESIS, entry_hash

-----------------------------------------------------------------------------
\* The statements between BEGIN IMMEDIATE and COMMIT.
Holding(w) == pc[w] \in {"head", "insert", "commit"}

\* The write lock is held exactly by the writer inside a transaction.
LockInv ==
  /\ \A w \in Writers : Holding(w) <=> writeLock = w
  /\ \A w \in Writers : pc[w] \in {"insert", "commit"} => prev[w] = head_hash(ledger)
  /\ \A w \in Writers : pc[w] = "commit" => draft[w] = <<NewEntry(ledger, prev[w], row[w])>>

\* Entry i commits to i rows, so no two entries can share a hash or a parent.
HashesGrow == \A i \in 1..Len(ledger) : Len(ledger[i].entry_hash) = i

IInv ==
  /\ TypeOK
  /\ LockInv
  /\ ChainIntact
  /\ HashesGrow
  /\ LockSuffices

-----------------------------------------------------------------------------
LEMMA AnyRowIsRow == AnyRow \in Rows
  BY RowsAssumption DEF AnyRow

\* The head's hash is a hash, and it commits to every row of an intact ledger.
LEMMA HeadHashType ==
  ASSUME NEW l \in Seq(Entry)
  PROVE  head_hash(l) \in Hash
  <1>1. CASE l = <<>>
    BY <1>1 DEF head_hash
  <1>2. CASE l # <<>>
    <2>1. Len(l) \in 1..Len(l)
      BY <1>2, EmptySeq, LenProperties
    <2>2. l[Len(l)] \in Entry
      BY <2>1, ElementOfSeq
    <2>3. QED BY <1>2, <2>2 DEF head_hash, Entry
  <1>3. QED BY <1>1, <1>2

LEMMA NewEntryType ==
  ASSUME NEW l \in Seq(Entry), NEW p \in Hash, NEW r \in Rows
  PROVE  NewEntry(l, p, r) \in Entry
  <1>1. Len(l) + 1 \in Nat
    BY LenProperties
  <1>2. entry_hash(p, r) \in Hash
    BY AppendProperties
  <1>3. QED BY <1>1, <1>2 DEF NewEntry, Entry

-----------------------------------------------------------------------------
\* Spec => []TypeOK, by the shape of each action.
LEMMA TypeInit == Init => TypeOK
  <1> SUFFICES ASSUME Init PROVE TypeOK
    OBVIOUS
  <1>1. ledger \in Seq(Entry) /\ Len(ledger) = 0
    BY DEF Init
  <1>2. synced \in 0..Len(ledger)
    BY <1>1 DEF Init
  <1>3. QED BY <1>1, <1>2, AnyRowIsRow DEF Init, TypeOK, States

LEMMA EmptyIsSeq == GENESIS \in Hash /\ <<>> \in Seq(Entry)
  OBVIOUS

LEMMA LeaveType ==
  ASSUME TypeOK, NEW w \in Writers, Leave(w)
  PROVE  /\ pathLock' \in [Processes -> Writers \union {NoOne}]
         /\ pc' \in [Writers -> States]
         /\ row' \in [Writers -> Rows]
         /\ prev' \in [Writers -> Hash]
         /\ draft' \in [Writers -> Seq(Entry)]
  <1>1. pathLock' \in [Processes -> Writers \union {NoOne}]
    BY DEF TypeOK, Leave
  <1>2. pc' \in [Writers -> States]
    BY DEF TypeOK, Leave, States
  <1>3. row' \in [Writers -> Rows]
    BY AnyRowIsRow DEF TypeOK, Leave
  <1>4. prev' \in [Writers -> Hash]
    <2> HIDE DEF Hash, GENESIS
    <2>1. QED BY EmptyIsSeq DEF TypeOK, Leave
  <1>5. draft' \in [Writers -> Seq(Entry)]
    BY EmptyIsSeq DEF TypeOK, Leave
  <1>6. QED BY <1>1, <1>2, <1>3, <1>4, <1>5

LEMMA LoseType ==
  ASSUME TypeOK, NEW S \in SUBSET Processes, Lose(S)
  PROVE  /\ writeLock' \in Writers \union {NoOne}
         /\ pathLock' \in [Processes -> Writers \union {NoOne}]
         /\ pc' \in [Writers -> States]
         /\ row' \in [Writers -> Rows]
         /\ prev' \in [Writers -> Hash]
         /\ draft' \in [Writers -> Seq(Entry)]
         /\ gauge' \in [Processes -> Nat]
  <1> HIDE DEF Hash, GENESIS
  <1> USE EmptyIsSeq, AnyRowIsRow DEF Lose
  <1>1. writeLock' \in Writers \union {NoOne}
    BY DEF TypeOK
  <1>2. pathLock' \in [Processes -> Writers \union {NoOne}]
    BY DEF TypeOK
  <1>3. pc' \in [Writers -> States]
    BY DEF TypeOK, States
  <1>4. row' \in [Writers -> Rows]
    BY DEF TypeOK
  <1>5. prev' \in [Writers -> Hash]
    BY DEF TypeOK
  <1>6. draft' \in [Writers -> Seq(Entry)]
    BY DEF TypeOK
  <1>7. gauge' \in [Processes -> Nat]
    BY DEF TypeOK
  <1>8. QED BY <1>1, <1>2, <1>3, <1>4, <1>5, <1>6, <1>7

LEMMA TypeNext == TypeOK /\ [Next]_vars => TypeOK'
  <1> SUFFICES ASSUME TypeOK, [Next]_vars PROVE TypeOK'
    OBVIOUS
  <1> USE WritersAssumption
  <1>1. ASSUME NEW w \in Writers, NEW r \in Rows, Call(w, r) PROVE TypeOK'
    BY <1>1 DEF TypeOK, Call, States, table, observed
  <1>2. ASSUME NEW w \in Writers, AcquirePathLock(w) PROVE TypeOK'
    BY <1>2 DEF TypeOK, AcquirePathLock, States, table, observed
  <1>3. ASSUME NEW w \in Writers, BeginImmediate(w) PROVE TypeOK'
    BY <1>3 DEF TypeOK, BeginImmediate, States, table, observed
  <1>4. ASSUME NEW w \in Writers, BusyTimeout(w) PROVE TypeOK'
    BY <1>4, LeaveType DEF TypeOK, BusyTimeout, table, observed
  <1>5. ASSUME NEW w \in Writers, ReadHead(w) PROVE TypeOK'
    <2>1. head_hash(ledger) \in Hash
      BY HeadHashType DEF TypeOK
    <2>2. QED BY <1>5, <2>1 DEF TypeOK, ReadHead, States, table, observed
  <1>6. ASSUME NEW w \in Writers, Insert(w) PROVE TypeOK'
    <2> DEFINE e == NewEntry(ledger, prev[w], row[w])
    <2>1. e \in Entry
      BY NewEntryType DEF TypeOK
    <2>2. CASE Unique(ledger, e)
      <3>1. <<e>> \in Seq(Entry)
        BY <2>1
      <3> HIDE DEF e
      <3>2. draft' = [draft EXCEPT ![w] = <<e>>]
        BY <1>6, <2>2 DEF Insert, e
      <3>3. QED BY <1>6, <2>2, <3>1, <3>2 DEF TypeOK, Insert, States, table, observed, e
    <2>3. CASE ~Unique(ledger, e)
      <3>1. RefuseFork(w)
        BY <1>6, <2>3 DEF Insert
      <3>2. QED BY <3>1, LeaveType DEF TypeOK, RefuseFork, table
    <2>4. QED BY <2>2, <2>3
  <1>7. ASSUME NEW w \in Writers, Commit(w) PROVE TypeOK'
    <2>1. ledger' \in Seq(Entry) /\ Len(ledger') >= Len(ledger)
      BY <1>7, ConcatProperties, LenProperties DEF TypeOK, Commit
    <2>2. synced' \in 0..Len(ledger')
      BY <1>7, <2>1, LenProperties DEF TypeOK, Commit
    <2>3. QED BY <1>7, <2>1, <2>2 DEF TypeOK, Commit, States, observed
  <1>8. ASSUME NEW w \in Writers, Fail(w) PROVE TypeOK'
    BY <1>8, LeaveType DEF TypeOK, Fail, table, observed
  <1>9. ASSUME NEW w \in Writers, Return(w) PROVE TypeOK'
    <2>1. <<row[w], entry_hash(prev[w], row[w])>> \in Rows \X Hash
      BY AppendProperties DEF TypeOK
    <2>2. acked' \subseteq Rows \X Hash
      <3> HIDE DEF entry_hash, Hash
      <3>1. QED BY <1>9, <2>1 DEF TypeOK, Return
    <2>3. gauge' \in [Processes -> Nat]
      BY <1>9 DEF TypeOK, Return
    <2>4. QED BY <1>9, <2>2, <2>3, LeaveType DEF TypeOK, Return, table
  <1>10. ASSUME NEW p \in Processes, Crash(p) PROVE TypeOK'
    BY <1>10, LoseType DEF TypeOK, Crash, table
  <1>11. CASE Checkpoint
    BY <1>11, LenProperties DEF TypeOK, Checkpoint, observed
  <1>12. ASSUME NEW n \in synced..Len(ledger), PowerLoss(n) PROVE TypeOK'
    <2>1. n \in 0..Len(ledger)
      BY LenProperties DEF TypeOK
    <2>2. ledger' \in Seq(Entry) /\ Len(ledger') = n
      BY <1>12, <2>1, SubSeqProperties DEF TypeOK, PowerLoss
    <2>3. synced' \in 0..Len(ledger')
      BY <1>12, <2>1, <2>2 DEF TypeOK, PowerLoss
    <2>4. acked' \subseteq Rows \X Hash
      BY <1>12 DEF TypeOK, PowerLoss, ForgetUndone
    <2>5. QED BY <1>12, <2>2, <2>3, <2>4, LoseType DEF TypeOK, PowerLoss
  <1>13. CASE UNCHANGED vars
    BY <1>13 DEF TypeOK, vars
  <1>14. QED
    BY <1>1, <1>2, <1>3, <1>4, <1>5, <1>6, <1>7, <1>8, <1>9, <1>10, <1>11, <1>12, <1>13
       DEF Next, WriterStep

\* Every variable of the ledger model keeps its type, whatever the writers,
\* crashes and power cuts do.
THEOREM TypeCorrect == Spec => []TypeOK
  BY TypeInit, TypeNext, PTL DEF Spec

-----------------------------------------------------------------------------
\* What the steps do to an intact ledger.

\* In an intact ledger with growing hashes the head commits to every row.
LEMMA HeadCommitsToAll ==
  ASSUME TypeOK, HashesGrow
  PROVE  Len(head_hash(ledger)) = Len(ledger)
  <1>1. CASE ledger = <<>>
    BY <1>1 DEF head_hash
  <1>2. CASE ledger # <<>>
    <2>1. Len(ledger) \in 1..Len(ledger)
      BY <1>2, EmptySeq, LenProperties DEF TypeOK
    <2>2. QED BY <1>2, <2>1 DEF head_hash, HashesGrow
  <1>3. QED BY <1>1, <1>2

\* So an entry linked to the head meets no unique constraint.
LEMMA LinkedEntryIsUnique ==
  ASSUME TypeOK, ChainIntact, HashesGrow, NEW r \in Rows
  PROVE  Unique(ledger, NewEntry(ledger, head_hash(ledger), r))
  <1> DEFINE h == head_hash(ledger)
  <1>1. h \in Hash /\ Len(h) = Len(ledger)
    BY HeadHashType, HeadCommitsToAll DEF TypeOK
  <1>2. Len(entry_hash(h, r)) = Len(ledger) + 1
    BY <1>1, AppendProperties
  <1> SUFFICES ASSUME NEW i \in 1..Len(ledger)
               PROVE  /\ ledger[i].prev_hash # h
                      /\ ledger[i].entry_hash # entry_hash(h, r)
    BY DEF Unique, NewEntry
  <1>3. Len(ledger) \in Nat
    BY LenProperties DEF TypeOK
  <1>4. Len(ledger[i].entry_hash) = i
    BY DEF HashesGrow
  <1>5. Len(ledger[i].prev_hash) = i - 1
    <2>1. ledger[i].prev_hash = StoredHashBefore(ledger, i)
      BY DEF ChainIntact, verify, EntryOK
    <2>2. CASE i = 1
      BY <2>1, <2>2 DEF StoredHashBefore
    <2>3. CASE i # 1
      <3>1. i - 1 \in 1..Len(ledger)
        BY <2>3, <1>3
      <3>2. QED BY <2>1, <2>3, <3>1 DEF StoredHashBefore, HashesGrow
    <2>4. QED BY <2>2, <2>3
  <1>6. QED BY <1>1, <1>2, <1>3, <1>4, <1>5

\* Committing an entry linked to the head keeps the chain intact.
LEMMA ExtendIntact ==
  ASSUME TypeOK, ChainIntact, HashesGrow, NEW r \in Rows,
         ledger' = Append(ledger, NewEntry(ledger, head_hash(ledger), r))
  PROVE  ChainIntact' /\ HashesGrow'
  <1> DEFINE n == Len(ledger)
             e == NewEntry(ledger, head_hash(ledger), r)
  <1>1. n \in Nat /\ ledger \in Seq(Entry)
    BY LenProperties DEF TypeOK
  <1>2. e \in Entry /\ head_hash(ledger) \in Hash
    BY <1>1, HeadHashType, NewEntryType
  <1>3. /\ Len(ledger') = n + 1
        /\ ledger'[n + 1] = e
        /\ \A i \in 1..n : ledger'[i] = ledger[i]
    <2> HIDE DEF e
    <2>1. QED BY <1>1, <1>2, AppendProperties DEF e
  <1>4. \A i \in 1..n : StoredHashBefore(ledger', i) = StoredHashBefore(ledger, i)
    BY <1>1, <1>3 DEF StoredHashBefore
  <1>5. \A i \in 1..n : EntryOK(ledger', i) /\ Len(ledger'[i].entry_hash) = i
    BY <1>3, <1>4 DEF EntryOK, ChainIntact, verify, HashesGrow
  <1>6. StoredHashBefore(ledger', n + 1) = head_hash(ledger)
    <2>1. CASE n = 0
      BY <1>1, <2>1, EmptySeq DEF StoredHashBefore, head_hash
    <2>2. CASE n # 0
      <3>1. n \in 1..n /\ n + 1 # 1 /\ ledger # <<>>
        BY <1>1, <2>2
      <3>2. QED BY <1>3, <3>1 DEF StoredHashBefore, head_hash
    <2>3. QED BY <2>1, <2>2
  <1>7. e.seq = n + 1 /\ e.prev_hash = head_hash(ledger) /\ e.row = r
        /\ e.entry_hash = entry_hash(head_hash(ledger), r)
    BY DEF NewEntry
  <1>8. EntryOK(ledger', n + 1)
    <2> HIDE DEF e, entry_hash
    <2>1. QED BY <1>3, <1>6, <1>7 DEF EntryOK
  <1>9. Len(ledger'[n + 1].entry_hash) = n + 1
    <2>1. Len(head_hash(ledger)) = n
      BY HeadCommitsToAll
    <2>2. Len(entry_hash(head_hash(ledger), r)) = n + 1
      BY <1>2, <2>1, AppendProperties
    <2>3. QED BY <1>3, <1>7, <2>2
  <1>10. \A i \in 1..Len(ledger') : i \in 1..n \/ i = n + 1
    BY <1>1, <1>3
  <1>11. QED BY <1>5, <1>8, <1>9, <1>10 DEF ChainIntact, verify, HashesGrow

\* A prefix of an intact ledger is intact.
LEMMA PrefixIntact ==
  ASSUME TypeOK, ChainIntact, HashesGrow, NEW n \in 0..Len(ledger),
         ledger' = SubSeq(ledger, 1, n)
  PROVE  ChainIntact' /\ HashesGrow'
  <1>1. Len(ledger) \in Nat /\ ledger \in Seq(Entry)
    BY LenProperties DEF TypeOK
  <1>2. Len(ledger') = n /\ \A i \in 1..n : ledger'[i] = ledger[i]
    BY <1>1, SubSeqProperties
  <1>3. \A i \in 1..n : i \in 1..Len(ledger)
    BY <1>1
  <1>4. \A i \in 1..n : StoredHashBefore(ledger', i) = StoredHashBefore(ledger, i)
    BY <1>1, <1>2 DEF StoredHashBefore
  <1>5. QED BY SMTT(30), <1>2, <1>3, <1>4 DEF ChainIntact, verify, EntryOK, HashesGrow

-----------------------------------------------------------------------------
LEMMA InvInit == Init => IInv
  <1> SUFFICES ASSUME Init PROVE IInv
    OBVIOUS
  <1>1. TypeOK
    BY TypeInit
  <1>2. Len(ledger) = 0
    BY DEF Init
  <1>3. LockInv
    BY WritersAssumption DEF Init, LockInv, Holding
  <1>4. QED BY <1>1, <1>2, <1>3 DEF IInv, ChainIntact, verify, HashesGrow, LockSuffices, Init

\* Leaving a transaction, by a return or a rollback, gives the lock back.
LEMMA LeaveLock ==
  ASSUME IInv, NEW w \in Writers, Leave(w), ledger' = ledger,
         writeLock' = IF writeLock = w THEN NoOne ELSE writeLock
  PROVE  LockInv'
  <1> USE DEF IInv, LockInv
  <1>1. /\ pc' = [pc EXCEPT ![w] = "idle"]
        /\ row' = [row EXCEPT ![w] = AnyRow]
        /\ prev' = [prev EXCEPT ![w] = GENESIS]
        /\ draft' = [draft EXCEPT ![w] = <<>>]
    BY DEF Leave
  <1>2. pc \in [Writers -> States] /\ row \in [Writers -> Rows]
        /\ prev \in [Writers -> Hash] /\ draft \in [Writers -> Seq(Entry)]
    BY DEF TypeOK
  <1> SUFFICES ASSUME NEW v \in Writers
               PROVE  /\ Holding(v)' <=> writeLock' = v
                      /\ pc'[v] \in {"insert", "commit"} => prev'[v] = head_hash(ledger')
                      /\ pc'[v] = "commit" => draft'[v] = <<NewEntry(ledger', prev'[v], row'[v])>>
    BY DEF Holding
  <1>3. CASE v = w
    BY <1>1, <1>2, <1>3, WritersAssumption DEF Holding
  <1>4. CASE v # w
    BY <1>1, <1>2, <1>4, WritersAssumption DEF Holding
  <1>5. QED BY <1>3, <1>4

\* A crash rolls back the transactions of the processes that died.
LEMMA LoseLock ==
  ASSUME IInv, NEW S \in SUBSET Processes, Lose(S),
         ledger' = ledger \/ S = Processes
  PROVE  LockInv'
  <1> USE DEF IInv, LockInv
  <1> SUFFICES ASSUME NEW v \in Writers
               PROVE  /\ Holding(v)' <=> writeLock' = v
                      /\ pc'[v] \in {"insert", "commit"} => prev'[v] = head_hash(ledger')
                      /\ pc'[v] = "commit" => draft'[v] = <<NewEntry(ledger', prev'[v], row'[v])>>
    BY DEF Holding
  <1>1. CASE ProcessOf[v] \in S
    BY <1>1, WritersAssumption DEF Lose, Holding
  <1>2. CASE ProcessOf[v] \notin S
    <2>1. ledger' = ledger
      BY <1>2, WritersAssumption
    <2>2. pc'[v] = pc[v] /\ row'[v] = row[v] /\ prev'[v] = prev[v] /\ draft'[v] = draft[v]
      BY <1>2 DEF Lose
    <2>3. writeLock' = v <=> writeLock = v
      BY <1>2, WritersAssumption DEF Lose
    <2>4. QED BY <2>1, <2>2, <2>3 DEF Holding
  <1>3. QED BY <1>1, <1>2

LEMMA InvNext == IInv /\ [Next]_vars => IInv'
  <1> SUFFICES ASSUME IInv, [Next]_vars PROVE IInv'
    OBVIOUS
  <1>1. TypeOK'
    BY TypeNext DEF IInv
  <1> DEFINE Rest == LockInv' /\ ChainIntact' /\ HashesGrow' /\ LockSuffices'
  <1>a. ASSUME ledger' = ledger PROVE ChainIntact' /\ HashesGrow'
    BY <1>a DEF IInv, ChainIntact, verify, EntryOK, StoredHashBefore, HashesGrow
  <1>t. /\ pc \in [Writers -> States] /\ row \in [Writers -> Rows]
        /\ prev \in [Writers -> Hash] /\ draft \in [Writers -> Seq(Entry)]
    BY DEF IInv, TypeOK
  <1>2. ASSUME NEW w \in Writers, NEW r \in Rows, Call(w, r) PROVE Rest
    <2>1. LockInv'
      BY <1>2, <1>t DEF IInv, LockInv, Call, Holding, table
    <2>2. QED BY <1>2, <1>a, <2>1 DEF IInv, Call, table, observed, LockSuffices
  <1>3. ASSUME NEW w \in Writers, AcquirePathLock(w) PROVE Rest
    <2>1. LockInv'
      BY <1>3, <1>t DEF IInv, LockInv, AcquirePathLock, Holding, table
    <2>2. QED BY <1>3, <1>a, <2>1 DEF IInv, AcquirePathLock, table, observed, LockSuffices
  <1>4. ASSUME NEW w \in Writers, BeginImmediate(w) PROVE Rest
    <2>1. LockInv'
      BY <1>4, <1>t, WritersAssumption
         DEF IInv, LockInv, BeginImmediate, Holding, table
    <2>2. QED BY <1>4, <1>a, <2>1 DEF IInv, BeginImmediate, table, observed, LockSuffices
  <1>5. ASSUME NEW w \in Writers, BusyTimeout(w) PROVE Rest
    <2>1. writeLock # w
      BY <1>5 DEF BusyTimeout, IInv, LockInv, Holding
    <2>2. LockInv'
      BY <1>5, <2>1, LeaveLock DEF BusyTimeout, table
    <2>3. QED BY <1>5, <1>a, <2>2 DEF IInv, BusyTimeout, table, observed, LockSuffices
  <1>6. ASSUME NEW w \in Writers, ReadHead(w) PROVE Rest
    <2>1. LockInv'
      BY <1>6, <1>t DEF IInv, LockInv, ReadHead, Holding, table
    <2>2. QED BY <1>6, <1>a, <2>1 DEF IInv, ReadHead, table, observed, LockSuffices
  <1>7. ASSUME NEW w \in Writers, Insert(w) PROVE Rest
    <2> DEFINE e == NewEntry(ledger, prev[w], row[w])
    <2>1. prev[w] = head_hash(ledger) /\ row[w] \in Rows
      BY <1>7, <1>t DEF IInv, LockInv, Insert
    <2>2. Unique(ledger, e)
      BY <2>1, LinkedEntryIsUnique DEF IInv
    <2> HIDE DEF e
    <2>3. /\ draft' = [draft EXCEPT ![w] = <<e>>]
          /\ pc' = [pc EXCEPT ![w] = "commit"]
          /\ UNCHANGED <<table, writeLock, pathLock, row, prev, observed>>
          /\ pc[w] = "insert"
      BY <1>7, <2>2 DEF Insert, e
    <2>4. LockInv'
      BY <2>1, <2>3, <1>t DEF IInv, LockInv, Holding, table, e
    <2>5. QED BY <1>a, <2>3, <2>4 DEF IInv, table, observed, LockSuffices
  <1>8. ASSUME NEW w \in Writers, Commit(w) PROVE Rest
    <2> DEFINE e == NewEntry(ledger, head_hash(ledger), row[w])
    <2>1. prev[w] = head_hash(ledger) /\ draft[w] = <<e>> /\ row[w] \in Rows /\ writeLock = w
      BY <1>8, <1>t DEF IInv, LockInv, Commit, Holding
    <2>2. e \in Entry /\ ledger \in Seq(Entry)
      BY <2>1, HeadHashType, NewEntryType DEF IInv, TypeOK
    <2>3. ledger' = Append(ledger, e)
      <3> HIDE DEF e
      <3>1. ledger \o <<e>> = Append(ledger, e)
        BY <2>2, AppendIsConcat
      <3>2. QED BY <1>8, <2>1, <3>1 DEF Commit
    <2>4. ChainIntact' /\ HashesGrow'
      BY <2>1, <2>3, ExtendIntact DEF IInv
    <2>5. \A v \in Writers : v # w => ~Holding(v)
      BY <2>1 DEF IInv, LockInv
    <2>6. LockInv'
      BY <1>8, <1>t, <2>5, WritersAssumption DEF Commit, LockInv, Holding
    <2>7. QED BY <1>8, <2>4, <2>6 DEF IInv, Commit, observed, LockSuffices
  <1>9. ASSUME NEW w \in Writers, Fail(w) PROVE Rest
    <2>1. writeLock = w
      BY <1>9 DEF Fail, IInv, LockInv, Holding
    <2>2. LockInv'
      BY <1>9, <2>1, LeaveLock DEF Fail, table
    <2>3. QED BY <1>9, <1>a, <2>2 DEF IInv, Fail, table, observed, LockSuffices
  <1>10. ASSUME NEW w \in Writers, Return(w) PROVE Rest
    <2>1. writeLock # w
      BY <1>10 DEF Return, IInv, LockInv, Holding
    <2>2. LockInv'
      BY <1>10, <2>1, LeaveLock DEF Return, table
    <2>3. QED BY <1>10, <1>a, <2>2 DEF IInv, Return, table, LockSuffices
  <1>11. ASSUME NEW p \in Processes, Crash(p) PROVE Rest
    <2>1. LockInv'
      BY <1>11, LoseLock DEF Crash, table
    <2>2. QED BY <1>11, <1>a, <2>1 DEF IInv, Crash, table, LockSuffices
  <1>12. ASSUME Checkpoint PROVE Rest
    <2>1. LockInv'
      BY <1>12 DEF IInv, LockInv, Checkpoint, Holding
    <2>2. QED BY <1>12, <1>a, <2>1 DEF IInv, Checkpoint, observed, LockSuffices
  <1>13. ASSUME NEW n \in synced..Len(ledger), PowerLoss(n) PROVE Rest
    <2>1. n \in 0..Len(ledger)
      BY LenProperties DEF IInv, TypeOK
    <2>2. ChainIntact' /\ HashesGrow'
      BY <1>13, <2>1, PrefixIntact DEF IInv, PowerLoss
    <2>3. LockInv'
      BY <1>13, LoseLock DEF PowerLoss
    <2>4. QED BY <1>13, <2>2, <2>3 DEF IInv, PowerLoss, LockSuffices
  <1>14. ASSUME UNCHANGED vars PROVE Rest
    <2>1. LockInv'
      BY <1>14 DEF IInv, LockInv, Holding, vars
    <2>2. QED BY <1>14, <1>a, <2>1 DEF IInv, LockSuffices, vars
  <1>15. Rest
    BY <1>2, <1>3, <1>4, <1>5, <1>6, <1>7, <1>8, <1>9, <1>10, <1>11, <1>12, <1>13, <1>14
       DEF Next, WriterStep
  <1>16. QED BY <1>1, <1>15 DEF IInv

LEMMA Invariance == Spec => []IInv
  BY InvInit, InvNext, PTL DEF Spec

\* The ledger never forks, skips or mislinks an entry, with any number of
\* threads and processes appending, dying and losing power: `praman verify`
\* accepts every committed state of a ledger nobody edited.
THEOREM ChainAlwaysIntact == Spec => []ChainIntact
  <1>1. IInv => ChainIntact
    BY DEF IInv
  <1>2. QED BY <1>1, Invariance, PTL

\* The path lock and BEGIN IMMEDIATE are enough: UNIQUE(prev_hash) never
\* has an append to refuse.
THEOREM LockAlwaysSuffices == Spec => []LockSuffices
  <1>1. IInv => LockSuffices
    BY DEF IInv
  <1>2. QED BY <1>1, Invariance, PTL

-----------------------------------------------------------------------------
\* What callers were told is in the ledger, unless a power cut undid it.
Recorded(r, h) ==
  \E i \in 1..Len(ledger) : ledger[i].entry_hash = h /\ ledger[i].row = r

\* A call that has committed but not returned yet knows its own hash.
AckInv ==
  /\ \A a \in acked : Recorded(a[1], a[2])
  /\ \A w \in Writers : pc[w] = "return" => Recorded(row[w], entry_hash(prev[w], row[w]))

\* A step that only adds to the ledger forgets nothing that was recorded.
LEMMA RecordedStays ==
  ASSUME IInv, NEW r, NEW h, Recorded(r, h),
         \/ ledger' = ledger
         \/ \E w \in Writers : Commit(w)
  PROVE  Recorded(r, h)'
  <1>1. CASE ledger' = ledger
    BY <1>1 DEF Recorded
  <1>2. ASSUME NEW w \in Writers, Commit(w) PROVE Recorded(r, h)'
    <2>1. ledger \in Seq(Entry) /\ draft[w] \in Seq(Entry)
      BY DEF IInv, TypeOK
    <2>2. /\ Len(ledger) \in Nat /\ Len(ledger') \in Nat /\ Len(ledger') >= Len(ledger)
          /\ \A i \in 1..Len(ledger) : ledger'[i] = ledger[i]
      BY <1>2, <2>1, ConcatProperties, LenProperties DEF Commit
    <2>3. PICK i \in 1..Len(ledger) : ledger[i].entry_hash = h /\ ledger[i].row = r
      BY DEF Recorded
    <2>4. i \in 1..Len(ledger') /\ ledger'[i] = ledger[i]
      BY <2>2
    <2>5. QED BY <2>3, <2>4 DEF Recorded
  <1>3. QED BY <1>1, <1>2

\* In a step that is not a power cut, a writer is about to return only if it
\* has just committed, or was about to before.
LEMMA AckFrame ==
  ASSUME IInv, [Next]_vars, \A n \in synced..Len(ledger) : ~PowerLoss(n),
         NEW v \in Writers, ~Commit(v), pc'[v] = "return"
  PROVE  pc[v] = "return" /\ row'[v] = row[v] /\ prev'[v] = prev[v]
  <1>t. /\ pc \in [Writers -> States] /\ row \in [Writers -> Rows]
        /\ prev \in [Writers -> Hash]
    BY DEF IInv, TypeOK
  <1> USE <1>t
  <1> HIDE DEF Hash, GENESIS, entry_hash
  <1>1. ASSUME NEW w \in Writers, NEW r \in Rows, Call(w, r)
        PROVE  pc[v] = "return" /\ row'[v] = row[v] /\ prev'[v] = prev[v]
    BY <1>1 DEF Call
  <1>2. ASSUME NEW w \in Writers, WriterStep(w)
        PROVE  pc[v] = "return" /\ row'[v] = row[v] /\ prev'[v] = prev[v]
    BY <1>2 DEF WriterStep, AcquirePathLock, BeginImmediate, BusyTimeout, ReadHead,
                Insert, RefuseFork, Commit, Fail, Return, Leave
  <1>3. ASSUME NEW p \in Processes, Crash(p)
        PROVE  pc[v] = "return" /\ row'[v] = row[v] /\ prev'[v] = prev[v]
    BY <1>3 DEF Crash, Lose
  <1>4. CASE Checkpoint
    BY <1>4 DEF Checkpoint
  <1>5. CASE UNCHANGED vars
    BY <1>5 DEF vars
  <1>6. QED BY <1>1, <1>2, <1>3, <1>4, <1>5 DEF Next

LEMMA AckInit == Init => AckInv
  BY DEF Init, AckInv

\* What a power cut leaves acknowledged is still there, and nobody is about
\* to return.
LEMMA AckPowerLoss ==
  ASSUME IInv, AckInv, NEW n \in synced..Len(ledger), PowerLoss(n)
  PROVE  AckInv'
  <1>1. /\ Len(ledger) \in Nat /\ n \in 0..Len(ledger)
        /\ ledger' = SubSeq(ledger, 1, n)
        /\ Len(ledger') = n /\ \A i \in 1..n : ledger'[i] = ledger[i]
    BY SubSeqProperties, LenProperties DEF PowerLoss, IInv, TypeOK
  <1>2. ASSUME NEW a \in acked' PROVE Recorded(a[1], a[2])'
    <2>1. a \in acked /\ \E i \in 1..Len(ledger') : ledger'[i].entry_hash = a[2]
      BY <1>2 DEF PowerLoss, ForgetUndone
    <2>2. PICK i \in 1..Len(ledger') : ledger'[i].entry_hash = a[2]
      BY <2>1
    <2>3. PICK j \in 1..Len(ledger) : ledger[j].entry_hash = a[2] /\ ledger[j].row = a[1]
      BY <2>1 DEF AckInv, Recorded
    <2>4. i \in 1..Len(ledger) /\ ledger'[i] = ledger[i]
      BY <1>1, <2>2
    <2>5. i = j
      BY <2>2, <2>3, <2>4 DEF IInv, HashesGrow
    <2>6. QED BY <2>2, <2>3, <2>4, <2>5 DEF Recorded
  <1>3. \A w \in Writers : pc'[w] = "idle"
    BY WritersAssumption DEF PowerLoss, Lose
  <1>4. \A w \in Writers : pc'[w] # "return"
    BY <1>3
  <1>5. QED BY <1>2, <1>4 DEF AckInv

LEMMA AckNext == IInv /\ AckInv /\ [Next]_vars => AckInv'
  <1> SUFFICES ASSUME IInv, AckInv, [Next]_vars,
                      \A n \in synced..Len(ledger) : ~PowerLoss(n)
               PROVE  AckInv'
    BY AckPowerLoss
  <1>1. ledger' = ledger \/ \E w \in Writers : Commit(w)
    BY DEF Next, WriterStep, Call, AcquirePathLock, BeginImmediate, BusyTimeout, ReadHead,
           Insert, RefuseFork, Fail, Return, Crash, Checkpoint, vars, table
  <1>2. ASSUME NEW a \in acked' PROVE Recorded(a[1], a[2])'
    <2>1. CASE a \in acked
      <3>1. Recorded(a[1], a[2])
        BY <2>1 DEF AckInv
      <3>2. QED BY <1>1, <3>1, RecordedStays
    <2>2. CASE a \notin acked
      <3>1. PICK w \in Writers : Return(w)
        BY <2>2, <1>2
           DEF Next, WriterStep, Call, AcquirePathLock, BeginImmediate, BusyTimeout,
               ReadHead, Insert, RefuseFork, Commit, Fail, Crash, Checkpoint, vars, observed
      <3>2. a = <<row[w], entry_hash(prev[w], row[w])>> /\ pc[w] = "return"
        BY <2>2, <1>2, <3>1 DEF Return
      <3>3. Recorded(a[1], a[2])
        BY <3>2 DEF AckInv
      <3>4. QED BY <1>1, <3>3, RecordedStays
    <2>3. QED BY <2>1, <2>2
  <1>3. ASSUME NEW w \in Writers, pc'[w] = "return"
        PROVE  Recorded(row[w], entry_hash(prev[w], row[w]))'
    <2>1. CASE Commit(w)
      <3> DEFINE e == NewEntry(ledger, prev[w], row[w])
      <3>1. draft[w] = <<e>> /\ ledger \in Seq(Entry) /\ row[w] \in Rows /\ prev[w] \in Hash
        BY <2>1 DEF Commit, IInv, LockInv, TypeOK
      <3>2. e \in Entry
        BY <3>1, NewEntryType
      <3>3. e.row = row[w] /\ e.entry_hash = entry_hash(prev[w], row[w])
        BY DEF NewEntry
      <3> HIDE DEF e
      <3>4. Len(ledger') = Len(ledger) + 1 /\ ledger'[Len(ledger) + 1] = e
        <4>1. ledger' = Append(ledger, e)
          BY <2>1, <3>1, <3>2, AppendIsConcat DEF Commit
        <4>2. QED BY <4>1, <3>1, <3>2, AppendProperties
      <3>5. Len(ledger) + 1 \in 1..Len(ledger')
        BY <3>1, <3>4, LenProperties
      <3>6. row'[w] = row[w] /\ prev'[w] = prev[w]
        BY <2>1 DEF Commit
      <3>7. QED BY <3>3, <3>4, <3>5, <3>6 DEF Recorded
    <2>2. CASE ~Commit(w)
      <3>1. pc[w] = "return" /\ row'[w] = row[w] /\ prev'[w] = prev[w]
        BY <1>3, <2>2, AckFrame
      <3>2. Recorded(row[w], entry_hash(prev[w], row[w]))
        BY <3>1 DEF AckInv
      <3>3. Recorded(row[w], entry_hash(prev[w], row[w]))'
        <4> DEFINE h == entry_hash(prev[w], row[w])
        <4>1. PICK i \in 1..Len(ledger) : ledger[i].entry_hash = h /\ ledger[i].row = row[w]
          BY <3>2 DEF Recorded
        <4>2. i \in 1..Len(ledger') /\ ledger'[i] = ledger[i]
          <5>1. CASE ledger' = ledger
            BY <5>1
          <5>2. ASSUME NEW v \in Writers, Commit(v)
                PROVE  i \in 1..Len(ledger') /\ ledger'[i] = ledger[i]
            BY <5>2, ConcatProperties, LenProperties DEF Commit, IInv, TypeOK
          <5>3. QED BY <1>1, <5>1, <5>2
        <4>3. QED BY <3>1, <4>1, <4>2 DEF Recorded
      <3>4. QED BY <3>3
    <2>3. QED BY <2>1, <2>2
  <1>4. QED BY <1>2, <1>3 DEF AckInv

\* A hash that append() returned leads to exactly one entry, holding the
\* caller's own row, whatever processes crash and whoever else appends, until
\* a power cut takes that entry.
THEOREM AckedAlwaysRecorded == Spec => []AckedIsRecorded
  <1>1. IInv /\ AckInv => AckedIsRecorded
    <2> SUFFICES ASSUME IInv, AckInv, NEW a \in acked
                 PROVE  \E i \in 1..Len(ledger) :
                          /\ ledger[i].entry_hash = a[2]
                          /\ ledger[i].row = a[1]
                          /\ \A j \in 1..Len(ledger) : ledger[j].entry_hash = a[2] => j = i
      BY DEF AckedIsRecorded
    <2>1. PICK i \in 1..Len(ledger) : ledger[i].entry_hash = a[2] /\ ledger[i].row = a[1]
      BY DEF AckInv, Recorded
    <2>2. \A j \in 1..Len(ledger) : ledger[j].entry_hash = a[2] => j = i
      BY <2>1 DEF IInv, HashesGrow
    <2>3. QED BY <2>1, <2>2
  <1>2. AckInv /\ IInv /\ [Next]_vars => AckInv'
    BY AckNext
  <1>3. QED BY <1>1, <1>2, AckInit, Invariance, PTL DEF Spec

-----------------------------------------------------------------------------
\* append() is atomic.  BEGIN IMMEDIATE, the read and the insert are invisible
\* outside the transaction; COMMIT is the step of the abstract log.
RowsOf(l) == [i \in 1..Len(l) |-> l[i].row]

Phase(s) == CASE s = "idle" -> "idle"
              [] s = "return" -> "recorded"
              [] OTHER -> "pending"

PhaseOf == [w \in Writers |-> Phase(pc[w])]

LEMMA AtomicInit == Init => AtomicLog!Init
  BY DEF Init, AtomicLog!Init, AtomicLog!AnyRow, AnyRow

LEMMA RowsAreRows ==
  ASSUME NEW l \in Seq(Entry)
  PROVE  \A i \in 1..Len(l) : l[i].row \in Rows
  <1>1. \A i \in 1..Len(l) : l[i] \in Entry
    BY ElementOfSeq
  <1>2. QED BY <1>1 DEF Entry

\* A step inside the transaction, or a wait for a lock, changes nothing that
\* the abstract log knows of.
LEMMA InsideStutters ==
  ASSUME TypeOK, NEW w \in Writers, NEW s \in States \ {"idle", "return"},
         pc[w] \in States \ {"idle", "return"},
         pc' = [pc EXCEPT ![w] = s], UNCHANGED <<table, row>>
  PROVE  UNCHANGED AtomicLog!vars
  <1>1. PhaseOf' = PhaseOf
    BY DEF TypeOK, PhaseOf, Phase, States
  <1>2. QED BY <1>1 DEF AtomicLog!vars, table, PhaseOf, Phase

\* Leaving from inside is the abstract refusal, leaving after COMMIT the
\* abstract confirmation.
LEMMA LeaveForgets ==
  ASSUME TypeOK, NEW w \in Writers, Leave(w), UNCHANGED table, pc[w] # "idle"
  PROVE  AtomicLog!Next
  <1>1. PhaseOf' = [PhaseOf EXCEPT ![w] = "idle"]
    BY DEF TypeOK, Leave, PhaseOf, Phase, States
  <1>2. AtomicLog!Forget(w)
    BY <1>1 DEF AtomicLog!Forget, AtomicLog!AnyRow, AnyRow, Leave, PhaseOf, Phase
  <1>3. PhaseOf[w] = "recorded" \/ PhaseOf[w] = "pending"
    BY DEF PhaseOf, Phase
  <1>4. AtomicLog!Confirm(w) \/ AtomicLog!Refuse(w)
    BY <1>2, <1>3 DEF AtomicLog!Confirm, AtomicLog!Refuse, PhaseOf, Phase, table
  <1>5. QED BY <1>4 DEF AtomicLog!Next

LEMMA LoseForgets ==
  ASSUME TypeOK, NEW S \in SUBSET Processes, Lose(S),
         NEW dead, dead = {w \in Writers : ProcessOf[w] \in S}
  PROVE  AtomicLog!ForgetAll(dead)
  <1>1. PhaseOf' = [w \in Writers |-> IF w \in dead THEN "idle" ELSE PhaseOf[w]]
    BY DEF TypeOK, Lose, PhaseOf, Phase, States
  <1>2. row' = [w \in Writers |-> IF w \in dead THEN AnyRow ELSE row[w]]
    BY DEF Lose
  <1>3. QED BY <1>1, <1>2 DEF AtomicLog!ForgetAll, AtomicLog!AnyRow, AnyRow, PhaseOf, Phase

LEMMA AtomicNext == IInv /\ [Next]_vars => [AtomicLog!Next]_(AtomicLog!vars)
  <1> SUFFICES ASSUME IInv, [Next]_vars
               PROVE  AtomicLog!Next \/ UNCHANGED AtomicLog!vars
    OBVIOUS
  <1>t. TypeOK
    BY DEF IInv
  <1>1. ASSUME NEW w \in Writers, NEW r \in Rows, Call(w, r) PROVE AtomicLog!Next
    <2>1. PhaseOf' = [PhaseOf EXCEPT ![w] = "pending"] /\ PhaseOf[w] = "idle"
      BY <1>1, <1>t DEF Call, TypeOK, PhaseOf, Phase, States
    <2>2. AtomicLog!Submit(w, r)
      BY <1>1, <2>1 DEF AtomicLog!Submit, Call, PhaseOf, Phase, table
    <2>3. QED BY <2>2 DEF AtomicLog!Next
  <1>2. ASSUME NEW w \in Writers, AcquirePathLock(w) PROVE UNCHANGED AtomicLog!vars
    BY <1>2, <1>t, InsideStutters DEF AcquirePathLock, States
  <1>3. ASSUME NEW w \in Writers, BeginImmediate(w) PROVE UNCHANGED AtomicLog!vars
    BY <1>3, <1>t, InsideStutters DEF BeginImmediate, States
  <1>4. ASSUME NEW w \in Writers, BusyTimeout(w) PROVE AtomicLog!Next
    BY <1>4, <1>t, LeaveForgets DEF BusyTimeout
  <1>5. ASSUME NEW w \in Writers, ReadHead(w) PROVE UNCHANGED AtomicLog!vars
    BY <1>5, <1>t, InsideStutters DEF ReadHead, States
  <1>6. ASSUME NEW w \in Writers, Insert(w)
        PROVE  AtomicLog!Next \/ UNCHANGED AtomicLog!vars
    <2>1. CASE Unique(ledger, NewEntry(ledger, prev[w], row[w]))
      BY <1>6, <2>1, <1>t, InsideStutters DEF Insert, States
    <2>2. CASE ~Unique(ledger, NewEntry(ledger, prev[w], row[w]))
      BY <1>6, <2>2, <1>t, LeaveForgets DEF Insert, RefuseFork
    <2>3. QED BY <2>1, <2>2
  <1>7. ASSUME NEW w \in Writers, Commit(w) PROVE AtomicLog!Next
    <2> DEFINE e == NewEntry(ledger, prev[w], row[w])
    <2>1. draft[w] = <<e>> /\ ledger \in Seq(Entry) /\ row[w] \in Rows /\ prev[w] \in Hash
      BY <1>7 DEF Commit, IInv, LockInv, TypeOK
    <2>2. e \in Entry /\ e.row = row[w]
      BY <2>1, NewEntryType DEF NewEntry
    <2> HIDE DEF e
    <2>3. ledger' = Append(ledger, e)
      BY <1>7, <2>1, <2>2, AppendIsConcat DEF Commit
    <2>4. RowsOf(ledger') = Append(RowsOf(ledger), row[w])
      <3>1. /\ Len(ledger) \in Nat /\ Len(ledger') = Len(ledger) + 1
            /\ \A i \in 1..Len(ledger) : ledger'[i] = ledger[i]
            /\ ledger'[Len(ledger) + 1] = e
        BY <2>1, <2>2, <2>3, AppendProperties, LenProperties
      <3>2. \A i \in 1..Len(ledger) : ledger[i].row \in Rows
        BY <2>1, RowsAreRows
      <3>3. RowsOf(ledger) \in Seq(Rows) /\ Len(RowsOf(ledger)) = Len(ledger)
        BY <3>1, <3>2 DEF RowsOf
      <3>4. RowsOf(ledger') \in Seq(Rows) /\ Len(RowsOf(ledger')) = Len(ledger) + 1
        BY <3>1, <3>2, <2>1, <2>2 DEF RowsOf
      <3>5. /\ Append(RowsOf(ledger), row[w]) \in Seq(Rows)
            /\ Len(Append(RowsOf(ledger), row[w])) = Len(ledger) + 1
        BY <3>3, <2>1, AppendProperties
      <3>6. ASSUME NEW i \in 1..(Len(ledger) + 1)
            PROVE  RowsOf(ledger')[i] = Append(RowsOf(ledger), row[w])[i]
        BY <3>1, <3>3, <2>1, <2>2, AppendProperties DEF RowsOf
      <3>7. QED BY <3>4, <3>5, <3>6, SeqEqual
    <2>5. PhaseOf' = [PhaseOf EXCEPT ![w] = "recorded"] /\ PhaseOf[w] = "pending"
      BY <1>7, <1>t DEF Commit, TypeOK, PhaseOf, Phase, States
    <2>6. AtomicLog!Record(w)
      BY <1>7, <2>4, <2>5 DEF AtomicLog!Record, Commit, PhaseOf, Phase, RowsOf
    <2>7. QED BY <2>6 DEF AtomicLog!Next
  <1>8. ASSUME NEW w \in Writers, Fail(w) PROVE AtomicLog!Next
    BY <1>8, <1>t, LeaveForgets DEF Fail
  <1>9. ASSUME NEW w \in Writers, Return(w) PROVE AtomicLog!Next
    BY <1>9, <1>t, LeaveForgets DEF Return
  <1>10. ASSUME NEW p \in Processes, Crash(p) PROVE AtomicLog!Next
    <2> DEFINE dead == {w \in Writers : ProcessOf[w] \in {p}}
    <2>1. AtomicLog!ForgetAll(dead)
      BY <1>10, <1>t, LoseForgets DEF Crash
    <2>2. AtomicLog!Restart(dead)
      BY <1>10, <2>1 DEF AtomicLog!Restart, Crash, table
    <2>3. QED BY <2>2 DEF AtomicLog!Next
  <1>11. ASSUME Checkpoint PROVE AtomicLog!Next
    <2>1. Len(RowsOf(ledger)) = Len(ledger)
      BY <1>t, LenProperties DEF TypeOK, RowsOf
    <2>2. AtomicLog!Sync
      BY <1>11, <2>1 DEF AtomicLog!Sync, Checkpoint, RowsOf
    <2>3. QED BY <2>2 DEF AtomicLog!Next
  <1>12. ASSUME NEW n \in synced..Len(ledger), PowerLoss(n) PROVE AtomicLog!Next
    <2>1. Len(ledger) \in Nat /\ n \in 0..Len(ledger) /\ ledger \in Seq(Entry)
      BY <1>t, LenProperties DEF TypeOK
    <2>2. Len(RowsOf(ledger)) = Len(ledger)
      BY <2>1 DEF RowsOf
    <2>3. RowsOf(ledger') = SubSeq(RowsOf(ledger), 1, n)
      <3>1. /\ Len(ledger') = n /\ \A i \in 1..n : ledger'[i] = ledger[i]
        BY <1>12, <2>1, SubSeqProperties DEF PowerLoss
      <3>2. \A i \in 1..Len(ledger) : ledger[i].row \in Rows
        BY <2>1, RowsAreRows
      <3>3. RowsOf(ledger) \in Seq(Rows)
        BY <2>1, <3>2 DEF RowsOf
      <3>4. SubSeq(RowsOf(ledger), 1, n) = [i \in 1..n |-> ledger[i].row]
        <4>1. /\ SubSeq(RowsOf(ledger), 1, n) \in Seq(Rows)
              /\ Len(SubSeq(RowsOf(ledger), 1, n)) = n
              /\ \A i \in 1..n : SubSeq(RowsOf(ledger), 1, n)[i] = RowsOf(ledger)[i]
          BY <2>1, <2>2, <3>3, SubSeqProperties
        <4>2. [i \in 1..n |-> ledger[i].row] \in Seq(Rows)
              /\ Len([i \in 1..n |-> ledger[i].row]) = n
          BY <2>1, <3>2
        <4>3. \A i \in 1..n : RowsOf(ledger)[i] = ledger[i].row
          BY <2>1 DEF RowsOf
        <4>4. QED BY <4>1, <4>2, <4>3, SeqEqual
      <3>5. RowsOf(ledger') = [i \in 1..n |-> ledger[i].row]
        BY <3>1 DEF RowsOf
      <3>6. QED BY <3>4, <3>5
    <2>4. AtomicLog!ForgetAll(Writers)
      <3>1. Writers = {w \in Writers : ProcessOf[w] \in Processes}
        BY WritersAssumption
      <3>2. QED BY <1>12, <1>t, <3>1, LoseForgets DEF PowerLoss
    <2>5. AtomicLog!PowerLoss(n)
      BY <1>12, <2>3, <2>4 DEF AtomicLog!PowerLoss, PowerLoss, RowsOf
    <2>6. n \in synced..Len(RowsOf(ledger))
      BY <2>2
    <2>7. QED BY <2>5, <2>6 DEF AtomicLog!Next, RowsOf
  <1>13. ASSUME UNCHANGED vars PROVE UNCHANGED AtomicLog!vars
    BY <1>13 DEF vars, AtomicLog!vars
  <1>14. QED
    BY <1>1, <1>2, <1>3, <1>4, <1>5, <1>6, <1>7, <1>8, <1>9, <1>10, <1>11, <1>12, <1>13
       DEF Next, WriterStep

\* append() behaves as one atomic step of the abstract append-only log: a
\* call that returns recorded its row once, a call that raised recorded
\* nothing, and only a power cut can take an unsynced tail back.
THEOREM AppendIsAtomic == Spec => Atomic
  BY AtomicInit, AtomicNext, Invariance, PTL DEF Spec, Atomic, AtomicLog!Spec
=============================================================================
