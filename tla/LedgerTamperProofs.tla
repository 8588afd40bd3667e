------------------------- MODULE LedgerTamperProofs -------------------------
(***************************************************************************)
(* Theorems about LedgerTamper for any number of operators, rows and edits *)
(* and a ledger of any length.                                             *)
(*                                                                         *)
(* An edit changes a row and never a stored hash.  So, whatever has been   *)
(* edited, each stored hash still commits to the row that was *written*,   *)
(* and verify() disagrees with an entry exactly when its row is another.   *)
(***************************************************************************)
EXTENDS LedgerTamper, SequenceTheorems, TLAPS

\* What no edit can touch: the positions, the links and the hashes, which are
\* those of the rows as append() wrote them.
StoredChain ==
  \A i \in 1..Len(ledger) :
    /\ ledger[i].seq = i
    /\ ledger[i].prev_hash = StoredHashBefore(ledger, i)
    /\ ledger[i].entry_hash = Append(StoredHashBefore(ledger, i), written[i])

\* A command that goes ahead has an entry to edit.
EntriesExist == \A o \in Operators : pc[o] # "idle" => entry[o] \in 1..Len(ledger)

\* While the trigger is away, somebody is going to put it back or has given up.
TriggerInv == trigger \/ abandoned \/ \E o \in Operators : pc[o] \in {"update", "create"}

IInv == TypeOK /\ StoredChain /\ EntriesExist /\ TriggerInv

-----------------------------------------------------------------------------
LEMMA AnyRowIsRow == AnyRow \in Rows
  BY TamperAssumption DEF AnyRow

LEMMA HashBeforeType ==
  ASSUME NEW l \in Seq(Entry), NEW i \in 1..(Len(l) + 1)
  PROVE  StoredHashBefore(l, i) \in Hash
  <1>1. CASE i = 1
    <2>1. <<>> \in Seq(Rows)
      OBVIOUS
    <2>2. QED BY <1>1, <2>1 DEF StoredHashBefore, GENESIS, Hash
  <1>2. CASE i # 1
    <2>1. i - 1 \in 1..Len(l)
      BY <1>2, LenProperties
    <2>2. l[i - 1] \in Entry
      BY <2>1, ElementOfSeq
    <2>3. QED BY <1>2, <2>2 DEF StoredHashBefore, Entry
  <1>3. QED BY <1>1, <1>2

\* The head is the stored hash before the entry to come.
LEMMA HeadIsBefore ==
  ASSUME NEW l \in Seq(Entry)
  PROVE  head_hash(l) = StoredHashBefore(l, Len(l) + 1)
  <1>1. CASE l = <<>>
    BY <1>1 DEF head_hash, StoredHashBefore
  <1>2. CASE l # <<>>
    <2>1. Len(l) \in Nat \ {0}
      BY <1>2, EmptySeq
    <2>2. QED BY <1>2, <2>1 DEF head_hash, StoredHashBefore
  <1>3. QED BY <1>1, <1>2

-----------------------------------------------------------------------------
\* What the steps do to the stored chain.

\* append() links its entry to the head, edited or not.
LEMMA AppendStep ==
  ASSUME IInv, NEW r \in Rows, AppendRow(r)
  PROVE  /\ ledger' \in Seq(Entry) /\ written' \in Seq(Rows \ FloatRows)
         /\ Len(ledger') = Len(ledger) + 1 /\ Len(written') = Len(ledger')
         /\ StoredChain'
  <1> DEFINE n == Len(ledger)
             h == head_hash(ledger)
             e == NewEntry(ledger, h, r)
  <1>1. /\ ledger \in Seq(Entry) /\ written \in Seq(Rows \ FloatRows)
        /\ n \in Nat /\ Len(written) = n /\ r \in Rows \ FloatRows
    BY LenProperties DEF IInv, TypeOK, AppendRow
  <1>2. h = StoredHashBefore(ledger, n + 1) /\ h \in Hash
    BY <1>1, HeadIsBefore, HashBeforeType
  <1>3. e \in Entry /\ e.seq = n + 1 /\ e.prev_hash = h /\ e.entry_hash = Append(h, r)
    <2>1. Append(h, r) \in Hash
      BY <1>2, AppendProperties DEF Hash
    <2> HIDE DEF h
    <2>2. QED BY <1>1, <2>1, <1>2 DEF NewEntry, Entry, entry_hash
  <1>4. ledger' = Append(ledger, e) /\ written' = Append(written, r)
    BY DEF AppendRow
  <1> HIDE DEF e, h
  <1>5. /\ ledger' \in Seq(Entry) /\ Len(ledger') = n + 1
        /\ ledger'[n + 1] = e /\ \A i \in 1..n : ledger'[i] = ledger[i]
    BY <1>1, <1>3, <1>4, AppendProperties
  <1>6. /\ written' \in Seq(Rows \ FloatRows) /\ Len(written') = n + 1
        /\ written'[n + 1] = r /\ \A i \in 1..n : written'[i] = written[i]
    BY <1>1, <1>4, AppendProperties
  <1>7. \A i \in 1..(n + 1) : StoredHashBefore(ledger', i) = StoredHashBefore(ledger, i)
    BY <1>1, <1>5 DEF StoredHashBefore
  <1>8. ASSUME NEW i \in 1..(n + 1)
        PROVE  /\ ledger'[i].seq = i
               /\ ledger'[i].prev_hash = StoredHashBefore(ledger', i)
               /\ ledger'[i].entry_hash = Append(StoredHashBefore(ledger', i), written'[i])
    <2>1. CASE i = n + 1
      BY <2>1, <1>2, <1>3, <1>5, <1>6, <1>7
    <2>2. CASE i # n + 1
      <3>1. i \in 1..n
        BY <2>2, <1>1
      <3>2. QED BY <3>1, <1>5, <1>6, <1>7 DEF IInv, StoredChain
    <2>3. QED BY <2>1, <2>2
  <1>9. QED BY <1>5, <1>6, <1>8 DEF StoredChain

\* An edit leaves what StoredChain speaks of as it is.
LEMMA EditStep ==
  ASSUME IInv, NEW k \in 1..Len(ledger), NEW r \in Rows,
         ledger' = [ledger EXCEPT ![k].row = r], written' = written
  PROVE  ledger' \in Seq(Entry) /\ Len(ledger') = Len(ledger) /\ StoredChain'
  <1> DEFINE e == [ledger[k] EXCEPT !.row = r]
  <1>1. ledger \in Seq(Entry) /\ Len(ledger) \in Nat
    BY LenProperties DEF IInv, TypeOK
  <1>2. ledger[k] \in Entry
    BY <1>1, ElementOfSeq
  <1>3. /\ e \in Entry /\ e.seq = ledger[k].seq
        /\ e.prev_hash = ledger[k].prev_hash /\ e.entry_hash = ledger[k].entry_hash
    BY <1>2 DEF Entry
  <1>4. ledger' = [ledger EXCEPT ![k] = e]
    BY <1>1
  <1> HIDE DEF e
  <1>5. /\ ledger' \in Seq(Entry) /\ Len(ledger') = Len(ledger)
        /\ \A i \in 1..Len(ledger) : ledger'[i] = IF i = k THEN e ELSE ledger[i]
    BY <1>1, <1>3, <1>4, ExceptSeq
  <1>6. \A i \in 1..Len(ledger) : /\ ledger'[i].seq = ledger[i].seq
                                  /\ ledger'[i].prev_hash = ledger[i].prev_hash
                                  /\ ledger'[i].entry_hash = ledger[i].entry_hash
    BY <1>3, <1>5
  <1>7. \A i \in 1..Len(ledger) : StoredHashBefore(ledger', i) = StoredHashBefore(ledger, i)
    BY <1>1, <1>6 DEF StoredHashBefore
  <1>8. ASSUME NEW i \in 1..Len(ledger)
        PROVE  /\ ledger'[i].seq = i
               /\ ledger'[i].prev_hash = StoredHashBefore(ledger', i)
               /\ ledger'[i].entry_hash = Append(StoredHashBefore(ledger', i), written'[i])
    BY <1>6, <1>7 DEF IInv, StoredChain
  <1>9. QED BY <1>5, <1>8 DEF StoredChain

\* A step that leaves the rows alone leaves the stored chain alone.
LEMMA ChainFrame ==
  ASSUME StoredChain, UNCHANGED <<ledger, written>>
  PROVE  StoredChain'
  BY DEF StoredChain

-----------------------------------------------------------------------------
LEMMA InvInit == Init => IInv
  <1> SUFFICES ASSUME Init PROVE IInv
    OBVIOUS
  <1>1. ledger = <<>> /\ written = <<>> /\ Len(ledger) = 0
    BY DEF Init
  <1>2. TypeOK
    <2>1. ledger \in Seq(Entry) /\ written \in Seq(Rows \ FloatRows) /\ Len(written) = Len(ledger)
      BY <1>1
    <2>2. 0 \in 0..Len(ledger)
      BY <1>1
    <2>3. QED BY <2>1, <2>2, AnyRowIsRow DEF Init, TypeOK
  <1>3. StoredChain /\ EntriesExist /\ TriggerInv
    BY <1>1 DEF Init, StoredChain, EntriesExist, TriggerInv
  <1>4. QED BY <1>2, <1>3 DEF IInv

\* A command that is over.
LEMMA FinishType ==
  ASSUME TypeOK, NEW o \in Operators, Finish(o), Len(ledger') = Len(ledger)
  PROVE  /\ pc' \in [Operators -> {"idle", "drop", "update", "create"}]
         /\ entry' \in [Operators -> 0..Len(ledger')]
         /\ value' \in [Operators -> Rows]
  <1>1. 0 \in 0..Len(ledger')
    BY LenProperties DEF TypeOK
  <1>2. QED BY <1>1, AnyRowIsRow DEF TypeOK, Finish

LEMMA InvNext == IInv /\ [Next]_vars => IInv'
  <1> SUFFICES ASSUME IInv, [Next]_vars PROVE IInv'
    OBVIOUS
  <1>1. ledger \in Seq(Entry) /\ Len(ledger) \in Nat
    BY LenProperties DEF IInv, TypeOK
  <1>2. ASSUME NEW r \in Rows, AppendRow(r) PROVE IInv'
    <2>1. /\ ledger' \in Seq(Entry) /\ written' \in Seq(Rows \ FloatRows)
          /\ Len(ledger') = Len(ledger) + 1 /\ Len(written') = Len(ledger') /\ StoredChain'
      BY <1>2, AppendStep
    <2>2. UNCHANGED <<trigger, pc, entry, value, abandoned>>
      BY <1>2 DEF AppendRow
    <2>3. 0..Len(ledger) \subseteq 0..Len(ledger') /\ 1..Len(ledger) \subseteq 1..Len(ledger')
      BY <1>1, <2>1
    <2>4. TypeOK'
      BY <2>1, <2>2, <2>3 DEF IInv, TypeOK
    <2>5. QED BY <2>1, <2>2, <2>3, <2>4 DEF IInv, EntriesExist, TriggerInv
  <1>3. ASSUME NEW o \in Operators, NEW i \in 1..Len(ledger), NEW r \in Rows, Start(o, i, r)
        PROVE  IInv'
    <2>1. i \in 0..Len(ledger)
      BY <1>1
    <2>2. TypeOK'
      BY <1>3, <2>1 DEF IInv, TypeOK, Start
    <2>3. StoredChain'
      BY <1>3, ChainFrame DEF IInv, Start
    <2>4. EntriesExist'
      BY <1>3 DEF IInv, TypeOK, EntriesExist, Start
    <2>5. TriggerInv'
      BY <1>3 DEF IInv, TypeOK, TriggerInv, Start
    <2>6. QED BY <2>2, <2>3, <2>4, <2>5 DEF IInv
  <1>4. ASSUME NEW o \in Operators, DropTrigger(o) PROVE IInv'
    <2>1. TypeOK'
      BY <1>4 DEF IInv, TypeOK, DropTrigger
    <2>2. StoredChain'
      BY <1>4, ChainFrame DEF IInv, DropTrigger
    <2>3. EntriesExist' /\ TriggerInv'
      BY <1>4 DEF IInv, TypeOK, EntriesExist, TriggerInv, DropTrigger
    <2>4. QED BY <2>1, <2>2, <2>3 DEF IInv
  <1>5. ASSUME NEW o \in Operators, Update(o) PROVE IInv'
    <2>1. CASE trigger
      <3>1. Finish(o) /\ UNCHANGED <<ledger, written, trigger, abandoned>>
        BY <1>5, <2>1 DEF Update
      <3>2. TypeOK'
        BY <3>1, FinishType DEF IInv, TypeOK
      <3>3. StoredChain'
        BY <3>1, ChainFrame DEF IInv
      <3>4. EntriesExist' /\ TriggerInv'
        BY <2>1, <3>1 DEF IInv, TypeOK, EntriesExist, TriggerInv, Finish
      <3>5. QED BY <3>2, <3>3, <3>4 DEF IInv
    <2>2. CASE ~trigger
      <3>1. /\ ledger' = [ledger EXCEPT ![entry[o]].row = value[o]]
            /\ pc' = [pc EXCEPT ![o] = "create"]
            /\ UNCHANGED <<written, trigger, entry, value, abandoned>>
        BY <1>5, <2>2 DEF Update
      <3>2. entry[o] \in 1..Len(ledger) /\ value[o] \in Rows
        BY <1>5 DEF IInv, TypeOK, EntriesExist, Update
      <3>3. ledger' \in Seq(Entry) /\ Len(ledger') = Len(ledger) /\ StoredChain'
        BY <3>1, <3>2, EditStep
      <3>4. TypeOK'
        BY <3>1, <3>3 DEF IInv, TypeOK
      <3>5. EntriesExist' /\ TriggerInv'
        BY <1>5, <3>1, <3>3 DEF IInv, TypeOK, EntriesExist, TriggerInv, Update
      <3>6. QED BY <3>3, <3>4, <3>5 DEF IInv
    <2>3. QED BY <2>1, <2>2
  <1>6. ASSUME NEW o \in Operators, CreateTrigger(o) PROVE IInv'
    <2>1. Finish(o) /\ trigger' = TRUE /\ UNCHANGED <<ledger, written, abandoned>>
      BY <1>6 DEF CreateTrigger
    <2>2. TypeOK'
      BY <2>1, FinishType DEF IInv, TypeOK
    <2>3. StoredChain'
      BY <2>1, ChainFrame DEF IInv
    <2>4. EntriesExist' /\ TriggerInv'
      BY <2>1 DEF IInv, TypeOK, EntriesExist, TriggerInv, Finish
    <2>5. QED BY <2>2, <2>3, <2>4 DEF IInv
  <1>7. ASSUME NEW o \in Operators, Stop(o) PROVE IInv'
    <2>1. Finish(o) /\ abandoned' = TRUE /\ UNCHANGED <<ledger, written, trigger>>
      BY <1>7 DEF Stop
    <2>2. TypeOK'
      BY <2>1, FinishType DEF IInv, TypeOK
    <2>3. StoredChain'
      BY <2>1, ChainFrame DEF IInv
    <2>4. EntriesExist' /\ TriggerInv'
      BY <2>1 DEF IInv, TypeOK, EntriesExist, TriggerInv, Finish
    <2>5. QED BY <2>2, <2>3, <2>4 DEF IInv
  <1>8. CASE UNCHANGED vars
    BY <1>8, ChainFrame DEF IInv, TypeOK, EntriesExist, TriggerInv, vars
  <1>9. QED BY <1>2, <1>3, <1>4, <1>5, <1>6, <1>7, <1>8 DEF Next

LEMMA Invariance == Spec => []IInv
  BY InvInit, InvNext, PTL DEF Spec

-----------------------------------------------------------------------------
\* Every variable of the tampering model keeps its type.
THEOREM TypeCorrect == Spec => []TypeOK
  <1>1. IInv => TypeOK
    BY DEF IInv
  <1>2. QED BY <1>1, Invariance, PTL

\* The recomputed hash of an entry is the stored one exactly if its row is
\* the one that was written.
LEMMA BadIsAltered ==
  ASSUME IInv, NEW i \in 1..Len(ledger)
  PROVE  (~EntryOK(ledger, i) \/ ledger[i].row \in FloatRows) <=> ledger[i].row # written[i]
  <1> DEFINE h == StoredHashBefore(ledger, i)
             r == ledger[i].row
             w == written[i]
  <1>1. ledger \in Seq(Entry) /\ written \in Seq(Rows \ FloatRows) /\ i \in 1..Len(written)
    BY DEF IInv, TypeOK
  <1>2. ledger[i] \in Entry /\ w \in Rows \ FloatRows
    BY <1>1, ElementOfSeq
  <1>3. r \in Rows
    BY <1>2 DEF Entry
  <1>4. h \in Seq(Rows)
    BY <1>1, HashBeforeType, LenProperties DEF Hash
  <1>5. EntryOK(ledger, i) <=> Append(h, w) = Append(h, r)
    BY DEF IInv, StoredChain, EntryOK, entry_hash
  <1> HIDE DEF h, r, w
  <1>6. Append(h, w) = Append(h, r) <=> w = r
    BY <1>2, <1>3, <1>4, AppendInjective
  <1>7. QED BY <1>2, <1>5, <1>6 DEF r, w

\* For any number of operators, edits, undone edits and appends on top of
\* them: verify() stops at the first entry that is not what was written.
THEOREM TamperAlwaysPinpointed == Spec => []TamperIsPinpointed
  <1>1. IInv => TamperIsPinpointed
    <2> SUFFICES ASSUME IInv PROVE TamperIsPinpointed
      OBVIOUS
    <2>1. {i \in 1..Len(ledger) : ~EntryOK(ledger, i) \/ ledger[i].row \in FloatRows} = Altered
      BY BadIsAltered DEF Altered
    <2>2. QED BY <2>1 DEF TamperIsPinpointed, StoppedAt
  <1>2. QED BY <1>1, Invariance, PTL

\* However any number of commands interleave, once all of them are over the
\* append-only trigger is back, unless one of them stopped half-way.
THEOREM TriggerAlwaysRestored == Spec => []TriggerIsRestored
  <1>1. IInv => TriggerIsRestored
    BY DEF IInv, TriggerInv, TriggerIsRestored
  <1>2. QED BY <1>1, Invariance, PTL
=============================================================================
