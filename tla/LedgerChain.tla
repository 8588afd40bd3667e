---------------------------- MODULE LedgerChain ----------------------------
(***************************************************************************)
(* The hash-chained ledger of praman/ledger: append(), verify(), the two   *)
(* locks that serialise writers, and the SQLite file beneath them.         *)
(*                                                                         *)
(* A writer is a thread with its own connection.  Threads of one process   *)
(* share one threading.Lock per ledger path; processes share only the      *)
(* file, and meet at SQLite's write lock (BEGIN IMMEDIATE).                 *)
(*                                                                         *)
(* Rows are what append() is handed, all FIELDS present.                   *)
(***************************************************************************)
EXTENDS HashChain, FiniteSets

CONSTANTS Writers,     \* threads that append
          Processes,   \* operating system processes
          ProcessOf,   \* the process of each writer
          NoOne,       \* the holder of a free lock
          FloatRows,   \* those that hold a float somewhere
          PowerFails,  \* may the machine lose power?
          MaxEntries   \* bound: no call starts on a ledger this long

ASSUME WritersAssumption ==
  /\ ProcessOf \in [Writers -> Processes]
  /\ NoOne \notin Writers
ASSUME RowsAssumption == Rows # {} /\ FloatRows \subseteq Rows
ASSUME PowerAssumption == PowerFails \in BOOLEAN
ASSUME BoundAssumption == MaxEntries \in Nat

VARIABLES ledger,        \* the committed table, in seq order
          synced,        \* entries the last WAL checkpoint put in the database file
          writeLock,     \* holder of SQLite's write lock
          pathLock,      \* holder of each process's _PATH_LOCKS entry
          pc,            \* the next statement of each writer's append()
          row,           \* its argument
          prev,          \* its local `prev`
          draft,         \* the rows its open transaction has inserted
          acked,         \* <<row, hash>> of calls that returned, less those a power
                         \* cut undid: a history variable
          forkAttempts,  \* LEDGER_FORK_ATTEMPTS
          gauge          \* LEDGER_ENTRIES, one per process

vars == <<ledger, synced, writeLock, pathLock, pc, row, prev, draft, acked,
          forkAttempts, gauge>>

-----------------------------------------------------------------------------
AnyRow == CHOOSE r \in Rows : TRUE

Init ==
  /\ ledger = <<>>
  /\ synced = 0
  /\ writeLock = NoOne
  /\ pathLock = [p \in Processes |-> NoOne]
  /\ pc = [w \in Writers |-> "idle"]
  /\ row = [w \in Writers |-> AnyRow]
  /\ prev = [w \in Writers |-> GENESIS]
  /\ draft = [w \in Writers |-> <<>>]
  /\ acked = {}
  /\ forkAttempts = 0
  /\ gauge = [p \in Processes |-> 0]

table == <<ledger, synced>>
observed == <<acked, forkAttempts, gauge>>

\* append(conn, row) is called.  A row with a missing field raises KeyError
\* here, before any lock: nothing changes.
Call(w, r) ==
  /\ pc[w] = "idle"
  /\ Len(ledger) < MaxEntries
  /\ pc' = [pc EXCEPT ![w] = "lock"]
  /\ row' = [row EXCEPT ![w] = r]
  /\ UNCHANGED <<table, writeLock, pathLock, prev, draft, observed>>

\* with _lock_for(conn):
AcquirePathLock(w) ==
  /\ pc[w] = "lock"
  /\ pathLock[ProcessOf[w]] = NoOne
  /\ pathLock' = [pathLock EXCEPT ![ProcessOf[w]] = w]
  /\ pc' = [pc EXCEPT ![w] = "begin"]
  /\ UNCHANGED <<table, writeLock, row, prev, draft, observed>>

\* A plausible slip: the statements run without the write lock.
BeginDeferred(w) ==
  /\ pc[w] = "begin"
  /\ pc' = [pc EXCEPT ![w] = "head"]
  /\ UNCHANGED <<table, writeLock, pathLock, row, prev, draft, observed>>

\* BEGIN IMMEDIATE waits for the write lock ...
BeginImmediate(w) ==
  /\ pc[w] = "begin"
  /\ writeLock = NoOne
  /\ writeLock' = w
  /\ pc' = [pc EXCEPT ![w] = "head"]
  /\ UNCHANGED <<table, pathLock, row, prev, draft, observed>>

\* The call is over, with or without a result: `with` gives the path lock
\* back and the locals are gone.
Leave(w) ==
  /\ pathLock' = [pathLock EXCEPT ![ProcessOf[w]] = NoOne]
  /\ pc' = [pc EXCEPT ![w] = "idle"]
  /\ row' = [row EXCEPT ![w] = AnyRow]
  /\ prev' = [prev EXCEPT ![w] = GENESIS]
  /\ draft' = [draft EXCEPT ![w] = <<>>]

\* A plausible slip: acquire() and release() instead of `with`, and no
\* release on this path.
BusyTimeoutKeepsLock(w) ==
  /\ pc[w] = "begin"
  /\ writeLock # NoOne
  /\ pc' = [pc EXCEPT ![w] = "idle"]
  /\ row' = [row EXCEPT ![w] = AnyRow]
  /\ UNCHANGED <<table, writeLock, pathLock, prev, draft, observed>>

\* ... or raises `database is locked` after _BUSY_TIMEOUT_MS.  This is
\* outside the try, so there is no ROLLBACK.
BusyTimeout(w) ==
  /\ pc[w] = "begin"
  /\ writeLock # NoOne
  /\ Leave(w)
  /\ UNCHANGED <<table, writeLock, observed>>

\* prev = head_hash(conn)
ReadHead(w) ==
  /\ pc[w] = "head"
  /\ prev' = [prev EXCEPT ![w] = head_hash(ledger)]
  /\ pc' = [pc EXCEPT ![w] = "insert"]
  /\ UNCHANGED <<table, writeLock, pathLock, row, draft, observed>>

\* except sqlite3.IntegrityError: ROLLBACK, count it, raise.
RefuseFork(w) ==
  /\ writeLock' = NoOne
  /\ forkAttempts' = forkAttempts + 1
  /\ Leave(w)
  /\ UNCHANGED <<table, acked, gauge>>

\* A plausible slip: the result is handed out before COMMIT.
InsertAndAck(w) ==
  LET e == NewEntry(ledger, prev[w], row[w]) IN
  /\ pc[w] = "insert"
  /\ row[w] \notin FloatRows
  /\ draft' = [draft EXCEPT ![w] = <<e>>]
  /\ acked' = acked \union {<<row[w], e.entry_hash>>}
  /\ pc' = [pc EXCEPT ![w] = "commit"]
  /\ UNCHANGED <<table, writeLock, pathLock, row, prev, forkAttempts, gauge>>

\* A plausible slip: no transaction is open, so the INSERT commits by itself
\* and a ROLLBACK has nothing to undo.
InsertAutocommitting(w) ==
  /\ pc[w] = "insert"
  /\ row[w] \notin FloatRows
  /\ ledger' = Append(ledger, NewEntry(ledger, prev[w], row[w]))
  /\ pc' = [pc EXCEPT ![w] = "commit"]
  /\ UNCHANGED <<synced, writeLock, pathLock, row, prev, draft, observed>>

\* h = entry_hash(prev, row); INSERT.  INTEGER PRIMARY KEY numbers the row
\* one past the largest seq, and no row is ever deleted.
Insert(w) ==
  LET e == NewEntry(ledger, prev[w], row[w]) IN
  /\ pc[w] = "insert"
  /\ row[w] \notin FloatRows
  /\ IF Unique(ledger, e)
     THEN /\ draft' = [draft EXCEPT ![w] = <<e>>]
          /\ pc' = [pc EXCEPT ![w] = "commit"]
          /\ UNCHANGED <<table, writeLock, pathLock, row, prev, observed>>
     ELSE RefuseFork(w)

Commit(w) ==
  /\ pc[w] = "commit"
  /\ ledger' = ledger \o draft[w]
  /\ writeLock' = NoOne
  /\ draft' = [draft EXCEPT ![w] = <<>>]
  /\ pc' = [pc EXCEPT ![w] = "return"]
  /\ UNCHANGED <<synced, pathLock, row, prev, observed>>

\* except Exception: ROLLBACK and raise.  canonical_bytes() raises on a float;
\* storage may raise at any statement.
Fail(w) ==
  /\ pc[w] \in {"head", "insert", "commit"}
  /\ writeLock' = NoOne
  /\ Leave(w)
  /\ UNCHANGED <<table, observed>>

\* The lock is released, LEDGER_ENTRIES.inc() runs and h is returned; when h
\* is this call's entry hash, entry_hash(prev, row).
Return(w) ==
  /\ pc[w] = "return"
  /\ Leave(w)
  /\ acked' = acked \union {<<row[w], entry_hash(prev[w], row[w])>>}
  /\ gauge' = [gauge EXCEPT ![ProcessOf[w]] = @ + 1]
  /\ UNCHANGED <<table, writeLock, forkAttempts>>

-----------------------------------------------------------------------------
\* Everything the processes in S held in memory is gone, and SQLite rolls
\* their open transactions back.
Lose(S) ==
  LET dead == {w \in Writers : ProcessOf[w] \in S} IN
  /\ writeLock' = IF writeLock \in dead THEN NoOne ELSE writeLock
  /\ pathLock' = [p \in Processes |-> IF p \in S THEN NoOne ELSE pathLock[p]]
  /\ pc' = [w \in Writers |-> IF w \in dead THEN "idle" ELSE pc[w]]
  /\ row' = [w \in Writers |-> IF w \in dead THEN AnyRow ELSE row[w]]
  /\ prev' = [w \in Writers |-> IF w \in dead THEN GENESIS ELSE prev[w]]
  /\ draft' = [w \in Writers |-> IF w \in dead THEN <<>> ELSE draft[w]]
  /\ gauge' = [p \in Processes |-> IF p \in S THEN 0 ELSE gauge[p]]

\* A process dies and is started again.
Crash(p) ==
  /\ Lose({p})
  /\ UNCHANGED <<table, acked, forkAttempts>>

\* SQLite copies the write-ahead log into the database file, and syncs.
Checkpoint ==
  /\ synced' = Len(ledger)
  /\ UNCHANGED <<ledger, writeLock, pathLock, pc, row, prev, draft, observed>>

\* What returned and is not in the table any more was undone.
ForgetUndone ==
  acked' = {a \in acked : \E i \in 1..Len(ledger') : ledger'[i].entry_hash = a[2]}

\* A plausible slip: synchronous=OFF, which orders no write before another, so
\* any pages may be missing.
PowerLossUnordered(n) ==
  /\ PowerFails
  /\ \E kept \in SUBSET (1..n) :
       ledger' = [i \in 1..Cardinality(kept) |->
                    ledger[CHOOSE k \in kept : Cardinality({j \in kept : j < k}) = i - 1]]
  /\ Lose(Processes)
  /\ ForgetUndone
  /\ UNCHANGED <<synced, forkAttempts>>

\* synchronous=NORMAL does not sync the write-ahead log at COMMIT: what the
\* machine finds again is the database file and some prefix of that log.
PowerLoss(n) ==
  /\ PowerFails
  /\ ledger' = SubSeq(ledger, 1, n)
  /\ Lose(Processes)
  /\ ForgetUndone
  /\ UNCHANGED <<synced, forkAttempts>>

WriterStep(w) ==
  \/ AcquirePathLock(w)
  \/ BeginImmediate(w)
  \/ BusyTimeout(w)
  \/ ReadHead(w)
  \/ Insert(w)
  \/ Commit(w)
  \/ Fail(w)
  \/ Return(w)

Next ==
  \/ \E w \in Writers : \/ \E r \in Rows : Call(w, r)
                        \/ WriterStep(w)
  \/ \E p \in Processes : Crash(p)
  \/ Checkpoint
  \/ \E n \in synced..Len(ledger) : PowerLoss(n)

Spec == Init /\ [][Next]_vars

\* A thread that can take a step of append() is eventually scheduled: the
\* operating system's promise.  Waiting for the write lock is a step too,
\* because the busy timeout ends it.
FairSpec == Spec /\ \A w \in Writers : WF_vars(WriterStep(w))

-----------------------------------------------------------------------------
States == {"idle", "lock", "begin", "head", "insert", "commit", "return"}

\* Type invariant.
TypeOK ==
  /\ ledger \in Seq(Entry)
  /\ synced \in 0..Len(ledger)
  /\ writeLock \in Writers \union {NoOne}
  /\ pathLock \in [Processes -> Writers \union {NoOne}]
  /\ pc \in [Writers -> States]
  /\ row \in [Writers -> Rows]
  /\ prev \in [Writers -> Hash]
  /\ draft \in [Writers -> Seq(Entry)]
  /\ acked \subseteq (Rows \X Hash)
  /\ forkAttempts \in Nat
  /\ gauge \in [Processes -> Nat]

\* However writers, crashes and power cuts interleave, `verify` accepts every
\* committed state of the table: gapless, linked, unforked (chain.py's S1).
ChainIntact == verify(ledger)

\* The locks alone prevent a fork.  UNIQUE(prev_hash), "the belt to that
\* braces", never has to refuse an insert.
LockSuffices == forkAttempts = 0

\* A hash append() returned leads, through the lookup by entry_hash that its
\* callers make, to exactly one entry, and that entry holds the caller's row,
\* never another writer's - unless a power cut undid the append.
AckedIsRecorded ==
  \A a \in acked :
    \E i \in 1..Len(ledger) :
      /\ ledger[i].entry_hash = a[2]
      /\ ledger[i].row = a[1]
      /\ \A j \in 1..Len(ledger) : ledger[j].entry_hash = a[2] => j = i

\* No path through append(), raising ones included, leaves a lock held: a
\* held path lock or write lock is given back.
LocksAreReleased ==
  /\ \A p \in Processes : (pathLock[p] # NoOne) ~> (pathLock[p] = NoOne)
  /\ (writeLock # NoOne) ~> (writeLock = NoOne)

\* append() is atomic: each call is one step of the abstract log.
AtomicLog ==
  INSTANCE AppendOnlyLog WITH
    log <- [i \in 1..Len(ledger) |-> ledger[i].row],
    stable <- synced,
    phase <- [w \in Writers |-> CASE pc[w] = "idle" -> "idle"
                                  [] pc[w] = "return" -> "recorded"
                                  [] OTHER -> "pending"],
    request <- row

\* The detailed ledger implements the abstract one.
Atomic == AtomicLog!Spec
=============================================================================
