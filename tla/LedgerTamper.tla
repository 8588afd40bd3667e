---------------------------- MODULE LedgerTamper ----------------------------
(***************************************************************************)
(* `praman tamper` against a ledger that keeps growing, and what `praman   *)
(* verify` makes of it.  The command is three autocommitted statements -   *)
(* DROP TRIGGER, UPDATE, CREATE TRIGGER - with no transaction around them, *)
(* so two operators interleave and a death in between leaves the ledger    *)
(* without its append-only trigger.                                        *)
(*                                                                         *)
(* append() is one step here: LedgerChain shows that it may be.            *)
(***************************************************************************)
EXTENDS HashChain, FiniteSets

CONSTANTS Operators,   \* runs of `praman tamper`
          FloatRows,   \* rows one of whose columns holds a REAL
          MaxEntries   \* bound: no append to a ledger this long

ASSUME TamperAssumption ==
  /\ FloatRows \subseteq Rows
  /\ Rows \ FloatRows # {}
  /\ MaxEntries \in Nat

VARIABLES ledger,    \* the table
          written,   \* the rows as append() wrote them, a history variable
          trigger,   \* is ledger_no_update in place?
          pc,        \* the next statement of each operator
          entry,     \* --entry
          value,     \* the row as --set would leave it
          abandoned  \* has a command ever stopped half-way? a history variable

vars == <<ledger, written, trigger, pc, entry, value, abandoned>>

AnyRow == CHOOSE r \in Rows : TRUE

Init ==
  /\ ledger = <<>>
  /\ written = <<>>
  /\ trigger = TRUE
  /\ pc = [o \in Operators |-> "idle"]
  /\ entry = [o \in Operators |-> 0]
  /\ value = [o \in Operators |-> AnyRow]
  /\ abandoned = FALSE

\* append() of another process.  It refuses floats.
AppendRow(r) ==
  /\ Len(ledger) < MaxEntries
  /\ r \notin FloatRows
  /\ ledger' = Append(ledger, NewEntry(ledger, head_hash(ledger), r))
  /\ written' = Append(written, r)
  /\ UNCHANGED <<trigger, pc, entry, value, abandoned>>

\* A plausible slip: the entry's existence is not checked.
StartUnchecked(o, i, r) ==
  /\ pc[o] = "idle"
  /\ pc' = [pc EXCEPT ![o] = "drop"]
  /\ entry' = [entry EXCEPT ![o] = i + 1]
  /\ value' = [value EXCEPT ![o] = r]
  /\ UNCHANGED <<ledger, written, trigger, abandoned>>

\* A hashed field, an existing entry and a value: the command goes ahead.
\* Anything else is refused and nothing changes.  The value may end up a
\* REAL: SQLite converts '1.5' when the column has INTEGER affinity.
Start(o, i, r) ==
  /\ pc[o] = "idle"
  /\ i \in 1..Len(ledger)
  /\ pc' = [pc EXCEPT ![o] = "drop"]
  /\ entry' = [entry EXCEPT ![o] = i]
  /\ value' = [value EXCEPT ![o] = r]
  /\ UNCHANGED <<ledger, written, trigger, abandoned>>

\* The command is over.
Finish(o) ==
  /\ pc' = [pc EXCEPT ![o] = "idle"]
  /\ entry' = [entry EXCEPT ![o] = 0]
  /\ value' = [value EXCEPT ![o] = AnyRow]

DropTrigger(o) ==
  /\ pc[o] = "drop"
  /\ trigger' = FALSE
  /\ pc' = [pc EXCEPT ![o] = "update"]
  /\ UNCHANGED <<ledger, written, entry, value, abandoned>>

\* A plausible slip: the command returns as soon as the row is edited.
UpdateAndReturn(o) ==
  /\ pc[o] = "update"
  /\ ledger' = IF trigger THEN ledger ELSE [ledger EXCEPT ![entry[o]].row = value[o]]
  /\ Finish(o)
  /\ UNCHANGED <<written, trigger, abandoned>>

\* Another operator may have put the trigger back: then the UPDATE aborts.
Update(o) ==
  /\ pc[o] = "update"
  /\ IF trigger
     THEN Finish(o) /\ UNCHANGED ledger
     ELSE /\ ledger' = [ledger EXCEPT ![entry[o]].row = value[o]]
          /\ pc' = [pc EXCEPT ![o] = "create"]
          /\ UNCHANGED <<entry, value>>
  /\ UNCHANGED <<written, trigger, abandoned>>

CreateTrigger(o) ==
  /\ pc[o] = "create"
  /\ trigger' = TRUE
  /\ Finish(o)
  /\ UNCHANGED <<ledger, written, abandoned>>

\* `except sqlite3.Error` (a lock it could not get), or the process dies: the
\* remaining statements never run.  connect() creates the trigger only
\* together with a missing table, so nothing else restores it.
Stop(o) ==
  /\ pc[o] # "idle"
  /\ Finish(o)
  /\ abandoned' = TRUE
  /\ UNCHANGED <<ledger, written, trigger>>

Next ==
  \/ \E r \in Rows : AppendRow(r)
  \/ \E o \in Operators :
       \/ \E i \in 1..Len(ledger), r \in Rows : Start(o, i, r)
       \/ DropTrigger(o)
       \/ Update(o)
       \/ CreateTrigger(o)
       \/ Stop(o)

Spec == Init /\ [][Next]_vars

-----------------------------------------------------------------------------
Least(S) == CHOOSE i \in S : \A j \in S : i <= j

\* The walk of verify(): the entry it stops at, 0 if there is none.  It stops
\* at a float too, because canonical_bytes() raises.
StoppedAt(l) ==
  LET bad == {i \in 1..Len(l) : ~EntryOK(l, i) \/ l[i].row \in FloatRows}
  IN  IF bad = {} THEN 0 ELSE Least(bad)

-----------------------------------------------------------------------------
\* Type invariant.
TypeOK ==
  /\ ledger \in Seq(Entry)
  /\ written \in Seq(Rows \ FloatRows)
  /\ Len(written) = Len(ledger)
  /\ trigger \in BOOLEAN
  /\ pc \in [Operators -> {"idle", "drop", "update", "create"}]
  /\ entry \in [Operators -> 0..Len(ledger)]
  /\ value \in [Operators -> Rows]
  /\ abandoned \in BOOLEAN

Altered == {i \in 1..Len(ledger) : ledger[i].row # written[i]}

\* Whatever was edited, by however many operators, with appends chained on
\* top of edited entries and edits undone again: verify() stops exactly at the
\* first entry that differs from what was written, and nowhere else.
TamperIsPinpointed ==
  StoppedAt(ledger) = IF Altered = {} THEN 0 ELSE Least(Altered)

\* However two commands interleave - one may drop the trigger while the other
\* edits, or put it back under the other's UPDATE - once all of them are over
\* the append-only trigger is in place again, unless one stopped half-way.
TriggerIsRestored ==
  (\A o \in Operators : pc[o] = "idle") /\ ~abandoned => trigger
=============================================================================
