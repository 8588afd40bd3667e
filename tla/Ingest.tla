------------------------------- MODULE Ingest -------------------------------
(***************************************************************************)
(* praman/ingest: Razorpay delivers an event until it sees a 200, and      *)
(* again when it feels like it; the endpoint writes it to the delivery log *)
(* and answers; `praman process-webhooks` later turns unprocessed rows     *)
(* into DECISION rows of the ledger and marks them.                        *)
(*                                                                         *)
(* The delivery log and the ledger are two SQLite files.  Each append to   *)
(* the ledger and each write to the delivery log is one step; nothing      *)
(* joins the two.                                                          *)
(***************************************************************************)
EXTENDS Sequences, TableRows

CONSTANTS Events,      \* what happened at Razorpay, each with its own body
          event_id,    \* the event id header of each event, or NoId
          payment_id,  \* the payment it is about
          identifiers, \* the identifiers its body carries: a sequence, in the
                       \* order customer_id, email, contact, vpa
          Malformed,   \* the events the worker raises on, every time: created_at or
                       \* amount is no number
          arm_of,      \* the arm assign_arm() gives a customer key
          NoId,
          Workers,     \* processes running process-webhooks
          Limit,       \* rows fetched at once
          MaxDeaths,   \* bound on the deaths of workers
          MaxCuts,     \* bound on the machine's losses of power
          Checkpoints, \* bound: the lengths at which a file may be checkpointed
          MaxFaults    \* bound on both together

ASSUME IngestAssumption ==
  /\ Malformed \subseteq Events
  /\ IsFiniteSet(Workers)
  /\ Limit \in Nat \ {0}
  /\ MaxDeaths \in Nat
  /\ MaxCuts \in Nat
  /\ MaxFaults \in Nat

VARIABLES log,         \* the committed writes to ingest.db, in order
          logSynced,   \* how many of them are surely on disk
          ledger,      \* the DECISION rows, in order
          ledgerSynced,
          answered,    \* events answered 200, a history variable
          pc,          \* "idle", "append" or "mark", per worker
          rows,        \* the rows a worker fetched and has not finished
          seq,         \* its local `seq`
          deaths,
          cuts

vars == <<log, logSynced, ledger, ledgerSynced, answered, pc, rows, seq, deaths, cuts>>

-----------------------------------------------------------------------------
\* The primary key.  Without the header, one is made up from the payment.
Key(e) ==
  <<IF event_id[e] = NoId THEN <<"noeid", payment_id[e]>> ELSE event_id[e], payment_id[e]>>

\* The randomisation unit: the first identifier there is, or the payment.
customer_key(e) ==
  IF identifiers[e] = <<>> THEN <<"anon_payment", payment_id[e]>> ELSE identifiers[e][1]

\* Razorpay gives each event an id of its own, unlike those made up here.
ASSUME EventIdAssumption ==
  \A e, f \in Events :
    event_id[e] # NoId => /\ event_id[e] # <<"noeid", payment_id[f]>>
                          /\ event_id[f] = event_id[e] => f = e

ASSUME ArmAssumption ==
  \A e \in Events : arm_of[customer_key(e)] \in {"treatment", "holdout"}

Stored(k) == \E n \in 1..Len(log) : log[n].op = "insert" /\ log[n].key = k

Marks(k) == {n \in 1..Len(log) : log[n].op = "mark" /\ log[n].key = k}

processed(k) == Marks(k) # {}

\* Set by the last mark_processed().
decision_seq(k) == log[CHOOSE n \in Marks(k) : \A m \in Marks(k) : m <= n].seq

\* processed = 0
Unprocessed == {n \in 1..Len(log) : log[n].op = "insert" /\ ~processed(log[n].key)}

\* Unprocessed rows, oldest first.
pending ==
  LET open == Selected(log, Unprocessed)
  IN  SubSeq(open, 1, IF Len(open) < Limit THEN Len(open) ELSE Limit)

-----------------------------------------------------------------------------
Init ==
  /\ log = <<>>
  /\ logSynced = 0
  /\ ledger = <<>>
  /\ ledgerSynced = 0
  /\ answered = {}
  /\ pc = [w \in Workers |-> "idle"]
  /\ rows = [w \in Workers |-> <<>>]
  /\ seq = [w \in Workers |-> 0]
  /\ deaths = 0
  /\ cuts = 0

disk == <<logSynced, ledgerSynced>>
locals == <<pc, rows, seq>>
faults == <<deaths, cuts>>

\* A plausible slip: INSERT OR REPLACE, which resets `processed`.
DeliverReplacing(e) ==
  /\ log' = Append(SelectSeq(log, LAMBDA c : c.key # Key(e)),
                   [op |-> "insert", key |-> Key(e), body |-> e])
  /\ answered' \in {answered, answered \union {e}}
  /\ UNCHANGED <<disk, ledger, locals, faults>>

\* A plausible slip: the answer does not wait for the insert.
DeliverAnsweringFirst(e) ==
  /\ \/ /\ ~Stored(Key(e))
        /\ log' = Append(log, [op |-> "insert", key |-> Key(e), body |-> e])
     \/ UNCHANGED log
  /\ answered' = answered \union {e}
  /\ UNCHANGED <<disk, ledger, locals, faults>>

\* POST /webhooks/razorpay, the first time or again: INSERT OR IGNORE, then
\* 200 whether the row was new or not - unless the answer is lost.
Deliver(e) ==
  /\ log' = IF Stored(Key(e)) THEN log
            ELSE Append(log, [op |-> "insert", key |-> Key(e), body |-> e])
  /\ answered' \in {answered, answered \union {e}}
  /\ UNCHANGED <<disk, ledger, locals, faults>>

\* A plausible slip: rows are claimed by marking them when they are fetched.
StartClaiming(w) ==
  /\ pc[w] = "idle"
  /\ pending # <<>>
  /\ rows' = [rows EXCEPT ![w] = pending]
  /\ pc' = [pc EXCEPT ![w] = "append"]
  /\ log' = log \o [n \in 1..Len(pending) |-> [op |-> "mark", key |-> pending[n].key, seq |-> 0]]
  /\ UNCHANGED <<disk, ledger, answered, seq, faults>>

\* process_pending() fetches its rows once, at the start.
Start(w) ==
  /\ pc[w] = "idle"
  /\ pending # <<>>
  /\ rows' = [rows EXCEPT ![w] = pending]
  /\ pc' = [pc EXCEPT ![w] = "append"]
  /\ UNCHANGED <<log, disk, ledger, answered, seq, faults>>

\* Evaluate the ladder, append the DECISION row, and look its number up by the
\* hash.  LedgerChain shows that the lookup finds this row.
AppendDecision(w) ==
  LET r == Head(rows[w]) IN
  /\ pc[w] = "append"
  /\ r.body \notin Malformed
  /\ ledger' = Append(ledger, [key |-> r.key, payment_id |-> payment_id[r.body],
                               customer_id |-> customer_key(r.body),
                               arm |-> arm_of[customer_key(r.body)],
                               event |-> r.body])
  /\ seq' = [seq EXCEPT ![w] = Len(ledger')]
  /\ pc' = [pc EXCEPT ![w] = "mark"]
  /\ UNCHANGED <<log, disk, answered, rows, faults>>

\* The body cannot be read.  The command ends, the rows behind this one are left
\* for the next, and that will come to this one first.
Raise(w) ==
  /\ pc[w] = "append"
  /\ Head(rows[w]).body \in Malformed
  /\ pc' = [pc EXCEPT ![w] = "idle"]
  /\ rows' = [rows EXCEPT ![w] = <<>>]
  /\ UNCHANGED <<log, disk, ledger, answered, seq, faults>>

\* A plausible slip: MAX(seq) instead of the row the hash leads to.
MarkNewest(w) ==
  /\ pc[w] = "mark"
  /\ log' = Append(log, [op |-> "mark", key |-> Head(rows[w]).key, seq |-> Len(ledger)])
  /\ rows' = [rows EXCEPT ![w] = Tail(@)]
  /\ pc' = [pc EXCEPT ![w] = IF Len(rows[w]) = 1 THEN "idle" ELSE "append"]
  /\ seq' = [seq EXCEPT ![w] = 0]
  /\ UNCHANGED <<disk, ledger, answered, faults>>

\* mark_processed(), and the next row.
Mark(w) ==
  /\ pc[w] = "mark"
  /\ log' = Append(log, [op |-> "mark", key |-> Head(rows[w]).key, seq |-> seq[w]])
  /\ rows' = [rows EXCEPT ![w] = Tail(@)]
  /\ pc' = [pc EXCEPT ![w] = IF Len(rows[w]) = 1 THEN "idle" ELSE "append"]
  /\ seq' = [seq EXCEPT ![w] = 0]
  /\ UNCHANGED <<disk, ledger, answered, faults>>

\* The worker dies, or append() raises and ends the command.
Die(w) ==
  /\ pc[w] # "idle"
  /\ deaths < MaxDeaths
  /\ deaths + cuts < MaxFaults
  /\ deaths' = deaths + 1
  /\ pc' = [pc EXCEPT ![w] = "idle"]
  /\ rows' = [rows EXCEPT ![w] = <<>>]
  /\ seq' = [seq EXCEPT ![w] = 0]
  /\ UNCHANGED <<log, disk, ledger, answered, cuts>>

\* A WAL checkpoint of one file or the other.  After the last power cut there
\* will be, when it happens no longer matters.
Checkpoint ==
  /\ cuts < MaxCuts /\ deaths + cuts < MaxFaults
  /\ \/ Len(log) \in Checkpoints /\ logSynced' = Len(log) /\ UNCHANGED ledgerSynced
     \/ Len(ledger) \in Checkpoints /\ ledgerSynced' = Len(ledger) /\ UNCHANGED logSynced
  /\ UNCHANGED <<log, ledger, answered, locals, faults>>

\* What a power cut takes from the processes.
LoseMemory ==
  /\ cuts < MaxCuts
  /\ deaths + cuts < MaxFaults
  /\ cuts' = cuts + 1
  /\ pc' = [w \in Workers |-> "idle"]
  /\ rows' = [w \in Workers |-> <<>>]
  /\ seq' = [w \in Workers |-> 0]
  /\ UNCHANGED <<disk, answered, deaths>>

\* A plausible slip: synchronous=OFF, where a checkpoint promises nothing.
PowerLossUnsynced(n, m) ==
  /\ LoseMemory
  /\ \E i \in 0..n, j \in 0..m : log' = SubSeq(log, 1, i) /\ ledger' = SubSeq(ledger, 1, j)

\* synchronous=NORMAL on both files: each is back at some moment after its own
\* last checkpoint, not necessarily the same one.
PowerLoss(n, m) ==
  /\ LoseMemory
  /\ log' = SubSeq(log, 1, n)
  /\ ledger' = SubSeq(ledger, 1, m)

WorkerStep(w) == Start(w) \/ AppendDecision(w) \/ Raise(w) \/ Mark(w)

Next ==
  \/ \E e \in Events : Deliver(e)
  \/ \E w \in Workers : WorkerStep(w) \/ Die(w)
  \/ Checkpoint
  \/ \E n \in logSynced..Len(log), m \in ledgerSynced..Len(ledger) : PowerLoss(n, m)

Spec == Init /\ [][Next]_vars

\* Somebody keeps running process-webhooks as long as there is work.
FairSpec == Spec /\ \A w \in Workers : WF_vars(WorkerStep(w))

-----------------------------------------------------------------------------
Decisions(k) == {n \in 1..Len(ledger) : ledger[n].key = k}

\* Type invariant.
TypeOK ==
  /\ \A n \in 1..Len(log) : /\ log[n].op \in {"insert", "mark"}
                            /\ log[n].key \in {Key(e) : e \in Events}
  /\ logSynced \in 0..Len(log)
  /\ ledgerSynced \in 0..Len(ledger)
  /\ \A n \in 1..Len(ledger) : ledger[n].arm \in {"treatment", "holdout"}
  /\ answered \subseteq Events
  /\ pc \in [Workers -> {"idle", "append", "mark"}]
  /\ \A w \in Workers : seq[w] \in 0..Len(ledger) /\ (pc[w] = "idle" <=> rows[w] = <<>>)
  /\ deaths \in 0..MaxDeaths
  /\ cuts \in 0..MaxCuts

\* However often an event is delivered, and whatever workers race, die and
\* repeat: each worker decides it at most once, and once more for every death
\* that comes between an append and its mark and every power cut.
DecisionsAreBounded ==
  \A e \in Events :
    Cardinality(Decisions(Key(e))) <= Cardinality(Workers) * (1 + cuts) + deaths

\* The join an auditor walks: a processed row names a DECISION about its own
\* event, whatever workers race, die and repeat, until the power fails.
ProcessedIsRecorded ==
  cuts = 0 =>
    \A k \in {Key(e) : e \in Events} :
      processed(k) => decision_seq(k) \in 1..Len(ledger) /\ ledger[decision_seq(k)].key = k

\* "One payment legitimately produces several distinct events": an event that
\* was answered 200, which Razorpay will not send again, is in the delivery
\* log with its own body.  Without the event id header it may be another event
\* of its payment that is there.
AnsweredIsStored ==
  cuts = 0 =>
    \A e \in answered :
      \E n \in 1..Len(log) : /\ log[n].op = "insert"
                            /\ log[n].key = Key(e)
                            /\ event_id[e] # NoId => log[n].body = e

\* A delivery that no worker can read is in the event's place or before it.
Blocked(e) ==
  \E n \in 1..Len(log) : \E m \in 1..n :
    /\ log[n].op = "insert" /\ log[n].key = Key(e)
    /\ log[m].op = "insert" /\ log[m].body \in Malformed

\* An event that was answered 200 leads to a decision, even if workers die,
\* unless the power fails first or an older delivery blocks the queue; a newer
\* one does not.
AnsweredIsDecided ==
  \A e \in Events : e \in answered ~> Decisions(Key(e)) # {} \/ cuts > 0 \/ Blocked(e)

-----------------------------------------------------------------------------
\* test_ingest: however often an event is delivered, it "must make exactly one
\* decision".
OneDecisionPerDelivery ==
  \A e \in Events : Cardinality(Decisions(Key(e))) <= 1
=============================================================================
