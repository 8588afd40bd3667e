--------------------------- MODULE AppendOnlyLog ---------------------------
(***************************************************************************)
(* What the evidence ledger promises its callers, with no locks, no        *)
(* transactions and no hashes: append() is one atomic operation.  A call   *)
(* that returns has put its row at the end of the log exactly once, a call *)
(* that raises has put nothing there, and nothing already in the log is    *)
(* ever edited, reordered or removed.  The one exception is the machine    *)
(* losing power, which may cost a tail of rows that had not reached the    *)
(* disk yet; a process dying costs nothing that was recorded.              *)
(***************************************************************************)
EXTENDS Naturals, Sequences

CONSTANTS Writers,    \* the threads that append
          Rows,       \* the rows they append
          PowerFails  \* may the machine lose power?

VARIABLES log,     \* the recorded rows, oldest first
          stable,  \* how many of them have reached the disk
          phase,   \* where each writer's call is
          request  \* the row each pending call was made with

vars == <<log, stable, phase, request>>

AnyRow == CHOOSE r \in Rows : TRUE

Init ==
  /\ log = <<>>
  /\ stable = 0
  /\ phase = [w \in Writers |-> "idle"]
  /\ request = [w \in Writers |-> AnyRow]

Submit(w, r) ==
  /\ phase[w] = "idle"
  /\ phase' = [phase EXCEPT ![w] = "pending"]
  /\ request' = [request EXCEPT ![w] = r]
  /\ UNCHANGED <<log, stable>>

\* The single instant at which the call takes effect.
Record(w) ==
  /\ phase[w] = "pending"
  /\ log' = Append(log, request[w])
  /\ phase' = [phase EXCEPT ![w] = "recorded"]
  /\ UNCHANGED <<stable, request>>

Forget(w) ==
  /\ phase' = [phase EXCEPT ![w] = "idle"]
  /\ request' = [request EXCEPT ![w] = AnyRow]

Confirm(w) ==
  /\ phase[w] = "recorded"
  /\ Forget(w)
  /\ UNCHANGED <<log, stable>>

\* Raising is possible only before the row is recorded.
Refuse(w) ==
  /\ phase[w] = "pending"
  /\ Forget(w)
  /\ UNCHANGED <<log, stable>>

ForgetAll(S) ==
  /\ phase' = [w \in Writers |-> IF w \in S THEN "idle" ELSE phase[w]]
  /\ request' = [w \in Writers |-> IF w \in S THEN AnyRow ELSE request[w]]

Restart(S) ==
  /\ ForgetAll(S)
  /\ UNCHANGED <<log, stable>>

Sync ==
  /\ stable' = Len(log)
  /\ UNCHANGED <<log, phase, request>>

PowerLoss(n) ==
  /\ PowerFails
  /\ log' = SubSeq(log, 1, n)
  /\ ForgetAll(Writers)
  /\ UNCHANGED stable

Next ==
  \/ \E w \in Writers :
       \/ \E r \in Rows : Submit(w, r)
       \/ Record(w)
       \/ Confirm(w)
       \/ Refuse(w)
  \/ \E S \in SUBSET Writers : Restart(S)
  \/ Sync
  \/ \E n \in stable..Len(log) : PowerLoss(n)

Spec == Init /\ [][Next]_vars
=============================================================================
