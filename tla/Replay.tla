------------------------------- MODULE Replay -------------------------------
(***************************************************************************)
(* `praman verify`: the chain is checked, then every recorded decision is  *)
(* put again to the bundle that authorised it (ledger/replay.py), one OPA  *)
(* process per revision, on a port that was free a moment ago.             *)
(*                                                                         *)
(* Several runs of the command go on at once over one growing ledger and   *)
(* one dist/.  Ports are the machine's, so one run's requests may reach    *)
(* another run's OPA.                                                       *)
(*                                                                         *)
(* A verdict stands for `allow` and the deny-set together.                 *)
(***************************************************************************)
EXTENDS HashChain, TableRows

CONSTANTS Verifiers,    \* runs of `praman verify`
          Modes,        \* "chain" (no replay), "replay" and "require"
          Ports,
          Dists,        \* what dist/ may hold: bundles by the revision in
                        \* their file name
          NoInput,      \* policy_input_json is empty or not JSON
          Unavailable,  \* the verdict of _deny_closed()
          UNKNOWN,      \* UNKNOWN_REVISION
          MaxEntries,   \* bound: nothing is appended to a ledger this long
          Late          \* if FALSE, a bound: no row is appended once a command
                        \* has fetched its own, none edited once one runs

ASSUME ReplayAssumption ==
  /\ Modes \subseteq {"chain", "replay", "require"} /\ Modes # {}
  /\ Ports # {}
  /\ Dists # {} /\ \A b \in Dists : UNKNOWN \notin DOMAIN b
  /\ MaxEntries \in Nat
  /\ Late \in BOOLEAN

VARIABLES ledger,     \* the table
          tampered,   \* has a row been edited?
          dist,       \* the committed bundles
          pc,         \* where each command is, and what it ended with
          mode,       \* its flags
          rows,       \* the DECISION rows replay_ledger() fetched
          todo,       \* the revisions it has not come to
          left,       \* the rows of the current revision still to replay
          server,     \* its BundleServer: state, port and revision
          report,     \* its ReplayReport
          disturbed   \* did OPA fail it, or another's OPA answer it?  A
                        \* history variable

locals == <<mode, rows, todo, left, server, report, disturbed>>
vars == <<ledger, tampered, dist, pc, locals>>

-----------------------------------------------------------------------------
AnyMode == CHOOSE m \in Modes : TRUE
AnyPort == CHOOSE p \in Ports : TRUE

NoServer == [state |-> "none", port |-> AnyPort, revision |-> UNKNOWN]

NoReport == [reproduced |-> 0, unreplayable |-> 0, diverged |-> 0, ran |-> FALSE]

Ended == {"pass", "fail", "error"}

Init ==
  /\ ledger = <<>>
  /\ tampered = FALSE
  /\ dist \in Dists
  /\ pc = [v \in Verifiers |-> "idle"]
  /\ mode = [v \in Verifiers |-> AnyMode]
  /\ rows = [v \in Verifiers |-> <<>>]
  /\ todo = [v \in Verifiers |-> <<>>]
  /\ left = [v \in Verifiers |-> <<>>]
  /\ server = [v \in Verifiers |-> NoServer]
  /\ report = [v \in Verifiers |-> NoReport]
  /\ disturbed = [v \in Verifiers |-> FALSE]

NoneReplays == \A v \in Verifiers : pc[v] \in {"idle", "fetch"}
NoneRuns == \A v \in Verifiers : pc[v] = "idle"

\* append(), by whatever writes rows: a writer may have made its verdict up.
AppendRow(r) ==
  /\ Len(ledger) < MaxEntries
  /\ Late \/ NoneReplays
  /\ ledger' = Append(ledger, NewEntry(ledger, head_hash(ledger), r))
  /\ UNCHANGED <<tampered, dist, pc, locals>>

\* `praman tamper`, once (LedgerTamper has its steps).
Tamper(i, r) ==
  /\ ~tampered
  /\ Late \/ NoneRuns
  /\ ledger[i].row # r
  /\ ledger' = [ledger EXCEPT ![i].row = r]
  /\ tampered' = TRUE
  /\ UNCHANGED <<dist, pc, locals>>

-----------------------------------------------------------------------------
\* verify(conn).  Without --replay a sound chain is a pass.
Start(v, m) ==
  /\ pc[v] = "idle"
  /\ mode' = [mode EXCEPT ![v] = m]
  /\ pc' = [pc EXCEPT ![v] = IF ~verify(ledger) THEN "fail"
                             ELSE IF m = "chain" THEN "pass" ELSE "fetch"]
  /\ UNCHANGED <<ledger, tampered, dist, rows, todo, left, server, report, disturbed>>

\* The revisions of s in the order in which they first occur.
Revisions(s) ==
  LET first == {n \in 1..Len(s) : \A m \in 1..(n - 1) : s[m].bundle_revision # s[n].bundle_revision}
  IN  Selected([n \in 1..Len(s) |-> s[n].bundle_revision], first)

\* The DECISION rows.
decisions ==
  Selected([i \in 1..Len(ledger) |-> ledger[i].row],
           {i \in 1..Len(ledger) : ledger[i].row.entry_type = "DECISION"})

\* Without an OPA binary they are not gone through.
Fetch(v) ==
  /\ pc[v] = "fetch"
  /\ rows' = [rows EXCEPT ![v] = decisions]
  /\ \E found \in BOOLEAN :
       todo' = [todo EXCEPT ![v] = IF found THEN Revisions(decisions) ELSE <<>>]
  /\ pc' = [pc EXCEPT ![v] = "next"]
  /\ UNCHANGED <<ledger, tampered, dist, mode, left, server, report, disturbed>>

\* A revision without a bundle in dist/ is skipped.
Skip(v) ==
  /\ pc[v] = "next"
  /\ todo[v] # <<>>
  /\ Head(todo[v]) \notin DOMAIN dist
  /\ todo' = [todo EXCEPT ![v] = Tail(@)]
  /\ UNCHANGED <<ledger, tampered, dist, pc, mode, rows, left, server, report, disturbed>>

\* Who answers on a port.
Listeners(p) == {w \in Verifiers : server[w].port = p /\ server[w].state \in {"listening", "active"}}

\* A plausible slip: every row is put to every bundle.
every_row(s, revision) == s

\* The group of rows one bundle is to reproduce.
by_revision(s, revision) == Selected(s, {n \in 1..Len(s) : s[n].bundle_revision = revision})

\* BundleServer() takes a port nobody listens on, and starts OPA.
Launch(v) ==
  /\ pc[v] = "next"
  /\ todo[v] # <<>>
  /\ Head(todo[v]) \in DOMAIN dist
  /\ \E p \in {q \in Ports : Listeners(q) = {}} :
       server' = [server EXCEPT ![v] = [state |-> "starting", port |-> p,
                                        revision |-> Head(todo[v])]]
  /\ left' = [left EXCEPT ![v] = by_revision(rows[v], Head(todo[v]))]
  /\ todo' = [todo EXCEPT ![v] = Tail(@)]
  /\ pc' = [pc EXCEPT ![v] = "await"]
  /\ UNCHANGED <<ledger, tampered, dist, mode, rows, report, disturbed>>

\* A plausible slip: /health without ?bundles=true.
ReadyWhenListening(v) ==
  /\ pc[v] = "await"
  /\ server[v].state # "dead"
  /\ \E w \in Listeners(server[v].port) :
       disturbed' = [disturbed EXCEPT ![v] = @ \/ w # v]
  /\ pc' = [pc EXCEPT ![v] = "replay"]
  /\ UNCHANGED <<ledger, tampered, dist, mode, rows, todo, left, server, report>>

\* _await_ready(): the process has not exited and the port answers that its
\* bundles are active - be it another process that answers.
Ready(v) ==
  /\ pc[v] = "await"
  /\ server[v].state # "dead"
  /\ \E w \in Listeners(server[v].port) :
       /\ server[w].state = "active"
       /\ disturbed' = [disturbed EXCEPT ![v] = @ \/ w # v]
  /\ pc' = [pc EXCEPT ![v] = "replay"]
  /\ UNCHANGED <<ledger, tampered, dist, mode, rows, todo, left, server, report>>

\* A plausible slip: a loop without a deadline.
GiveUpOnExit(v) ==
  /\ pc[v] = "await"
  /\ server[v].state = "dead"
  /\ pc' = [pc EXCEPT ![v] = "error"]
  /\ disturbed' = [disturbed EXCEPT ![v] = TRUE]
  /\ UNCHANGED <<ledger, tampered, dist, mode, rows, todo, left, server, report>>

\* ... or the process has exited, or the time is up: an exception ends the
\* command.  __exit__ does not run, so a process that is slow stays.
GiveUp(v) ==
  /\ pc[v] = "await"
  /\ pc' = [pc EXCEPT ![v] = "error"]
  /\ disturbed' = [disturbed EXCEPT ![v] = TRUE]
  /\ UNCHANGED <<ledger, tampered, dist, mode, rows, todo, left, server, report>>

deny_closed == [verdict |-> Unavailable, bundle_revision |-> UNKNOWN]

\* PolicyClient.evaluate(): a bundle answers with the revision it carries; an
\* OPA that has no bundle yet answers 200 with nothing.
Answer(w, input) ==
  IF server[w].state = "active"
  THEN LET bundle == dist[server[w].revision]
       IN  [verdict |-> bundle.says[input], bundle_revision |-> bundle.revision]
  ELSE deny_closed

\* _compare() finds no divergence.
compare(r, answer) ==
  /\ answer.verdict = r.verdict
  /\ answer.bundle_revision = r.bundle_revision

\* The report with one more answer.
counted(v, same) == IF same THEN [report EXCEPT ![v].reproduced = @ + 1]
                    ELSE [report EXCEPT ![v].diverged = @ + 1]

\* An empty input is not a pass.
PassOver(v) ==
  /\ pc[v] = "replay"
  /\ left[v] # <<>>
  /\ Head(left[v]).policy_input = NoInput
  /\ report' = [report EXCEPT ![v].unreplayable = @ + 1]
  /\ left' = [left EXCEPT ![v] = Tail(@)]
  /\ UNCHANGED <<ledger, tampered, dist, pc, mode, rows, todo, server, disturbed>>

\* The next stored input is posted.  Whoever listens on the port answers;
\* nobody may, or too late.
Evaluate(v) ==
  LET r == Head(left[v]) IN
  /\ pc[v] = "replay"
  /\ left[v] # <<>>
  /\ r.policy_input # NoInput
  /\ \/ \E w \in Listeners(server[v].port) :
          /\ report' = counted(v, compare(r, Answer(w, r.policy_input)))
          /\ disturbed' = [disturbed EXCEPT ![v] = @ \/ w # v]
     \/ /\ report' = counted(v, compare(r, deny_closed))
        /\ disturbed' = [disturbed EXCEPT ![v] = TRUE]
  /\ left' = [left EXCEPT ![v] = Tail(@)]
  /\ UNCHANGED <<ledger, tampered, dist, pc, mode, rows, todo, server>>

\* BundleServer.__exit__(), and the span.
Close(v) ==
  /\ pc[v] = "replay"
  /\ left[v] = <<>>
  /\ server' = [server EXCEPT ![v] = NoServer]
  /\ report' = [report EXCEPT ![v].ran = TRUE]
  /\ pc' = [pc EXCEPT ![v] = "next"]
  /\ UNCHANGED <<ledger, tampered, dist, mode, rows, todo, left, disturbed>>

\* A plausible slip: rows under a missing bundle are forgotten.
ok_without_total(rep, total) == rep.diverged = 0 /\ rep.unreplayable = 0

\* ReplayReport.ok
ok(rep, total) ==
  /\ rep.diverged = 0
  /\ rep.unreplayable = 0
  /\ rep.reproduced = total

\* The attestation page, opened now: the chain's verdict, the decisions by
\* revision, and those that no replay can reproduce.
attestation ==
  LET revisions == Revisions(decisions)
  IN  [ok |-> verify(ledger),
       spans |-> [n \in 1..Len(revisions) |->
                    [revision |-> revisions[n], group |-> by_revision(decisions, revisions[n])]],
       decisions |-> Len(decisions),
       unreplayable |-> {n \in 1..Len(decisions) : decisions[n].policy_input = NoInput}]

\* The verdict.  A replay that could not run is a failure only if required.
Conclude(v) ==
  LET failed == \/ report[v].ran /\ ~ok(report[v], Len(rows[v]))
                \/ mode[v] = "require" /\ ~report[v].ran
  IN  /\ pc[v] = "next"
      /\ todo[v] = <<>>
      /\ pc' = [pc EXCEPT ![v] = IF failed THEN "fail" ELSE "pass"]
      /\ UNCHANGED <<ledger, tampered, dist, locals>>

-----------------------------------------------------------------------------
\* OPA binds its port, or exits because somebody did so before it.
OpaBinds(v) ==
  /\ server[v].state = "starting"
  /\ server' = [server EXCEPT ![v].state =
                  IF Listeners(server[v].port) = {} THEN "listening" ELSE "dead"]
  /\ UNCHANGED <<ledger, tampered, dist, pc, mode, rows, todo, left, report, disturbed>>

OpaActivates(v) ==
  /\ server[v].state = "listening"
  /\ server' = [server EXCEPT ![v].state = "active"]
  /\ UNCHANGED <<ledger, tampered, dist, pc, mode, rows, todo, left, report, disturbed>>

OpaExits(v) ==
  /\ server[v].state \in {"starting", "listening", "active"}
  /\ server' = [server EXCEPT ![v].state = "dead"]
  /\ UNCHANGED <<ledger, tampered, dist, pc, mode, rows, todo, left, report, disturbed>>

VerifierStep(v) ==
  \/ Fetch(v)
  \/ Skip(v)
  \/ Launch(v)
  \/ Ready(v)
  \/ GiveUp(v)
  \/ PassOver(v)
  \/ Evaluate(v)
  \/ Close(v)
  \/ Conclude(v)

Next ==
  \/ \E r \in Rows : AppendRow(r)
  \/ \E i \in 1..Len(ledger), r \in Rows : Tamper(i, r)
  \/ \E v \in Verifiers :
       \/ \E m \in Modes : Start(v, m)
       \/ VerifierStep(v)
       \/ OpaBinds(v)
       \/ OpaActivates(v)
       \/ OpaExits(v)

Spec == Init /\ [][Next]_vars

\* A command that was started runs on; timeouts end its waits for OPA, of
\* which nothing is assumed.
FairSpec == Spec /\ \A v \in Verifiers : WF_vars(VerifierStep(v))

-----------------------------------------------------------------------------
\* Type invariant.
TypeOK ==
  /\ ledger \in Seq(Entry)
  /\ tampered \in BOOLEAN
  /\ dist \in Dists
  /\ pc \in [Verifiers -> {"idle", "fetch", "next", "await", "replay"} \union Ended]
  /\ mode \in [Verifiers -> Modes]
  /\ \A v \in Verifiers :
       /\ rows[v] \in Seq(Rows)
       /\ left[v] # <<>> => pc[v] \in {"await", "replay", "error"}
       /\ \A i \in 1..Len(left[v]) : left[v][i].bundle_revision = server[v].revision
       /\ server[v].state \in {"none", "starting", "listening", "active", "dead"}
       /\ server[v].port \in Ports
       /\ report[v].reproduced + report[v].unreplayable + report[v].diverged <= Len(rows[v])

\* A committed bundle carries the revision a row names, and gives the row's
\* verdict on the row's input.
ReproducedBy(r, file) ==
  /\ r.policy_input # NoInput
  /\ file \in DOMAIN dist
  /\ dist[file].revision = r.bundle_revision
  /\ dist[file].says[r.policy_input] = r.verdict

\* ... and it is the one committed under that revision.
Reproducible(r) == ReproducedBy(r, r.bundle_revision)

\* WHAT_BROKE.md D1, D12, D15: the word "reproduced" is earned.  A command
\* that replayed, or had to, passes only if each decision it fetched is
\* reproduced by its own committed bundle, whichever bundles were missing or
\* swapped.  When queries failed, or another command's OPA answered on its
\* port, a committed bundle that carries the row's revision reproduced it.  And
\* as long as the ledger has no other decisions, the page agrees: it shows as
\* many, none that cannot be replayed, and no span without its bundle.
AttestationIsProof ==
  \A v \in Verifiers :
    pc[v] = "pass" /\ (report[v].ran \/ mode[v] = "require") =>
      /\ rows[v] # <<>>
      /\ \A i \in 1..Len(rows[v]) :
           IF disturbed[v] THEN \E file \in DOMAIN dist : ReproducedBy(rows[v][i], file)
           ELSE Reproducible(rows[v][i])
      /\ decisions = rows[v] =>
           /\ attestation.decisions = report[v].reproduced
           /\ attestation.unreplayable = {}
           /\ \A n \in 1..Len(attestation.spans) :
                disturbed[v] \/ attestation.spans[n].revision \in DOMAIN dist

\* No phantom divergences: a command that OPA served without failing calls a
\* ledger bad only if it is - its chain broken, a decision not reproducible -
\* or if a required replay had nothing to run on.
FailHasACause ==
  \A v \in Verifiers :
    pc[v] = "fail" =>
      \/ disturbed[v]
      \/ ~verify(ledger)
      \/ mode[v] = "require" /\ ~report[v].ran
      \/ \E i \in 1..Len(rows[v]) : ~Reproducible(rows[v][i])

\* Every command ends, whatever OPA does.
VerifyEnds == \A v \in Verifiers : pc[v] = "fetch" ~> pc[v] \in Ended
=============================================================================
