------------------------------ MODULE MCReplay ------------------------------
(* Two revisions, one input that both allow, and the ways in which a row and *)
(* the bundle it names can disagree.                                         *)
EXTENDS Replay, TLC

CONSTANTS r1, r2, x1, v1, v2, port1, port2, Allow, Deny

Bundle(revision, verdict) == [revision |-> revision, says |-> x1 :> verdict]

\* As committed; one missing; and one that does not say what a row says it
\* said (its writer made the verdict up, or it was cut again), with the other
\* replaced by it, which shows in the revision alone.
AllDists == { (r1 :> Bundle(r1, Allow)) @@ (r2 :> Bundle(r2, Allow)),
              r1 :> Bundle(r1, Allow),
              (r1 :> Bundle(r1, Deny)) @@ (r2 :> Bundle(r1, Allow)) }

Decision(input, revision) ==
  [entry_type |-> "DECISION", policy_input |-> input, verdict |-> Allow,
   bundle_revision |-> revision]

\* A row under each, and a row without its input.
AllRows == { Decision(x1, r1), Decision(x1, r2), Decision(NoInput, r1) }

\* TLC evaluates this before its workers share Entry.
ASSUME \A r \in Rows : NewEntry(<<>>, GENESIS, r) \in Entry
=============================================================================
