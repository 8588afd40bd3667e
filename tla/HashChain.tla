----------------------------- MODULE HashChain -----------------------------
(***************************************************************************)
(* The hash chain of praman/ledger/chain.py: what an entry is, how the     *)
(* next one is linked to it, and what verify() checks.                     *)
(*                                                                         *)
(* A hash is modelled by what it commits to.  entry_hash covers the        *)
(* previous hash and the row, so - SHA-256 taken to be free of collisions  *)
(* - it determines the whole sequence of rows up to the entry: a hash IS   *)
(* that sequence, and GENESIS is the empty one.                            *)
(***************************************************************************)
EXTENDS Naturals, Sequences

CONSTANT Rows   \* what a row can hold, the values of its FIELDS together

Hash == Seq(Rows)

GENESIS == <<>>

\* A plausible slip: the changed field is missing from FIELDS.
entry_hash_without_field(prev_hash, r) == Append(prev_hash, CHOOSE x \in Rows : TRUE)

entry_hash(prev_hash, r) == Append(prev_hash, r)

Entry == [seq : Nat, row : Rows, prev_hash : Hash, entry_hash : Hash]

\* A plausible slip: the oldest entry instead of the newest.
head_hash_ascending(l) == IF l = <<>> THEN GENESIS ELSE l[1].entry_hash

head_hash(l) == IF l = <<>> THEN GENESIS ELSE l[Len(l)].entry_hash

\* verify() walks the table once; entry i is the first thing wrong with it
\* when its position, its link to the stored hash before it, or its own
\* recomputed hash disagrees.
StoredHashBefore(l, i) == IF i = 1 THEN GENESIS ELSE l[i - 1].entry_hash

EntryOK(l, i) ==
  /\ l[i].seq = i
  /\ l[i].prev_hash = StoredHashBefore(l, i)
  /\ l[i].entry_hash = entry_hash(StoredHashBefore(l, i), l[i].row)

verify(l) == \A i \in 1..Len(l) : EntryOK(l, i)

\* UNIQUE(prev_hash) and UNIQUE(entry_hash).
Unique(l, e) ==
  \A i \in 1..Len(l) : /\ l[i].prev_hash # e.prev_hash
                       /\ l[i].entry_hash # e.entry_hash

NewEntry(l, p, r) ==
  [seq |-> Len(l) + 1, row |-> r, prev_hash |-> p, entry_hash |-> entry_hash(p, r)]
=============================================================================
