--------------------------- MODULE ExplainProofs ---------------------------
(***************************************************************************)
(* Theorems about Explain for every ledger, any number of processes that   *)
(* explain it, and a model that may answer with any claim.                 *)
(*                                                                         *)
(* What is served fits because of what the cache's key holds.  Every text  *)
(* that was put in the cache was written for SOME decision of the archetype*)
(* it is filed under, and _validate() let it pass for that one; the cause, *)
(* the tier, the action and how confident we are are the same for all of   *)
(* them; so it says of the decision it is shown for what it said of the one*)
(* it was written for.  Of a text that was in the file before, no more is  *)
(* known than that it has no digit.                                        *)
(*                                                                         *)
(* The ranks on the decision page need no state.  What is preferred to     *)
(* another tier has the lower rank, because Prefers is transitive.         *)
(***************************************************************************)
EXTENDS Explain, OperatorLemmas

Summaries == recorded

Keys == {archetype_key(s) : s \in recorded} \union DOMAIN Shipped

\* What _validate() lets pass for s.
Passes(claims, s) == \A c \in claims : ~HasDigit(c) /\ ~NamesAnother(c, s)

SharedKinds == {"cause", "tier", "action", "confidence"}

\* A text may be shown for s.
EntryFits(entry, s) ==
  \A c \in entry.text :
    /\ ~HasDigit(c)
    /\ entry.of # 0 =>
         /\ ~NamesAnother(c, s)
         /\ c[1] \in SharedKinds =>
              (<<c[1], c[2]>> \in Facts(s)) = (<<c[1], c[2]>> \in Facts(summary_at(entry.of)))

TypeInv ==
  /\ DOMAIN cache \subseteq Keys
  /\ pc \in [Procs -> {"idle", "visit", "lookup", "ask", "put"}]
  /\ todo \in [Procs -> Seq(Summaries)]
  /\ seen \in [Procs -> SUBSET Keys] /\ asked \in [Procs -> SUBSET Keys]
  /\ failed \in [Procs -> SUBSET Keys] /\ twice \in [Procs -> BOOLEAN]
  /\ DOMAIN text = Procs /\ DOMAIN shown = Procs

\* prewarm() has the last of all summaries before it.
Remaining(p) ==
  /\ Len(todo[p]) <= Len(all_summaries)
  /\ \A n \in 1..Len(todo[p]) : todo[p][n] = all_summaries[Len(all_summaries) - Len(todo[p]) + n]

QueueInv(p) ==
  /\ (todo[p] = <<>>) = (pc[p] = "idle")
  /\ (text[p] # NoText) = (pc[p] = "put")
  /\ Kind[p] = "prewarm" => Remaining(p)

\* What prewarm() need not ask for again.
Tried(p) == DOMAIN cache \union failed[p]

\* What keeps prewarm() from asking twice: it looks a key up only after it has
\* entered it into `seen', and enters no key that is there.  What keeps it from
\* missing one: the keys in `seen', but for the one it is at, were tried.
OnceInv(p) ==
  Kind[p] = "prewarm" =>
    /\ asked[p] \subseteq seen[p]
    /\ pc[p] = "lookup" => key_(p) \in seen[p] /\ key_(p) \notin asked[p]
    /\ ~twice[p]
    /\ client(p) /\ pc[p] # "idle" =>
         /\ \A s \in Behind(p) : archetype_key(s) \in Tried(p)
         /\ \A k \in seen[p] : k \in Tried(p) \/ (pc[p] # "visit" /\ k = key_(p))

\* A text that was put is filed under the archetype it was written for.
CacheInv ==
  \A k \in DOMAIN cache :
    /\ \A c \in cache[k].text : ~HasDigit(c)
    /\ cache[k].of # 0 => /\ summary_at(cache[k].of) \in Summaries
                          /\ k = archetype_key(summary_at(cache[k].of))
                          /\ Passes(cache[k].text, summary_at(cache[k].of))

TextInv(p) ==
  /\ pc[p] = "put" => Passes(text[p], s_(p))
  /\ shown[p].source \in {"none", "template", "cache", "llm"}
  /\ shown[p].source \in {"cache", "llm"} => EntryFits(shown[p], summary_at(shown[p].seq))

IInv ==
  /\ TypeInv
  /\ CacheInv
  /\ \A p \in Procs : QueueInv(p) /\ OnceInv(p) /\ TextInv(p)

-----------------------------------------------------------------------------
LEMMA SummaryAt ==
  ASSUME NEW n \in 1..Len(Ledger)
  PROVE  summary_at(n) \in Summaries /\ summary_at(n).ledger_seq = n
  BY DEF Summaries, recorded, summary_at, _row_to_summary

LEMMA SummaryOfRow ==
  ASSUME NEW s \in Summaries
  PROVE  /\ s.ledger_seq \in 1..Len(Ledger) /\ s.ledger_seq # 0
         /\ s = summary_at(s.ledger_seq)
         /\ archetype_key(s) \in Keys
  <1>1. PICK n \in 1..Len(Ledger) : s = summary_at(n)
    BY DEF Summaries, recorded
  <1>2. s.ledger_seq = n
    BY <1>1, SummaryAt
  <1>3. QED BY <1>1, <1>2 DEF Keys, Summaries

\* all_summaries is numbered as the ledger's rows are.
LEMMA AllSummaries ==
  /\ Len(all_summaries) \in Nat
  /\ all_summaries \in Seq(Summaries)
  /\ \A n \in 1..Len(all_summaries) : /\ all_summaries[n] \in Summaries
                                      /\ all_summaries[n].ledger_seq = n
  /\ \A s \in Range(all_summaries) : /\ s.ledger_seq \in 1..Len(all_summaries)
                                     /\ s = all_summaries[s.ledger_seq]
  <1> DEFINE N == AtMost(Len(Ledger), MaxSummaries)
  <1>1. N \in Nat /\ N <= Len(Ledger) /\ Len(Ledger) \in Nat
    BY ExplainAssumption, LenProperties DEF AtMost
  <1>2. /\ DOMAIN all_summaries = 1..N
        /\ \A n \in 1..N : all_summaries[n] = summary_at(n)
        /\ all_summaries = [n \in 1..N |-> all_summaries[n]]
    BY DEF all_summaries, summary_at
  <1> HIDE DEF N
  <1>3. \A n \in 1..N : all_summaries[n] \in Summaries /\ all_summaries[n].ledger_seq = n
    <2> SUFFICES ASSUME NEW n \in 1..N
                 PROVE  all_summaries[n] \in Summaries /\ all_summaries[n].ledger_seq = n
      OBVIOUS
    <2>1. n \in 1..Len(Ledger)
      BY <1>1
    <2>2. QED BY <1>2, <2>1, SummaryAt
  <1>4. all_summaries \in Seq(Summaries)
    <2>1. all_summaries \in [1..N -> Summaries]
      BY <1>2, <1>3
    <2>2. QED BY <1>1, <2>1, IsASeq
  <1>5. Len(all_summaries) = N
    BY <1>1, <1>2, <1>4, LenProperties
  <1>6. ASSUME NEW s \in Range(all_summaries)
        PROVE  s.ledger_seq \in 1..N /\ s = all_summaries[s.ledger_seq]
    <2>1. PICK n \in 1..N : s = all_summaries[n]
      BY <1>2 DEF Range
    <2>2. QED BY <1>3, <2>1
  <1>7. QED BY <1>1, <1>3, <1>4, <1>5, <1>6

\* The buckets are finer than the words.
LEMMA BucketTells ==
  ASSUME NEW p \in Nat
  PROVE  confidence_bucket(p) = (IF p >= 900000 THEN 3 ELSE IF p >= 700000 THEN 2
                                 ELSE IF p >= 400000 THEN 1 ELSE 0)
  <1> DEFINE reached == {edge \in CONFIDENCE_BUCKETS : p >= edge}
  <1>1. IsFiniteSet({}) /\ Cardinality({}) = 0
    BY FS_EmptySet
  <1>2. IsFiniteSet({400000}) /\ Cardinality({400000}) = 1
    BY FS_Singleton
  <1>3. IsFiniteSet({400000, 700000}) /\ Cardinality({400000, 700000}) = 2
    <2>1. {400000} \union {700000} = {400000, 700000} /\ 700000 \notin {400000}
      OBVIOUS
    <2>2. QED BY <1>2, <2>1, FS_AddElement
  <1>4. Cardinality({400000, 700000, 900000}) = 3
    <2>1. /\ {400000, 700000} \union {900000} = {400000, 700000, 900000}
          /\ 900000 \notin {400000, 700000}
      OBVIOUS
    <2>2. QED BY <1>3, <2>1, FS_AddElement
  <1>5. confidence_bucket(p) = Cardinality(reached)
    BY DEF confidence_bucket
  <1>6. CASE p >= 900000
    <2>1. reached = {400000, 700000, 900000}
      BY <1>6 DEF CONFIDENCE_BUCKETS
    <2>2. QED BY <1>4, <1>5, <1>6, <2>1
  <1>7. CASE p < 900000 /\ p >= 700000
    <2>1. reached = {400000, 700000}
      BY <1>7 DEF CONFIDENCE_BUCKETS
    <2>2. QED BY <1>3, <1>5, <1>7, <2>1
  <1>8. CASE p < 700000 /\ p >= 400000
    <2>1. reached = {400000}
      BY <1>8 DEF CONFIDENCE_BUCKETS
    <2>2. QED BY <1>2, <1>5, <1>8, <2>1
  <1>9. CASE p < 400000
    <2>1. reached = {}
      BY <1>9 DEF CONFIDENCE_BUCKETS
    <2>2. QED BY <1>1, <1>5, <1>9, <2>1
  <1>10. QED BY <1>6, <1>7, <1>8, <1>9

Words(p) == IF p >= 700000 THEN "confident" ELSE IF p >= 400000 THEN "fairly sure" ELSE "unsure"

LEMMA SameBucketSameWords ==
  ASSUME NEW p \in Nat, NEW q \in Nat, confidence_bucket(p) = confidence_bucket(q)
  PROVE  Words(p) = Words(q)
  <1>1. (p >= 700000 <=> q >= 700000) /\ (p >= 400000 <=> q >= 400000)
    BY SMT, BucketTells
  <1>2. CASE p >= 700000 /\ q >= 700000
    <2>1. Words(p) = "confident" BY SMT, <1>2 DEF Words
    <2>2. Words(q) = "confident" BY SMT, <1>2 DEF Words
    <2>3. QED BY <2>1, <2>2
  <1>3. CASE /\ ~(p >= 700000) /\ p >= 400000
             /\ ~(q >= 700000) /\ q >= 400000
    <2>1. Words(p) = "fairly sure" BY SMT, <1>3 DEF Words
    <2>2. Words(q) = "fairly sure" BY SMT, <1>3 DEF Words
    <2>3. QED BY <2>1, <2>2
  <1>4. CASE /\ ~(p >= 700000) /\ ~(p >= 400000)
             /\ ~(q >= 700000) /\ ~(q >= 400000)
    <2>1. Words(p) = "unsure" BY SMT, <1>4 DEF Words
    <2>2. Words(q) = "unsure" BY SMT, <1>4 DEF Words
    <2>3. QED BY <2>1, <2>2
  <1>5. QED BY SMT, <1>1, <1>2, <1>3, <1>4

\* A decision's facts name one of each of these kinds ...
LEMMA FactsTell ==
  ASSUME NEW s, NEW value
  PROVE  /\ <<"cause", value>> \in Facts(s) <=> value = s.cause
         /\ <<"tier", value>> \in Facts(s) <=> value = s.tier
         /\ <<"action", value>> \in Facts(s) <=> value = s.action
         /\ <<"confidence", value>> \in Facts(s) <=> value = how_confident(s)
  BY DEF Facts

\* ... and the archetype determines them all.
LEMMA KeyTells ==
  ASSUME NEW s \in Summaries, NEW t \in Summaries, archetype_key(s) = archetype_key(t)
  PROVE  /\ s.cause = t.cause /\ s.tier = t.tier /\ s.action = t.action
         /\ how_confident(s) = how_confident(t)
  <1>1. /\ s.cause = t.cause /\ s.tier = t.tier
        /\ confidence_bucket(s.confidence) = confidence_bucket(t.confidence)
    BY DEF archetype_key
  <1>2. \A n : /\ summary_at(n).action = _TIER_ACTION[summary_at(n).tier]
               /\ summary_at(n).confidence = Ledger[n].posterior
    BY DEF summary_at, _row_to_summary
  <1>3. s.action = _TIER_ACTION[s.tier] /\ t.action = _TIER_ACTION[t.tier]
    BY <1>2, SummaryOfRow
  <1>4. \A n \in 1..Len(Ledger) : Ledger[n].posterior \in Nat
    <2> SUFFICES ASSUME NEW n \in 1..Len(Ledger) PROVE Ledger[n].posterior \in Nat
      OBVIOUS
    <2>1. Ledger[n] \in DecisionRow
      BY ExplainAssumption, ElementOfSeq
    <2>2. QED BY <2>1 DEF DecisionRow
  <1>5. s.confidence \in Nat /\ t.confidence \in Nat
    BY <1>2, <1>4, SummaryOfRow
  <1>6. how_confident(s) = how_confident(t)
    <2>1. how_confident(s) = Words(s.confidence) /\ how_confident(t) = Words(t.confidence)
      BY SMT DEF how_confident, Words
    <2>2. QED BY <1>1, <1>5, <2>1, SameBucketSameWords
  <1>7. QED BY <1>1, <1>3, <1>6

\* So a claim of these kinds is as true of one decision of an archetype as of
\* another.
LEMMA ArchetypesShareFacts ==
  ASSUME NEW s \in Summaries, NEW t \in Summaries, archetype_key(s) = archetype_key(t),
         NEW kind \in SharedKinds, NEW value
  PROVE  (<<kind, value>> \in Facts(s)) = (<<kind, value>> \in Facts(t))
  <1>1. /\ s.cause = t.cause /\ s.tier = t.tier /\ s.action = t.action
        /\ how_confident(s) = how_confident(t)
    BY KeyTells
  <1>2. <<kind, value>> \in Facts(s) <=> <<kind, value>> \in Facts(t)
    BY <1>1, FactsTell DEF SharedKinds
  <1>3. QED BY <1>2

\* What passes for one of them fits all.
LEMMA ArchetypesShareTexts ==
  ASSUME NEW s \in Summaries, NEW entry, \A c \in entry.text : ~HasDigit(c),
         entry.of # 0 => /\ summary_at(entry.of) \in Summaries
                         /\ archetype_key(s) = archetype_key(summary_at(entry.of))
                         /\ Passes(entry.text, summary_at(entry.of))
  PROVE  EntryFits(entry, s)
  <1> DEFINE t == summary_at(entry.of)
  <1> SUFFICES ASSUME NEW c \in entry.text, entry.of # 0
               PROVE  /\ ~NamesAnother(c, s)
                      /\ c[1] \in SharedKinds =>
                           (<<c[1], c[2]>> \in Facts(s)) = (<<c[1], c[2]>> \in Facts(t))
    BY DEF EntryFits
  <1>1. t \in Summaries /\ archetype_key(s) = archetype_key(t) /\ ~NamesAnother(c, t)
    BY DEF Passes
  <1> HIDE DEF t
  <1>2. c[1] \in SharedKinds => (<<c[1], c[2]>> \in Facts(s)) = (<<c[1], c[2]>> \in Facts(t))
    BY <1>1, ArchetypesShareFacts
  <1>3. ~NamesAnother(c, s)
    BY <1>1, <1>2 DEF NamesAnother, SharedKinds
  <1>4. QED BY <1>2, <1>3

\* What a process writes itself fits the decision it is at.
LEMMA AnewFits ==
  ASSUME NEW p \in Procs, s_(p) \in Summaries, NEW claims, Passes(claims, s_(p))
  PROVE  EntryFits(Anew(p, claims), s_(p))
  <1>1. Anew(p, claims).text = claims /\ summary_at(Anew(p, claims).of) = s_(p)
    BY SummaryOfRow DEF Anew, Entry
  <1>2. QED BY <1>1 DEF EntryFits, Passes

\* Whatever the model answers, _validate() lets only so much pass.
LEMMA ValidTextPasses ==
  ASSUME NEW s, NEW raw, _validate(raw, s) # NoText
  PROVE  Passes(_validate(raw, s), s)
  BY DEF _validate, Passes

-----------------------------------------------------------------------------
(* The steps.                                                              *)

\* What a process does leaves the others where they are.
OthersStay(p) ==
  \A q \in Procs \ {p} :
    /\ pc'[q] = pc[q] /\ todo'[q] = todo[q] /\ seen'[q] = seen[q] /\ text'[q] = text[q]
    /\ shown'[q] = shown[q] /\ asked'[q] = asked[q] /\ twice'[q] = twice[q] /\ failed'[q] = failed[q]

CacheGrows == DOMAIN cache \subseteq DOMAIN cache'

\* The invariant of a process outlives the steps of the others.
LEMMA Undisturbed ==
  ASSUME NEW p \in Procs, OthersStay(p), CacheGrows,
         NEW q \in Procs \ {p}, QueueInv(q), OnceInv(q), TextInv(q)
  PROVE  QueueInv(q)' /\ OnceInv(q)' /\ TextInv(q)'
  <1>1. /\ pc'[q] = pc[q] /\ todo'[q] = todo[q] /\ seen'[q] = seen[q] /\ text'[q] = text[q]
        /\ shown'[q] = shown[q] /\ asked'[q] = asked[q] /\ twice'[q] = twice[q]
        /\ failed'[q] = failed[q]
    BY DEF OthersStay
  <1>2. QueueInv(q)'
    BY <1>1 DEF QueueInv, Remaining
  <1>3. s_(q)' = s_(q) /\ key_(q)' = key_(q) /\ Behind(q)' = Behind(q)
    BY <1>1 DEF s_, key_, Behind
  <1>4. OnceInv(q)'
    BY <1>1, <1>3 DEF OnceInv, CacheGrows, Tried
  <1>5. TextInv(q)'
    BY <1>1, <1>3 DEF TextInv
  <1>6. QED BY <1>2, <1>4, <1>5

\* The summaries that are left, and where the loop goes on.
Continues(p, summaries) ==
  /\ todo'[p] = summaries
  /\ (summaries = <<>>) = (pc'[p] = "idle")
  /\ pc'[p] \in {"idle", "visit", "lookup"}
  /\ Kind[p] = "prewarm" => pc'[p] # "lookup"

LEMMA LoopStep ==
  ASSUME TypeInv, NEW p \in Procs, NEW summaries \in Seq(Summaries), Loop(p, summaries)
  PROVE  /\ todo' \in [Procs -> Seq(Summaries)]
         /\ pc' \in [Procs -> {"idle", "visit", "lookup", "ask", "put"}]
         /\ Continues(p, summaries)
         /\ \A q \in Procs \ {p} : pc'[q] = pc[q] /\ todo'[q] = todo[q]
  BY DEF TypeInv, Loop, Continues

\* A process that is not idle has a summary before it, of an archetype there is.
LEMMA Current ==
  ASSUME IInv, NEW p \in Procs, pc[p] # "idle"
  PROVE  /\ todo[p] \in Seq(Summaries) /\ todo[p] # <<>>
         /\ s_(p) \in Summaries /\ key_(p) = archetype_key(s_(p)) /\ key_(p) \in Keys
         /\ Tail(todo[p]) \in Seq(Summaries)
  <1>1. todo[p] \in Seq(Summaries) /\ todo[p] # <<>>
    BY DEF IInv, TypeInv, QueueInv
  <1>2. Head(todo[p]) \in Summaries /\ Tail(todo[p]) \in Seq(Summaries)
    BY <1>1, HeadTailProperties
  <1>3. QED BY <1>1, <1>2, SummaryOfRow DEF s_, key_

\* What prewarm() has behind it once it is done with a summary.
LEMMA TailRemains ==
  ASSUME IInv, NEW p \in Procs, pc[p] # "idle", Kind[p] = "prewarm",
         todo'[p] = Tail(todo[p])
  PROVE  /\ Remaining(p)'
         /\ todo'[p] # <<>> => \A s \in Behind(p)' : s \in Behind(p) \/ s = s_(p)
  <1> DEFINE L == Len(all_summaries)
             old == todo[p]
             new == Tail(todo[p])
  <1>1. /\ old \in Seq(Summaries) /\ old # <<>>
        /\ Len(old) <= L /\ \A n \in 1..Len(old) : old[n] = all_summaries[L - Len(old) + n]
    BY Current DEF IInv, QueueInv, Remaining
  <1>2. /\ Len(old) \in Nat /\ Len(old) >= 1 /\ new \in Seq(Summaries)
        /\ Len(new) = Len(old) - 1 /\ \A n \in 1..Len(new) : new[n] = old[n + 1]
    <2>1. Len(old) \in Nat /\ Len(old) # 0
      BY <1>1, LenProperties, EmptySeq
    <2>2. new \in Seq(Summaries) /\ Len(new) = Len(old) - 1
      BY <1>1, HeadTailProperties
    <2>3. \A n \in 1..Len(new) : new[n] = old[n + 1]
      BY <1>1, HeadTailProperties
    <2>4. QED BY <2>1, <2>2, <2>3
  <1>3. L \in Nat
    BY AllSummaries
  <1>4. ASSUME NEW n \in 1..Len(new)
        PROVE  new[n] = all_summaries[L - Len(new) + n]
    <2>1. n + 1 \in 1..Len(old) /\ L - Len(old) + (n + 1) = L - Len(new) + n
      <3>1. Len(new) = Len(old) - 1 /\ Len(old) \in Nat
        BY <1>2
      <3> HIDE DEF L, old, new
      <3>2. QED BY <1>3, <3>1
    <2>2. new[n] = old[n + 1] /\ old[n + 1] = all_summaries[L - Len(old) + (n + 1)]
      BY <1>1, <1>2, <2>1
    <2>3. QED BY <2>1, <2>2
  <1>5. Remaining(p)'
    <2>1. Len(new) <= L
      BY <1>1, <1>2, <1>3
    <2>2. QED BY <1>4, <2>1 DEF Remaining
  <1>6. ASSUME new # <<>>, NEW s \in Behind(p)'
        PROVE  s \in Behind(p) \/ s = s_(p)
    <2> DEFINE at == L - Len(old) + 1
    <2>1. Len(new) # 0
      BY <1>2, <1>6, EmptySeq
    <2>2. 1 \in 1..Len(old) /\ 1 \in 1..Len(new)
      <3> HIDE DEF old, new
      <3>1. Len(new) \in Nat
        BY <1>2, LenProperties
      <3>2. QED BY <1>2, <2>1, <3>1
    <2>3. old[1] = all_summaries[at] /\ new[1] = all_summaries[L - Len(new) + 1]
      BY <1>1, <1>4, <2>2
    <2>4. Head(old) = old[1] /\ Head(new) = new[1]
      <3> HIDE DEF old, new
      <3>1. QED BY <1>1, <1>2, <1>6
    <2>5. L - Len(new) + 1 = at + 1 /\ at \in 1..L /\ at + 1 \in 1..L
      <3> HIDE DEF L, old, new
      <3>1. Len(old) <= L
        BY <1>1
      <3>2. QED BY <1>2, <1>3, <2>1, <3>1
    <2>6. Head(old) = all_summaries[at] /\ Head(new) = all_summaries[at + 1]
      BY <2>3, <2>4, <2>5
    <2>7. all_summaries[at].ledger_seq = at /\ all_summaries[at + 1].ledger_seq = at + 1
      BY <2>5, AllSummaries
    <2>8. s \in Range(all_summaries) /\ s.ledger_seq < at + 1
      BY <2>6, <2>7 DEF Behind
    <2>9. s.ledger_seq \in 1..L /\ s = all_summaries[s.ledger_seq]
      BY <2>8, AllSummaries
    <2>10. CASE s.ledger_seq < at
      BY <2>6, <2>7, <2>8, <2>10 DEF Behind
    <2>11. CASE s.ledger_seq = at
      BY <2>6, <2>9, <2>11 DEF s_
    <2>12. s.ledger_seq < at \/ s.ledger_seq = at
      <3> HIDE DEF at
      <3>1. at \in Nat /\ s.ledger_seq \in Nat
        BY <2>5, <2>9
      <3>2. QED BY <2>8, <3>1
    <2>13. QED BY <2>10, <2>11, <2>12
  <1>7. QED BY <1>5, <1>6

LEMMA OneProcessSteps ==
  ASSUME IInv, NEW p \in Procs, OthersStay(p), CacheGrows,
         TypeInv', CacheInv', QueueInv(p)', OnceInv(p)', TextInv(p)'
  PROVE  IInv'
  <1>1. ASSUME NEW q \in Procs PROVE QueueInv(q)' /\ OnceInv(q)' /\ TextInv(q)'
    <2>1. CASE q = p
      BY <2>1
    <2>2. CASE q # p
      BY <2>2, Undisturbed DEF IInv
    <2>3. QED BY <2>1, <2>2
  <1>2. QED BY <1>1 DEF IInv

\* explain() returns.
LEMMA ReturnStep ==
  ASSUME IInv, NEW p \in Procs, pc[p] # "idle",
         NEW source \in {"template", "cache", "llm"}, NEW entry, Return(p, source, entry),
         source # "template" => EntryFits(entry, s_(p))
  PROVE  /\ todo' \in [Procs -> Seq(Summaries)]
         /\ pc' \in [Procs -> {"idle", "visit", "lookup", "ask", "put"}]
         /\ DOMAIN shown' = Procs
         /\ Continues(p, Tail(todo[p]))
         /\ \A q \in Procs \ {p} : pc'[q] = pc[q] /\ todo'[q] = todo[q] /\ shown'[q] = shown[q]
         /\ TextInv(p)'
         /\ Kind[p] = "prewarm" =>
              Remaining(p)' /\ (pc'[p] # "idle" => \A s \in Behind(p)' : s \in Behind(p) \/ s = s_(p))
  <1>1. /\ Tail(todo[p]) \in Seq(Summaries) /\ s_(p) \in Summaries /\ TypeInv
        /\ Loop(p, Tail(todo[p]))
    BY Current DEF IInv, Return
  <1>2. /\ todo' \in [Procs -> Seq(Summaries)]
        /\ pc' \in [Procs -> {"idle", "visit", "lookup", "ask", "put"}]
        /\ Continues(p, Tail(todo[p]))
        /\ \A q \in Procs \ {p} : pc'[q] = pc[q] /\ todo'[q] = todo[q]
    BY <1>1, LoopStep
  <1>3. /\ DOMAIN shown' = Procs
        /\ \A q \in Procs \ {p} : shown'[q] = shown[q]
        /\ shown'[p] = IF Kind[p] = "prewarm" THEN shown[p]
                       ELSE Shown(s_(p).ledger_seq, source, entry)
    BY <1>1 DEF Return, TypeInv
  <1>4. TextInv(p)'
    <2>1. pc'[p] # "put"
      BY <1>2 DEF Continues
    <2>2. CASE Kind[p] = "prewarm"
      BY <1>3, <2>1, <2>2 DEF IInv, TextInv
    <2>3. CASE Kind[p] # "prewarm"
      <3>1. /\ shown'[p].source = source /\ shown'[p].text = entry.text
            /\ shown'[p].of = entry.of /\ summary_at(shown'[p].seq) = s_(p)
        BY <1>1, <1>3, <2>3, SummaryOfRow DEF Shown
      <3>2. QED BY <2>1, <3>1 DEF TextInv, EntryFits
    <2>4. QED BY <2>2, <2>3
  <1>5. ASSUME Kind[p] = "prewarm"
        PROVE  /\ Remaining(p)'
               /\ pc'[p] # "idle" => \A s \in Behind(p)' : s \in Behind(p) \/ s = s_(p)
    <2>1. /\ todo'[p] = Tail(todo[p])
          /\ (Tail(todo[p]) = <<>>) = (pc'[p] = "idle")
      BY <1>2 DEF Continues
    <2>2. QED BY <1>5, <2>1, TailRemains
  <1>6. QED BY <1>2, <1>3, <1>4, <1>5

\* prewarm() is done with a summary.
LEMMA DoneWith ==
  ASSUME IInv, NEW p \in Procs, pc[p] # "idle", CacheGrows, Continues(p, Tail(todo[p])),
         seen'[p] = seen[p], asked'[p] = asked[p], twice'[p] = twice[p],
         failed[p] \subseteq failed'[p],
         Kind[p] = "prewarm" => Remaining(p)' /\
           (pc'[p] # "idle" => \A s \in Behind(p)' : s \in Behind(p) \/ s = s_(p)),
         Kind[p] = "prewarm" /\ client(p) => key_(p) \in Tried(p)'
  PROVE  OnceInv(p)'
  <1> SUFFICES ASSUME Kind[p] = "prewarm" PROVE OnceInv(p)'
    BY DEF OnceInv
  <1>1. OnceInv(p) /\ key_(p) = archetype_key(s_(p))
    BY Current DEF IInv
  <1>2. asked'[p] \subseteq seen'[p] /\ ~twice'[p] /\ pc'[p] # "lookup"
    BY <1>1 DEF OnceInv, Continues
  <1>3. ASSUME client(p), pc'[p] # "idle"
        PROVE  /\ \A s \in Behind(p)' : archetype_key(s) \in Tried(p)'
               /\ \A k \in seen'[p] : k \in Tried(p)'
    <2>1. Tried(p) \subseteq Tried(p)'
      BY DEF Tried, CacheGrows
    <2>2. /\ \A s \in Behind(p) : archetype_key(s) \in Tried(p)
          /\ \A k \in seen[p] : k \in Tried(p) \/ k = key_(p)
      BY <1>1, <1>3 DEF OnceInv
    <2>3. /\ \A s \in Behind(p)' : s \in Behind(p) \/ s = s_(p)
          /\ key_(p) \in Tried(p)'
      BY <1>3
    <2>4. \A s \in Behind(p)' : archetype_key(s) \in Tried(p)'
      BY <1>1, <2>1, <2>2, <2>3
    <2>5. \A k \in seen'[p] : k \in Tried(p)'
      BY <2>1, <2>2, <2>3
    <2>6. QED BY <2>4, <2>5
  <1>4. QED BY <1>2, <1>3 DEF OnceInv

LEMMA InitInv == Init => IInv
  <1> SUFFICES ASSUME Init PROVE IInv
    OBVIOUS
  <1>1. TypeInv /\ CacheInv
    BY ShippedAssumption DEF Init, TypeInv, CacheInv, Keys, Entry
  <1>2. ASSUME NEW p \in Procs PROVE QueueInv(p) /\ OnceInv(p) /\ TextInv(p)
    BY AllSummaries DEF Init, QueueInv, OnceInv, TextInv, Remaining, NothingShown, Shown
  <1>3. QED BY <1>1, <1>2 DEF IInv

\* The requests are lists of summaries; a prewarm's is all of them.
LEMMA RequestsAreSummaries ==
  ASSUME NEW p \in Procs, NEW summaries \in Requests(p)
  PROVE  /\ summaries \in Seq(Summaries)
         /\ Kind[p] = "prewarm" => summaries = all_summaries
  <1>1. all_summaries \in Seq(Summaries) /\ Len(all_summaries) \in Nat
    BY AllSummaries
  <1>2. \A list \in decision : list \in Seq(Summaries)
    <2> SUFFICES ASSUME NEW n \in 1..Len(Ledger) PROVE <<summary_at(n)>> \in Seq(Summaries)
      BY DEF decision
    <2>1. summary_at(n) \in Summaries
      BY SummaryAt
    <2>2. QED BY <2>1
  <1>3. \A list \in Seq(Summaries) : Limited(list) \in Seq(Summaries)
    <2> SUFFICES ASSUME NEW list \in Seq(Summaries) PROVE Limited(list) \in Seq(Summaries)
      OBVIOUS
    <2> DEFINE N == AtMost(Len(list), ShownAtMost)
    <2>1. N \in Nat /\ N <= Len(list) /\ Len(list) \in Nat
      BY ExplainAssumption, LenProperties DEF AtMost
    <2>2. \A n \in 1..N : list[n] \in Summaries
      <3> HIDE DEF N
      <3>1. \A n \in 1..N : n \in 1..Len(list)
        BY <2>1
      <3>2. QED BY <3>1, ElementOfSeq
    <2>3. Limited(list) = [n \in 1..N |-> list[n]]
      BY DEF Limited
    <2> HIDE DEF N
    <2>4. Limited(list) \in [1..N -> Summaries]
      BY <2>2, <2>3
    <2>5. QED BY <2>1, <2>4, IsASeq
  <1>9. deadlock_summaries \in Seq(Summaries)
    <2> DEFINE K == {n \in 1..Len(all_summaries) : Deadlocked(all_summaries[n])}
    <2>1. Selected(all_summaries, K) \in Seq(Summaries)
      <3>1. K \in SUBSET (1..Len(all_summaries))
        OBVIOUS
      <3> HIDE DEF K, Summaries
      <3>2. QED BY <1>1, <3>1, SelectedProperties
    <2>2. QED BY <1>3, <2>1 DEF deadlock_summaries
  <1>4. Kind[p] \in {"page", "explain", "prewarm"}
    BY ExplainAssumption
  <1>5. CASE Kind[p] = "page"
    BY <1>2, <1>5 DEF Requests
  <1>6. CASE Kind[p] = "prewarm"
    BY <1>1, <1>6 DEF Requests
  <1>7. CASE Kind[p] = "explain"
    BY <1>1, <1>2, <1>3, <1>7, <1>9 DEF Requests
  <1>8. QED BY <1>4, <1>5, <1>6, <1>7

LEMMA StartStep ==
  ASSUME IInv, NEW p \in Procs, Start(p)
  PROVE  IInv'
  <1>1. PICK summaries \in Requests(p) : Loop(p, summaries)
    BY DEF Start
  <1>2. summaries \in Seq(Summaries) /\ (Kind[p] = "prewarm" => summaries = all_summaries)
    BY RequestsAreSummaries
  <1>3. TypeInv /\ QueueInv(p) /\ pc[p] = "idle"
    BY DEF IInv, Start
  <1>4. /\ todo' \in [Procs -> Seq(Summaries)]
        /\ pc' \in [Procs -> {"idle", "visit", "lookup", "ask", "put"}]
        /\ Continues(p, summaries)
        /\ \A q \in Procs \ {p} : pc'[q] = pc[q] /\ todo'[q] = todo[q]
    BY <1>1, <1>2, <1>3, LoopStep
  <1>5. TypeInv' /\ OthersStay(p) /\ CacheGrows
    BY <1>3, <1>4 DEF Start, TypeInv, OthersStay, CacheGrows
  <1>6. /\ cache' = cache /\ text' = text /\ shown'[p] = NothingShown
        /\ asked'[p] = {} /\ seen'[p] = {} /\ twice'[p] = FALSE
    BY <1>3 DEF Start, TypeInv
  <1>7. CacheInv'
    BY <1>6 DEF IInv, CacheInv
  <1>8. ASSUME Kind[p] = "prewarm"
        PROVE  Remaining(p)' /\ (pc'[p] # "idle" => Behind(p)' = {})
    <2>1. todo'[p] = all_summaries /\ (todo'[p] = <<>>) = (pc'[p] = "idle")
      BY <1>2, <1>4, <1>8 DEF Continues
    <2>2. Remaining(p)'
      BY <2>1, AllSummaries DEF Remaining
    <2>3. ASSUME pc'[p] # "idle", NEW s \in Behind(p)' PROVE FALSE
      <3>1. all_summaries # <<>> /\ all_summaries \in Seq(Summaries)
        BY <2>1, <2>3, AllSummaries
      <3>2. Len(all_summaries) # 0 /\ Len(all_summaries) \in Nat
        BY <3>1, EmptySeq, LenProperties
      <3>3. Head(all_summaries) = all_summaries[1] /\ 1 \in 1..Len(all_summaries)
        BY <3>1, <3>2
      <3>4. Head(all_summaries).ledger_seq = 1
        BY <3>3, AllSummaries
      <3>5. s \in Range(all_summaries) /\ s.ledger_seq < 1
        BY <2>1, <2>3, <3>4 DEF Behind
      <3>6. QED BY <3>2, <3>5, AllSummaries
    <2>4. QED BY <2>2, <2>3
  <1>9. QueueInv(p)'
    BY <1>3, <1>4, <1>6, <1>8 DEF QueueInv, Continues
  <1>10. OnceInv(p)'
    BY <1>4, <1>6, <1>8 DEF OnceInv, Continues
  <1>11. TextInv(p)'
    BY <1>4, <1>6 DEF TextInv, Continues, NothingShown, Shown
  <1>12. QED BY <1>5, <1>7, <1>9, <1>10, <1>11, OneProcessSteps

LEMMA VisitStep ==
  ASSUME IInv, NEW p \in Procs, Visit(p)
  PROVE  IInv'
  <1>1. /\ TypeInv /\ QueueInv(p) /\ OnceInv(p) /\ TextInv(p) /\ pc[p] = "visit"
        /\ cache' = cache /\ text' = text /\ shown' = shown
        /\ asked' = asked /\ twice' = twice /\ failed' = failed
    BY DEF IInv, Visit, history
  <1>2. CacheInv' /\ CacheGrows
    BY <1>1 DEF IInv, CacheInv, CacheGrows
  <1>3. /\ key_(p) \in Keys /\ Tail(todo[p]) \in Seq(Summaries)
        /\ key_(p) = archetype_key(s_(p))
    BY <1>1, Current
  <1>4. CASE /\ key_(p) \in seen[p] \union DOMAIN cache
             /\ Loop(p, Tail(todo[p]))
             /\ UNCHANGED seen
    <2>1. /\ todo' \in [Procs -> Seq(Summaries)]
          /\ pc' \in [Procs -> {"idle", "visit", "lookup", "ask", "put"}]
          /\ Continues(p, Tail(todo[p]))
          /\ \A q \in Procs \ {p} : pc'[q] = pc[q] /\ todo'[q] = todo[q]
      BY <1>1, <1>3, <1>4, LoopStep
    <2>2. TypeInv' /\ OthersStay(p)
      BY <1>1, <1>4, <2>1 DEF TypeInv, OthersStay
    <2>3. ASSUME Kind[p] = "prewarm"
          PROVE  /\ Remaining(p)'
                 /\ pc'[p] # "idle" => \A s \in Behind(p)' : s \in Behind(p) \/ s = s_(p)
      BY <1>1, <2>1, <2>3, TailRemains DEF Continues
    <2>4. ASSUME Kind[p] = "prewarm", client(p) PROVE key_(p) \in Tried(p)'
      BY <1>1, <1>4, <2>4 DEF OnceInv, Tried
    <2>5. OnceInv(p)'
      BY <1>1, <1>2, <1>4, <2>1, <2>3, <2>4, DoneWith
    <2>6. QueueInv(p)'
      BY <1>1, <2>1, <2>3 DEF QueueInv, Continues
    <2>7. TextInv(p)'
      BY <1>1, <2>1 DEF TextInv, Continues
    <2>8. QED BY <1>2, <2>2, <2>5, <2>6, <2>7, OneProcessSteps
  <1>5. CASE /\ key_(p) \notin seen[p] \union DOMAIN cache
             /\ seen' = [seen EXCEPT ![p] = @ \union {key_(p)}]
             /\ pc' = [pc EXCEPT ![p] = "lookup"]
             /\ UNCHANGED todo
    <2>1. TypeInv' /\ OthersStay(p)
      BY <1>1, <1>3, <1>5 DEF TypeInv, OthersStay
    <2>2. pc'[p] = "lookup" /\ todo'[p] = todo[p] /\ seen'[p] = seen[p] \union {key_(p)}
      BY <1>1, <1>5 DEF TypeInv
    <2>3. s_(p)' = s_(p) /\ key_(p)' = key_(p) /\ Behind(p)' = Behind(p) /\ Tried(p)' = Tried(p)
      BY <1>1, <2>2 DEF s_, key_, Behind, Tried
    <2>4. QueueInv(p)'
      BY <1>1, <2>2 DEF QueueInv, Remaining
    <2>5. OnceInv(p)'
      BY <1>1, <1>5, <2>2, <2>3 DEF OnceInv
    <2>6. TextInv(p)'
      BY <1>1, <2>2 DEF TextInv
    <2>7. QED BY <1>2, <2>1, <2>4, <2>5, <2>6, OneProcessSteps
  <1>6. QED BY <1>4, <1>5 DEF Visit

LEMMA LookupStep ==
  ASSUME IInv, NEW p \in Procs, Lookup(p)
  PROVE  IInv'
  <1>1. /\ TypeInv /\ CacheInv /\ QueueInv(p) /\ OnceInv(p) /\ TextInv(p) /\ pc[p] = "lookup"
        /\ cache' = cache /\ seen' = seen /\ text' = text /\ failed' = failed
    BY DEF IInv, Lookup
  <1>2. CacheInv' /\ CacheGrows
    BY <1>1 DEF CacheInv, CacheGrows
  <1>3. /\ key_(p) \in Keys /\ s_(p) \in Summaries /\ key_(p) = archetype_key(s_(p))
    BY <1>1, Current
  <1>4. ASSUME NEW source \in {"template", "cache", "llm"}, NEW entry,
               Return(p, source, entry), source # "template" => EntryFits(entry, s_(p)),
               UNCHANGED <<asked, twice>>,
               client(p) => key_(p) \in DOMAIN cache
        PROVE  IInv'
    <2>1. /\ todo' \in [Procs -> Seq(Summaries)]
          /\ pc' \in [Procs -> {"idle", "visit", "lookup", "ask", "put"}]
          /\ DOMAIN shown' = Procs
          /\ Continues(p, Tail(todo[p]))
          /\ \A q \in Procs \ {p} : pc'[q] = pc[q] /\ todo'[q] = todo[q] /\ shown'[q] = shown[q]
          /\ TextInv(p)'
          /\ Kind[p] = "prewarm" =>
               Remaining(p)' /\ (pc'[p] # "idle" => \A s \in Behind(p)' : s \in Behind(p) \/ s = s_(p))
      BY <1>1, <1>4, ReturnStep
    <2>2. TypeInv' /\ OthersStay(p)
      BY <1>1, <1>4, <2>1 DEF TypeInv, OthersStay
    <2>3. client(p) => key_(p) \in Tried(p)'
      BY <1>1, <1>4 DEF Tried
    <2>4. OnceInv(p)'
      BY <1>1, <1>2, <1>4, <2>1, <2>3, DoneWith
    <2>5. QueueInv(p)'
      BY <1>1, <2>1 DEF QueueInv, Continues
    <2>6. QED BY <1>2, <2>1, <2>2, <2>4, <2>5, OneProcessSteps
  <1>5. CASE key_(p) \in DOMAIN cache
    <2>1. Return(p, "cache", cache[key_(p)]) /\ UNCHANGED <<asked, twice>>
      BY <1>5 DEF Lookup
    <2>2. EntryFits(cache[key_(p)], s_(p))
      <3> DEFINE entry == cache[key_(p)]
      <3>1. /\ \A c \in entry.text : ~HasDigit(c)
            /\ entry.of # 0 => /\ summary_at(entry.of) \in Summaries
                               /\ archetype_key(s_(p)) = archetype_key(summary_at(entry.of))
                               /\ Passes(entry.text, summary_at(entry.of))
        BY <1>1, <1>3, <1>5 DEF CacheInv
      <3> HIDE DEF entry
      <3>2. EntryFits(entry, s_(p))
        BY <1>3, <3>1, ArchetypesShareTexts
      <3>3. QED BY <3>2 DEF entry
    <2>3. QED BY <1>4, <1>5, <2>1, <2>2
  <1>6. CASE key_(p) \notin DOMAIN cache /\ ~client(p)
    <2>1. Return(p, "template", Anew(p, render_template(s_(p)))) /\ UNCHANGED <<asked, twice>>
      BY <1>6 DEF Lookup
    <2>2. QED BY <1>4, <1>6, <2>1
  <1>7. CASE key_(p) \notin DOMAIN cache /\ client(p)
    <2>1. /\ asked' = [asked EXCEPT ![p] = @ \union {key_(p)}]
          /\ twice' = [twice EXCEPT ![p] = @ \/ key_(p) \in asked[p]]
          /\ pc' = [pc EXCEPT ![p] = "ask"]
          /\ todo' = todo /\ shown' = shown
      BY <1>7 DEF Lookup
    <2>2. OthersStay(p)
      BY <1>1, <2>1 DEF TypeInv, OthersStay
    <2>3. TypeInv'
      <3>1. asked' \in [Procs -> SUBSET Keys] /\ pc' \in [Procs -> {"idle", "visit", "lookup", "ask", "put"}]
        BY <1>1, <1>3, <2>1 DEF TypeInv
      <3>2. twice' \in [Procs -> BOOLEAN]
        BY <1>1, <2>1, Zenon DEF TypeInv
      <3>3. QED BY <1>1, <2>1, <3>1, <3>2 DEF TypeInv
    <2>4. /\ pc'[p] = "ask" /\ todo'[p] = todo[p] /\ asked'[p] = asked[p] \union {key_(p)}
      BY <1>1, <2>1 DEF TypeInv
    <2>5. twice'[p] = (twice[p] \/ key_(p) \in asked[p])
      BY <1>1, <2>1, Zenon DEF TypeInv
    <2>6. s_(p)' = s_(p) /\ key_(p)' = key_(p) /\ Behind(p)' = Behind(p) /\ Tried(p)' = Tried(p)
      BY <1>1, <2>4 DEF s_, key_, Behind, Tried
    <2>7. QueueInv(p)'
      BY <1>1, <2>4 DEF QueueInv, Remaining
    <2>8. OnceInv(p)'
      BY <1>1, <2>4, <2>5, <2>6 DEF OnceInv
    <2>9. TextInv(p)'
      BY <1>1, <2>1, <2>4 DEF TextInv
    <2>10. QED BY <1>2, <2>2, <2>3, <2>7, <2>8, <2>9, OneProcessSteps
  <1>8. QED BY <1>5, <1>6, <1>7

LEMMA CompleteStep ==
  ASSUME IInv, NEW p \in Procs, Complete(p)
  PROVE  IInv'
  <1>1. /\ TypeInv /\ CacheInv /\ QueueInv(p) /\ OnceInv(p) /\ TextInv(p) /\ pc[p] = "ask"
        /\ cache' = cache /\ seen' = seen /\ asked' = asked /\ twice' = twice
    BY DEF IInv, Complete
  <1>2. CacheInv' /\ CacheGrows
    BY <1>1 DEF CacheInv, CacheGrows
  <1>3. /\ key_(p) \in Keys /\ s_(p) \in Summaries /\ key_(p) = archetype_key(s_(p))
    BY <1>1, Current
  <1>4. PICK raw \in Completions(s_(p)) :
          LET valid == _validate(raw, s_(p))
          IN  \/ /\ valid = NoText
                 /\ failed' = [failed EXCEPT ![p] = @ \union {key_(p)}]
                 /\ Return(p, "template", Anew(p, render_template(s_(p))))
                 /\ UNCHANGED text
              \/ /\ valid # NoText
                 /\ text' = [text EXCEPT ![p] = valid]
                 /\ pc' = [pc EXCEPT ![p] = "put"]
                 /\ UNCHANGED <<todo, shown, failed>>
    BY DEF Complete
  <1>5. CASE /\ failed' = [failed EXCEPT ![p] = @ \union {key_(p)}]
             /\ Return(p, "template", Anew(p, render_template(s_(p))))
             /\ UNCHANGED text
    <2>1. /\ todo' \in [Procs -> Seq(Summaries)]
          /\ pc' \in [Procs -> {"idle", "visit", "lookup", "ask", "put"}]
          /\ DOMAIN shown' = Procs
          /\ Continues(p, Tail(todo[p]))
          /\ \A q \in Procs \ {p} : pc'[q] = pc[q] /\ todo'[q] = todo[q] /\ shown'[q] = shown[q]
          /\ TextInv(p)'
          /\ Kind[p] = "prewarm" =>
               Remaining(p)' /\ (pc'[p] # "idle" => \A s \in Behind(p)' : s \in Behind(p) \/ s = s_(p))
      BY <1>1, <1>5, ReturnStep
    <2>2. /\ failed' \in [Procs -> SUBSET Keys] /\ failed'[p] = failed[p] \union {key_(p)}
          /\ \A q \in Procs \ {p} : failed'[q] = failed[q]
      BY <1>1, <1>3, <1>5 DEF TypeInv
    <2>3. TypeInv' /\ OthersStay(p)
      BY <1>1, <1>5, <2>1, <2>2 DEF TypeInv, OthersStay
    <2>4. key_(p) \in Tried(p)'
      BY <2>2 DEF Tried
    <2>5. OnceInv(p)'
      BY <1>1, <1>2, <2>1, <2>2, <2>4, DoneWith
    <2>6. QueueInv(p)'
      BY <1>1, <1>5, <2>1 DEF QueueInv, Continues
    <2>7. QED BY <1>2, <2>1, <2>3, <2>5, <2>6, OneProcessSteps
  <1>6. CASE /\ _validate(raw, s_(p)) # NoText
             /\ text' = [text EXCEPT ![p] = _validate(raw, s_(p))]
             /\ pc' = [pc EXCEPT ![p] = "put"]
             /\ UNCHANGED <<todo, shown, failed>>
    <2>1. Passes(_validate(raw, s_(p)), s_(p))
      BY <1>6, ValidTextPasses
    <2>2. TypeInv' /\ OthersStay(p)
      BY <1>1, <1>6 DEF TypeInv, OthersStay
    <2>3. /\ pc'[p] = "put" /\ text'[p] = _validate(raw, s_(p)) /\ todo'[p] = todo[p]
      BY <1>1, <1>6 DEF TypeInv
    <2>4. s_(p)' = s_(p) /\ key_(p)' = key_(p) /\ Behind(p)' = Behind(p) /\ Tried(p)' = Tried(p)
      BY <1>1, <1>6, <2>3 DEF s_, key_, Behind, Tried
    <2>5. QueueInv(p)'
      BY <1>1, <1>6, <2>3 DEF QueueInv, Remaining
    <2>6. OnceInv(p)'
      BY <1>1, <2>3, <2>4 DEF OnceInv
    <2>7. TextInv(p)'
      BY <1>1, <1>6, <2>1, <2>3, <2>4 DEF TextInv
    <2>8. QED BY <1>2, <2>2, <2>5, <2>6, <2>7, OneProcessSteps
  <1>7. QED BY <1>4, <1>5, <1>6

LEMMA PutStep ==
  ASSUME IInv, NEW p \in Procs, Put(p)
  PROVE  IInv'
  <1>1. /\ TypeInv /\ CacheInv /\ QueueInv(p) /\ OnceInv(p) /\ TextInv(p) /\ pc[p] = "put"
        /\ seen' = seen /\ asked' = asked /\ twice' = twice /\ failed' = failed
        /\ Return(p, "llm", Anew(p, text[p]))
        /\ text' = [text EXCEPT ![p] = NoText]
    BY DEF IInv, Put, history
  <1>2. /\ key_(p) \in Keys /\ s_(p) \in Summaries /\ key_(p) = archetype_key(s_(p))
        /\ Passes(text[p], s_(p)) /\ EntryFits(Anew(p, text[p]), s_(p))
    <2>1. /\ key_(p) \in Keys /\ s_(p) \in Summaries /\ key_(p) = archetype_key(s_(p))
          /\ Passes(text[p], s_(p))
      BY <1>1, Current DEF TextInv
    <2>2. QED BY <2>1, AnewFits
  <1>3. /\ DOMAIN cache' = DOMAIN cache \union {key_(p)}
        /\ cache'[key_(p)] = Anew(p, text[p])
        /\ \A k \in DOMAIN cache \ {key_(p)} : cache'[k] = cache[k]
    BY DEF Put
  <1>4. CacheInv'
    <2> SUFFICES ASSUME NEW k \in DOMAIN cache'
                 PROVE  /\ \A c \in cache'[k].text : ~HasDigit(c)
                        /\ cache'[k].of # 0 =>
                             /\ summary_at(cache'[k].of) \in Summaries
                             /\ k = archetype_key(summary_at(cache'[k].of))
                             /\ Passes(cache'[k].text, summary_at(cache'[k].of))
      BY DEF CacheInv
    <2>1. CASE k = key_(p)
      <3>1. cache'[k].text = text[p] /\ summary_at(cache'[k].of) = s_(p)
        BY <1>2, <1>3, <2>1, SummaryOfRow DEF Anew, Entry
      <3>2. QED BY <1>2, <2>1, <3>1 DEF Passes
    <2>2. CASE k # key_(p)
      BY <1>1, <1>3, <2>2 DEF CacheInv
    <2>3. QED BY <2>1, <2>2
  <1>5. CacheGrows
    BY <1>3 DEF CacheGrows
  <1>6. /\ todo' \in [Procs -> Seq(Summaries)]
        /\ pc' \in [Procs -> {"idle", "visit", "lookup", "ask", "put"}]
        /\ DOMAIN shown' = Procs
        /\ Continues(p, Tail(todo[p]))
        /\ \A q \in Procs \ {p} : pc'[q] = pc[q] /\ todo'[q] = todo[q] /\ shown'[q] = shown[q]
        /\ TextInv(p)'
        /\ Kind[p] = "prewarm" =>
             Remaining(p)' /\ (pc'[p] # "idle" => \A s \in Behind(p)' : s \in Behind(p) \/ s = s_(p))
    BY <1>1, <1>2, ReturnStep
  <1>7. DOMAIN text' = Procs /\ text'[p] = NoText /\ \A q \in Procs \ {p} : text'[q] = text[q]
    BY <1>1 DEF TypeInv
  <1>8. TypeInv' /\ OthersStay(p)
    BY <1>1, <1>2, <1>3, <1>6, <1>7 DEF TypeInv, OthersStay
  <1>9. key_(p) \in Tried(p)'
    BY <1>3 DEF Tried
  <1>10. OnceInv(p)'
    BY <1>1, <1>5, <1>6, <1>9, DoneWith
  <1>11. QueueInv(p)'
    BY <1>6, <1>7 DEF QueueInv, Continues
  <1>12. QED BY <1>4, <1>5, <1>6, <1>8, <1>10, <1>11, OneProcessSteps

LEMMA StopStep ==
  ASSUME IInv, NEW p \in Procs, Stop(p)
  PROVE  IInv'
  <1>1. /\ TypeInv /\ CacheInv /\ OnceInv(p) /\ TextInv(p)
        /\ cache' = cache /\ seen' = seen /\ shown' = shown
        /\ asked' = asked /\ twice' = twice /\ failed' = failed
        /\ pc'[p] = "idle" /\ todo'[p] = <<>> /\ text'[p] = NoText
    BY DEF IInv, Stop, history, TypeInv
  <1>2. TypeInv' /\ CacheInv' /\ OthersStay(p) /\ CacheGrows
    BY <1>1 DEF Stop, TypeInv, CacheInv, OthersStay, CacheGrows
  <1>3. QueueInv(p)'
    BY <1>1, AllSummaries DEF QueueInv, Remaining
  <1>4. OnceInv(p)' /\ TextInv(p)'
    BY <1>1 DEF OnceInv, TextInv
  <1>5. QED BY <1>2, <1>3, <1>4, OneProcessSteps

LEMMA NextInv == IInv /\ [Next]_vars => IInv'
  <1> SUFFICES ASSUME IInv, [Next]_vars PROVE IInv'
    OBVIOUS
  <1>1. ASSUME NEW p \in Procs, Start(p) \/ Step(p) \/ Stop(p)
        PROVE  IInv'
    BY <1>1, StartStep, VisitStep, LookupStep, CompleteStep, PutStep, StopStep DEF Step
  <1>2. CASE UNCHANGED vars
    <2>1. /\ cache' = cache /\ pc' = pc /\ todo' = todo /\ seen' = seen /\ text' = text
          /\ shown' = shown /\ asked' = asked /\ twice' = twice /\ failed' = failed
      BY <1>2 DEF vars, history
    <2>2. TypeInv' /\ CacheInv'
      BY <2>1 DEF IInv, TypeInv, CacheInv
    <2>3. ASSUME NEW p \in Procs PROVE QueueInv(p)' /\ OnceInv(p)' /\ TextInv(p)'
      <3>1. QueueInv(p) /\ OnceInv(p) /\ TextInv(p)
        BY DEF IInv
      <3>2. s_(p)' = s_(p) /\ key_(p)' = key_(p) /\ Behind(p)' = Behind(p) /\ Tried(p)' = Tried(p)
        BY <2>1 DEF s_, key_, Behind, Tried
      <3>3. QED BY <2>1, <3>1, <3>2 DEF QueueInv, Remaining, OnceInv, TextInv
    <2>4. QED BY <2>2, <2>3 DEF IInv
  <1>3. QED BY <1>1, <1>2 DEF Next

LEMMA Invariance == Spec => []IInv
  BY InitInv, NextInv, PTL DEF Spec

-----------------------------------------------------------------------------
\* Every reachable state is well typed: the cache holds what was in the file and
\* archetypes of recorded decisions only, a process is idle exactly if it has nothing left to explain,
\* and a valid text is held exactly until it is put.
THEOREM TypeCorrect == Spec => []TypeOK
  <1>1. IInv => TypeOK
    <2> SUFFICES ASSUME IInv PROVE TypeOK
      OBVIOUS
    <2>1. DOMAIN cache \subseteq {archetype_key(s) : s \in recorded} \union DOMAIN Shipped
      BY DEF IInv, TypeInv, Keys
    <2>2. pc \in [Procs -> {"idle", "visit", "lookup", "ask", "put"}]
      BY DEF IInv, TypeInv
    <2>3. ASSUME NEW p \in Procs
          PROVE  /\ Range(todo[p]) \subseteq recorded
                 /\ (todo[p] = <<>>) = (pc[p] = "idle")
                 /\ (text[p] # NoText) = (pc[p] = "put")
                 /\ asked[p] \subseteq seen[p] \/ Kind[p] # "prewarm"
                 /\ shown[p].source \in {"none", "template", "cache", "llm"}
      <3>1. todo[p] \in Seq(Summaries) /\ QueueInv(p) /\ OnceInv(p) /\ TextInv(p)
        BY DEF IInv, TypeInv
      <3>2. Range(todo[p]) \subseteq recorded
        <4>1. DOMAIN todo[p] = 1..Len(todo[p]) /\ \A n \in 1..Len(todo[p]) : todo[p][n] \in Summaries
          BY <3>1, LenProperties, ElementOfSeq
        <4>2. QED BY <4>1 DEF Range, Summaries
      <3>3. QED BY <3>1, <3>2 DEF QueueInv, OnceInv, TextInv
    <2>4. QED BY <2>1, <2>2, <2>3 DEF TypeOK
  <1>2. QED BY <1>1, Invariance, PTL

\* Prose that reaches a reader has no digit.  If it was not in the file before,
\* it names no cause and no tier of another decision by its token, and what it
\* says of the cause, the tier, the action and the confidence is as true of the
\* decision it is shown for as of the one it was written for: whatever the model
\* answered, for whichever decision, and whoever put it in the cache last.
THEOREM ServedAlwaysFitsItsDecision == Spec => []ServedFitsItsDecision
  <1>1. IInv => ServedFitsItsDecision
    <2> SUFFICES ASSUME IInv, NEW p \in Procs, shown[p].source \in {"cache", "llm"}
                 PROVE  EntryFits(shown[p], summary_at(shown[p].seq))
      BY DEF ServedFitsItsDecision, EntryFits, SharedKinds
    <2>1. QED BY DEF IInv, TextInv
  <1>2. QED BY <1>1, Invariance, PTL

\* prewarm() asks for no archetype twice, the ones that fail included, and with
\* a client leaves none behind untried, whatever others put meanwhile.
THEOREM PrewarmAlwaysCoversOnce == Spec => []PrewarmCoversOnce
  <1>1. IInv => PrewarmCoversOnce
    BY DEF IInv, OnceInv, Tried, PrewarmCoversOnce
  <1>2. QED BY <1>1, Invariance, PTL

-----------------------------------------------------------------------------
(* The tiers on the decision page.                                         *)

\* A legal tier is taken if there is one, the one that is preferred to all
\* others; otherwise none of the three.
LEMMA Taken ==
  ASSUME NEW cause, NEW allowed
  PROVE  LET permitted == proposed_tiers_for(cause) \intersect allowed
             taken == SelectTier(cause, allowed)
         IN  /\ permitted # {} => /\ taken \in permitted
                                  /\ \A s \in permitted \ {taken} : Prefers(cause, taken, s)
             /\ permitted = {} => taken \in {"T4", "T0"}
  <1> DEFINE permitted == proposed_tiers_for(cause) \intersect allowed
             Best(t) == \A s \in permitted \ {t} : Prefers(cause, t, s)
  <1>1. permitted \subseteq {"T1", "T2", "T3"}
    BY DEF proposed_tiers_for, ACTIONABLE_TIERS
  <1>2. IndexOf("T1") = 1 /\ IndexOf("T2") = 2 /\ IndexOf("T3") = 3
    BY DEF IndexOf, QUERIED_TIERS
  <1>3. CASE permitted # {}
    <2>1. \E t \in permitted : Best(t)
      <3>1. CASE default_tier(cause) \in permitted
        BY <3>1 DEF Prefers
      <3>2. CASE default_tier(cause) \notin permitted
        <4>1. \A s, t \in permitted : IndexOf(s) < IndexOf(t) => Prefers(cause, s, t)
          BY <3>2 DEF Prefers
        <4>2. CASE "T1" \in permitted
          BY <1>1, <1>2, <4>1, <4>2
        <4>3. CASE "T1" \notin permitted /\ "T2" \in permitted
          BY <1>1, <1>2, <4>1, <4>3
        <4>4. CASE "T1" \notin permitted /\ "T2" \notin permitted
          BY <1>1, <1>3, <4>4
        <4>5. QED BY <4>2, <4>3, <4>4
      <3>3. QED BY <3>1, <3>2
    <2>2. SelectTier(cause, allowed) = CHOOSE t \in permitted : Best(t)
      BY <1>3 DEF SelectTier
    <2>3. SelectTier(cause, allowed) \in permitted /\ Best(SelectTier(cause, allowed))
      <3> HIDE DEF Best, permitted
      <3> QED BY <2>1, <2>2
    <2>4. QED BY <1>3, <2>3
  <1>4. CASE permitted = {}
    BY <1>4 DEF SelectTier
  <1>5. QED BY <1>3, <1>4

\* What is preferred to another tier has the lower rank.
LEMMA PreferredRanksLower ==
  ASSUME NEW s, NEW t \in proposed_tiers_for(s.cause), NEW u \in proposed_tiers_for(s.cause),
         u # t, Prefers(s.cause, u, t)
  PROVE  tier_rank(s, t) > tier_rank(s, u)
  <1> DEFINE Tiers == proposed_tiers_for(s.cause)
             Before(v) == {w \in Tiers : w # v /\ Prefers(s.cause, w, v)}
  <1>1. IndexOf("T1") = 1 /\ IndexOf("T2") = 2 /\ IndexOf("T3") = 3
    BY DEF IndexOf, QUERIED_TIERS
  <1>2. Tiers \subseteq {"T1", "T2", "T3"}
    BY DEF proposed_tiers_for, ACTIONABLE_TIERS
  <1>3. \A v \in Tiers : IndexOf(v) \in Int
    BY <1>1, <1>2
  <1>4. /\ t # default_tier(s.cause)
        /\ u = default_tier(s.cause) \/ IndexOf(u) < IndexOf(t)
    BY DEF Prefers
  <1>5. Before(u) \subseteq Before(t)
    <2> SUFFICES ASSUME NEW w \in Tiers, w # u, Prefers(s.cause, w, u)
                 PROVE  w # t /\ Prefers(s.cause, w, t)
      OBVIOUS
    <2>1. /\ u # default_tier(s.cause)
          /\ w = default_tier(s.cause) \/ IndexOf(w) < IndexOf(u)
      BY DEF Prefers
    <2>2. IndexOf(u) < IndexOf(t)
      BY <1>4, <2>1
    <2>3. w = default_tier(s.cause) \/ IndexOf(w) < IndexOf(t)
      BY <1>3, <2>1, <2>2
    <2>4. w # t
      BY <1>3, <1>4, <2>1, <2>2
    <2>5. QED BY <1>4, <2>3, <2>4 DEF Prefers
  <1>6. u \in Before(t) /\ u \notin Before(u)
    OBVIOUS
  <1>7. tier_rank(s, t) = Cardinality(Before(t)) + 1 /\ tier_rank(s, u) = Cardinality(Before(u)) + 1
    BY DEF tier_rank
  <1>8. Before(t) \subseteq {"T1", "T2", "T3"}
    BY <1>2
  <1> HIDE DEF Before, Tiers
  <1>9. IsFiniteSet({"T1", "T2", "T3"})
    <2>1. IsFiniteSet({}) BY FS_EmptySet
    <2>2. IsFiniteSet({} \union {"T1"}) BY <2>1, FS_AddElement
    <2>3. IsFiniteSet({} \union {"T1"} \union {"T2"}) BY <2>2, FS_AddElement
    <2>4. IsFiniteSet({} \union {"T1"} \union {"T2"} \union {"T3"}) BY <2>3, FS_AddElement
    <2>5. {} \union {"T1"} \union {"T2"} \union {"T3"} = {"T1", "T2", "T3"} OBVIOUS
    <2>6. QED BY <2>4, <2>5
  <1>10. IsFiniteSet(Before(t)) /\ Cardinality(Before(t)) \in Nat
    BY <1>8, <1>9, FS_Subset, FS_CardinalityType
  <1>11. /\ Cardinality(Before(u)) \in Nat
         /\ Cardinality(Before(u)) < Cardinality(Before(t))
    <2>1. /\ IsFiniteSet(Before(u))
          /\ Cardinality(Before(u)) <= Cardinality(Before(t))
          /\ (Cardinality(Before(u)) = Cardinality(Before(t))) => Before(u) = Before(t)
      BY <1>5, <1>10, FS_Subset
    <2>2. Cardinality(Before(u)) \in Nat
      BY <2>1, FS_CardinalityType
    <2>3. Cardinality(Before(u)) # Cardinality(Before(t))
      BY <1>6, <2>1
    <2>4. QED BY <1>10, <2>1, <2>2, <2>3
  <1>12. QED BY <1>7, <1>10, <1>11

\* What the page says of each tier is why it was not taken: for every cause and
\* every outcome of the four queries.
THEOREM TierStatesAlwaysTrue == Spec => []TierStatesAreTrue
  <1>1. ASSUME NEW cause \in CAUSES, NEW allowed \in SUBSET Range(QUERIED_TIERS)
        PROVE  LET taken == SelectTier(cause, allowed)
                   s == [cause |-> cause, tier |-> taken,
                         tier_evaluations |-> [t \in Range(QUERIED_TIERS) |->
                                                 IF t \in allowed THEN {} ELSE {"denied"}]]
                   state == _tier_states(s)
               IN  \A t \in ACTIONABLE_TIERS :
                     /\ (state[t][1] = "deny") = (t \notin allowed)
                     /\ state[t][1] = "not-proposed" => cause \in NotRetryable
                     /\ state[t][1] = "not-preferred" =>
                          taken \in ACTIONABLE_TIERS /\ state[t][2] > tier_rank(s, taken)
    <2> DEFINE taken == SelectTier(cause, allowed)
               denials == [t \in Range(QUERIED_TIERS) |-> IF t \in allowed THEN {} ELSE {"denied"}]
               s == [cause |-> cause, tier |-> taken, tier_evaluations |-> denials]
               proposed == proposed_tiers_for(cause)
    <2>1. SUFFICES ASSUME NEW t \in ACTIONABLE_TIERS
                   PROVE  /\ (_tier_states(s)[t][1] = "deny") = (t \notin allowed)
                          /\ _tier_states(s)[t][1] = "not-proposed" => cause \in NotRetryable
                          /\ _tier_states(s)[t][1] = "not-preferred" =>
                               taken \in ACTIONABLE_TIERS
                                 /\ _tier_states(s)[t][2] > tier_rank(s, taken)
      OBVIOUS
    <2>2. t \in Range(QUERIED_TIERS) /\ t # "T4" /\ t # "T0"
      <3>1. DOMAIN QUERIED_TIERS = 1..4 /\ QUERIED_TIERS[1] = "T1" /\ QUERIED_TIERS[2] = "T2"
              /\ QUERIED_TIERS[3] = "T3"
        BY DEF QUERIED_TIERS
      <3> HIDE DEF QUERIED_TIERS
      <3>2. QED BY <3>1 DEF Range, ACTIONABLE_TIERS
    <2>3. s.cause = cause /\ s.tier = taken /\ s.tier_evaluations[t] = denials[t]
      OBVIOUS
    <2>4. denials[t] # {} <=> t \notin allowed
      BY <2>2
    <2>5. proposed \subseteq ACTIONABLE_TIERS
      BY DEF proposed_tiers_for
    <2>6. /\ proposed \intersect allowed # {} =>
               /\ taken \in proposed \intersect allowed
               /\ \A u \in (proposed \intersect allowed) \ {taken} : Prefers(cause, taken, u)
          /\ proposed \intersect allowed = {} => taken \in {"T4", "T0"}
      BY Taken
    <2> HIDE DEF s, denials, taken
    <2>7. _tier_states(s)[t] =
            CASE t = taken -> <<"taken">>
              [] t # taken /\ t \notin allowed -> <<"deny">>
              [] OTHER -> IF t \in proposed THEN <<"not-preferred", tier_rank(s, t)>>
                          ELSE <<"not-proposed">>
      BY <2>2, <2>3, <2>4 DEF _tier_states
    <2>8. t = taken => t \in allowed
      BY <2>2, <2>6
    <2>9. CASE t = taken
      <3>1. _tier_states(s)[t] = <<"taken">> BY <2>7, <2>9
      <3>2. QED BY <2>8, <2>9, <3>1
    <2>10. CASE t # taken /\ t \notin allowed
      <3>1. _tier_states(s)[t] = <<"deny">> BY <2>7, <2>10
      <3>2. QED BY <2>10, <3>1
    <2>11. CASE t # taken /\ t \in allowed /\ t \in proposed
      <3>1. _tier_states(s)[t] = <<"not-preferred", tier_rank(s, t)>> BY <2>7, <2>11
      <3>2. taken \in proposed /\ Prefers(cause, taken, t)
        BY <2>6, <2>11
      <3>3. tier_rank(s, t) > tier_rank(s, taken)
        BY <2>3, <2>11, <3>2, PreferredRanksLower
      <3>4. QED BY <2>5, <2>11, <3>1, <3>2, <3>3
    <2>12. CASE t # taken /\ t \in allowed /\ t \notin proposed
      <3>1. _tier_states(s)[t] = <<"not-proposed">> BY <2>7, <2>12
      <3>2. cause \in NotRetryable
        BY <2>12 DEF proposed_tiers_for, cause_class, retryable, NotRetryable
      <3>3. QED BY <2>12, <3>1, <3>2
    <2>13. QED BY <2>9, <2>10, <2>11, <2>12
  <1>2. TierStatesAreTrue
    BY <1>1 DEF TierStatesAreTrue
  <1>3. QED BY <1>2, PTL DEF Spec
=============================================================================
