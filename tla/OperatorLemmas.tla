--------------------------- MODULE OperatorLemmas ---------------------------
(***************************************************************************)
(* Lemmas about the operators several models are built from: sequences     *)
(* that grow, the rows a query selects, the binary search of               *)
(* WindowedCounters, sums over finite sets.                                *)
(*                                                                         *)
(* The library's induction theorems take a predicate, which no prover can  *)
(* instantiate.  Here induction is by the least member of the set of       *)
(* counterexamples.                                                        *)
(***************************************************************************)
EXTENDS TableRows, WindowedCounters, SequenceTheorems, WellFoundedInduction,
        FiniteSetTheorems, TLAPS

LEMMA LeastMember ==
  ASSUME NEW T \in SUBSET Nat, T # {}
  PROVE  \E n \in T : \A m \in T : n <= m
  <1> DEFINE R == {p \in Nat \X Nat : p[1] < p[2]}
  <1>1. IsWellFoundedOn(R, Nat)
    BY NatLessThanWellFounded DEF OpToRel
  <1>2. PICK n \in T : \A m \in T : <<m, n>> \notin R
    <2> HIDE DEF R
    <2>1. QED BY <1>1, WFMin
  <1>3. ASSUME NEW m \in T PROVE n <= m
    <2>1. m \in Nat /\ n \in Nat /\ <<m, n>> \notin R
      BY <1>2
    <2>2. ~(m < n)
      BY <2>1
    <2>3. QED BY <2>1, <2>2
  <1>4. QED BY <1>3

\* Finitely many numbers have a bound.
LEMMA BoundExists ==
  ASSUME NEW L \in Nat, NEW v \in [1..L -> Nat]
  PROVE  \E B \in Nat : \A n \in 1..L : v[n] <= B
  <1> DEFINE Bounded(m) == \E B \in Nat : \A n \in 1..m : v[n] <= B
             Bad == {m \in 0..L : ~Bounded(m)}
  <1>1. Bounded(0)
    <2>1. 0 \in Nat /\ 1..0 = {}
      OBVIOUS
    <2>2. QED BY <2>1
  <1>2. ASSUME NEW m \in 1..L, Bounded(m - 1) PROVE Bounded(m)
    <2>1. PICK B \in Nat : \A n \in 1..(m - 1) : v[n] <= B
      BY <1>2
    <2>2. PICK C \in Nat : C >= B /\ C >= v[m]
      <3>1. v[m] \in Nat
        OBVIOUS
      <3>2. CASE B >= v[m] BY <3>1, <3>2
      <3>3. CASE ~(B >= v[m]) BY <3>1, <3>3
      <3>4. QED BY <3>2, <3>3
    <2>3. ASSUME NEW n \in 1..m PROVE v[n] <= C
      <3>1. CASE n = m BY <2>2, <3>1
      <3>2. CASE n # m
        <4>1. n \in 1..(m - 1) /\ v[n] \in Nat BY <3>2
        <4>2. v[n] <= B BY <2>1, <4>1
        <4>3. QED BY <2>2, <4>1, <4>2
      <3>3. QED BY <3>1, <3>2
    <2>4. QED BY <2>3
  <1> HIDE DEF Bounded
  <1>3. Bad = {}
    <2> SUFFICES ASSUME Bad # {} PROVE FALSE
      OBVIOUS
    <2>1. Bad \in SUBSET Nat
      OBVIOUS
    <2>2. PICK m \in Bad : \A l \in Bad : m <= l
      BY <2>1, LeastMember
    <2>3. m \in 1..L /\ ~Bounded(m)
      BY <1>1, <2>2
    <2>4. m - 1 \in 0..L /\ m - 1 \notin Bad
      BY <2>2, <2>3
    <2>5. QED BY <1>2, <2>3, <2>4
  <1>4. L \in 0..L
    OBVIOUS
  <1>5. Bounded(L)
    BY <1>3, <1>4
  <1>6. QED BY <1>5 DEF Bounded

-----------------------------------------------------------------------------
\* Sequences of whatever they hold.

Elements(s) == {s[n] : n \in 1..Len(s)}

\* Appending to a sequence whose elements have no type of their own.
LEMMA AppendAnything ==
  ASSUME NEW s, s \in Seq(Elements(s)), NEW e
  PROVE  LET t == Append(s, e)
         IN  /\ t \in Seq(Elements(t))
             /\ Len(s) \in Nat
             /\ Len(t) = Len(s) + 1
             /\ \A n \in 1..Len(s) : t[n] = s[n]
             /\ t[Len(s) + 1] = e
  <1> DEFINE S == Elements(s) \union {e}
             t == Append(s, e)
  <1>1. s \in Seq(S)
    BY SeqMonotonic
  <1>2. /\ t \in Seq(S) /\ Len(s) \in Nat /\ Len(t) = Len(s) + 1
        /\ \A n \in 1..Len(s) : t[n] = s[n]
        /\ t[Len(s) + 1] = e
    <2> HIDE DEF S
    <2>1. e \in S
      BY DEF S
    <2>2. QED BY <1>1, <2>1, AppendProperties, LenProperties
  <1>3. S \subseteq Elements(t)
    <2> HIDE DEF t
    <2>1. QED BY <1>2 DEF Elements
  <1>4. QED BY <1>2, <1>3, SeqMonotonic

\* ... and replacing one.
LEMMA UpdateAnything ==
  ASSUME NEW s, s \in Seq(Elements(s)), NEW n, NEW e
  PROVE  LET t == [s EXCEPT ![n] = e]
         IN  t \in Seq(Elements(t)) /\ Len(t) = Len(s)
  <1> DEFINE t == [s EXCEPT ![n] = e]
             L == Len(s)
  <1>1. L \in Nat /\ s \in [1..L -> Elements(s)]
    BY LenProperties
  <1>2. DOMAIN t = 1..L /\ t = [k \in 1..L |-> t[k]]
    BY <1>1
  <1> HIDE DEF t, L
  <1> DEFINE S == {t[k] : k \in 1..L}
  <1>3. t \in [1..L -> S]
    BY <1>2
  <1>4. t \in Seq(S) /\ Len(t) = L
    <2> HIDE DEF S
    <2>1. t \in Seq(S)
      BY <1>1, <1>3, IsASeq
    <2>2. QED BY <1>1, <1>2, <2>1, LenProperties
  <1>5. S = Elements(t)
    BY <1>4 DEF Elements
  <1>6. QED BY <1>4, <1>5 DEF t, L

-----------------------------------------------------------------------------
\* Binary search.

Sorted(s) == \A m, n \in 1..Len(s) : m <= n => s[m] <= s[n]

\* k is where a sorted sequence changes from "at most x" to "greater than x".
AfterEquals(s, x, k) ==
  /\ k \in 0..Len(s)
  /\ \A n \in 1..Len(s) : (s[n] <= x) = (n <= k)

\* ... and from "less than x" to "at least x".
BeforeEquals(s, x, k) ==
  /\ k \in 0..Len(s)
  /\ \A n \in 1..Len(s) : (s[n] < x) = (n <= k)

LEMMA SplitExists ==
  ASSUME NEW s \in Seq(Int), Sorted(s), NEW x \in Int
  PROVE  /\ \E k : AfterEquals(s, x, k)
         /\ \E k : BeforeEquals(s, x, k)
  <1> DEFINE L == Len(s)
             A == {k \in 0..L : \A n \in 1..L : k < n => x < s[n]}
             B == {k \in 0..L : \A n \in 1..L : k < n => x <= s[n]}
  <1>1. L \in Nat /\ \A n \in 1..L : s[n] \in Int
    BY LenProperties, ElementOfSeq
  <1> HIDE DEF L
  <1>2. L \in A /\ L \in B /\ A \subseteq Nat /\ B \subseteq Nat
    BY <1>1
  <1>3. PICK a \in A : \A k \in A : a <= k
    <2> HIDE DEF A
    <2>1. QED BY <1>2, LeastMember
  <1>4. ASSUME NEW n \in 1..L PROVE (s[n] <= x) = (n <= a)
    <2>1. CASE n <= a
      <3>1. a # 0 /\ a \in 1..L
        BY <2>1, <1>1
      <3>2. a - 1 \notin A
        BY <1>1, <1>3, <3>1
      <3>3. s[a] <= x
        BY <1>1, <3>1, <3>2, <1>3
      <3>4. s[n] <= s[a]
        BY <2>1, <3>1 DEF Sorted, L
      <3>5. QED BY <1>1, <2>1, <3>1, <3>3, <3>4
    <2>2. CASE ~(n <= a)
      BY <1>1, <1>3, <2>2
    <2>3. QED BY <2>1, <2>2
  <1>5. PICK b \in B : \A k \in B : b <= k
    <2> HIDE DEF B
    <2>1. QED BY <1>2, LeastMember
  <1>6. ASSUME NEW n \in 1..L PROVE (s[n] < x) = (n <= b)
    <2>1. CASE n <= b
      <3>1. b # 0 /\ b \in 1..L
        BY <2>1, <1>1
      <3>2. b - 1 \notin B
        BY <1>1, <1>5, <3>1
      <3>3. s[b] < x
        BY <1>1, <3>1, <3>2, <1>5
      <3>4. s[n] <= s[b]
        BY <2>1, <3>1 DEF Sorted, L
      <3>5. QED BY <1>1, <2>1, <3>1, <3>3, <3>4
    <2>2. CASE ~(n <= b)
      BY <1>1, <1>5, <2>2
    <2>3. QED BY <2>1, <2>2
  <1>7. AfterEquals(s, x, a) /\ BeforeEquals(s, x, b)
    BY <1>1, <1>4, <1>6 DEF AfterEquals, BeforeEquals, L
  <1>8. QED BY <1>7

\* A search of the positions 1..L: G are those it goes past.
Spans(L) == (0..L) \X (0..L)

Middle(p) == (p[1] + p[2]) \div 2

SearchStep(G, f, p) ==
  IF p[1] >= p[2] THEN p[1]
  ELSE IF Middle(p) + 1 \in G THEN f[<<Middle(p) + 1, p[2]>>] ELSE f[<<p[1], Middle(p)>>]

IsSearch(L, G, f) == f = [p \in Spans(L) |-> SearchStep(G, f, p)]

\* The search of a span ends at k, or at the end of the span nearest to it.
Nearest(k, p) ==
  IF p[1] >= p[2] \/ k < p[1] THEN p[1] ELSE IF p[2] < k THEN p[2] ELSE k

LEMMA Halves ==
  ASSUME NEW L \in Nat, NEW p \in Spans(L), p[1] < p[2]
  PROVE  /\ p[1] \in 0..L /\ p[2] \in 0..L
         /\ Middle(p) \in 0..L /\ Middle(p) + 1 \in 1..L
         /\ p[1] <= Middle(p) /\ Middle(p) < p[2]
         /\ <<p[1], Middle(p)>> \in Spans(L) /\ <<Middle(p) + 1, p[2]>> \in Spans(L)
  BY DEF Spans, Middle

\* If the halves are searched right, so is the span.
LEMMA StepIsNearest ==
  ASSUME NEW L \in Nat, NEW k \in 0..L, NEW G, \A n \in 1..L : (n \in G) = (n <= k),
         NEW f, NEW p \in Spans(L),
         p[1] < p[2] => /\ f[<<p[1], Middle(p)>>] = Nearest(k, <<p[1], Middle(p)>>)
                        /\ f[<<Middle(p) + 1, p[2]>>] = Nearest(k, <<Middle(p) + 1, p[2]>>)
  PROVE  SearchStep(G, f, p) = Nearest(k, p)
  <1>1. CASE p[1] >= p[2]
    BY <1>1 DEF SearchStep, Nearest
  <1>2. CASE p[1] < p[2]
    <2> DEFINE m == Middle(p)
    <2>1. /\ m \in 0..L /\ m + 1 \in 1..L /\ p[1] <= m /\ m < p[2]
          /\ p[1] \in 0..L /\ p[2] \in 0..L
      BY <1>2, Halves
    <2>2. SearchStep(G, f, p) =
            IF m + 1 <= k THEN Nearest(k, <<m + 1, p[2]>>) ELSE Nearest(k, <<p[1], m>>)
      BY <1>2, <2>1 DEF SearchStep
    <2> HIDE DEF m
    <2>3. Nearest(k, <<p[1], m>>) = IF p[1] >= m \/ k < p[1] THEN p[1] ELSE IF m < k THEN m ELSE k
      BY DEF Nearest
    <2>4. Nearest(k, <<m + 1, p[2]>>) =
            IF m + 1 >= p[2] \/ k < m + 1 THEN m + 1 ELSE IF p[2] < k THEN p[2] ELSE k
      BY DEF Nearest
    <2>5. Nearest(k, p) = IF k < p[1] THEN p[1] ELSE IF p[2] < k THEN p[2] ELSE k
      BY <1>2, <2>1 DEF Nearest
    <2>6. QED BY <2>1, <2>2, <2>3, <2>4, <2>5
  <1>3. QED BY <1>1, <1>2 DEF Spans

\* There is a search, and every search ends where the positions gone past end.
LEMMA SearchEnds ==
  ASSUME NEW L \in Nat, NEW k \in 0..L, NEW G, \A n \in 1..L : (n \in G) = (n <= k)
  PROVE  /\ \E f : IsSearch(L, G, f)
         /\ \A f : IsSearch(L, G, f) => f[<<0, L>>] = k
  <1>1. IsSearch(L, G, [p \in Spans(L) |-> Nearest(k, p)])
    <2> DEFINE near == [p \in Spans(L) |-> Nearest(k, p)]
    <2>1. \A p \in Spans(L) : near[p] = Nearest(k, p)
      OBVIOUS
    <2> HIDE DEF near
    <2>2. ASSUME NEW p \in Spans(L) PROVE SearchStep(G, near, p) = Nearest(k, p)
      <3>1. ASSUME p[1] < p[2]
            PROVE  /\ near[<<p[1], Middle(p)>>] = Nearest(k, <<p[1], Middle(p)>>)
                   /\ near[<<Middle(p) + 1, p[2]>>] = Nearest(k, <<Middle(p) + 1, p[2]>>)
        <4>1. <<p[1], Middle(p)>> \in Spans(L) /\ <<Middle(p) + 1, p[2]>> \in Spans(L)
          BY <3>1, Halves
        <4>2. QED BY <4>1, <2>1
      <3>2. QED BY <3>1, StepIsNearest
    <2>3. near = [p \in Spans(L) |-> SearchStep(G, near, p)]
      BY <2>2 DEF near
    <2>4. QED BY <2>3 DEF near, IsSearch
  <1>2. ASSUME NEW f, IsSearch(L, G, f) PROVE f[<<0, L>>] = k
    <2> DEFINE Wrong == {p \in Spans(L) : f[p] # Nearest(k, p)}
               Size(p) == IF p[1] < p[2] THEN p[2] - p[1] ELSE 0
    <2>1. \A p \in Spans(L) : f[p] = SearchStep(G, f, p)
      BY <1>2 DEF IsSearch
    <2>2. Wrong = {}
      <3> SUFFICES ASSUME Wrong # {} PROVE FALSE
        OBVIOUS
      <3>1. {Size(p) : p \in Wrong} \subseteq Nat /\ {Size(p) : p \in Wrong} # {}
        BY DEF Spans
      <3>2. PICK p \in Wrong : \A q \in Wrong : Size(p) <= Size(q)
        <4> HIDE DEF Wrong, Size
        <4>1. PICK n \in {Size(p) : p \in Wrong} : \A m \in {Size(p) : p \in Wrong} : n <= m
          BY <3>1, LeastMember
        <4>2. PICK p \in Wrong : n = Size(p)
          BY <4>1
        <4>3. QED BY <4>1, <4>2
      <3>3. p \in Spans(L) /\ f[p] # Nearest(k, p)
        OBVIOUS
      <3>4. ASSUME p[1] < p[2]
            PROVE  <<p[1], Middle(p)>> \notin Wrong /\ <<Middle(p) + 1, p[2]>> \notin Wrong
        <4>1. /\ p[1] \in 0..L /\ p[2] \in 0..L /\ Middle(p) \in 0..L
              /\ p[1] <= Middle(p) /\ Middle(p) < p[2]
          BY <3>3, <3>4, Halves
        <4>2. /\ Size(<<p[1], Middle(p)>>) < Size(p)
              /\ Size(<<Middle(p) + 1, p[2]>>) < Size(p)
          BY <3>4, <4>1
        <4>3. Size(p) \in Nat /\ \A q \in Wrong : Size(q) \in Nat
          BY <3>1
        <4> HIDE DEF Wrong, Size
        <4>4. QED BY <3>2, <4>2, <4>3
      <3>5. SearchStep(G, f, p) = Nearest(k, p)
        BY SMTT(30), <3>3, <3>4, Halves, StepIsNearest
      <3>6. QED BY <2>1, <3>3, <3>5
    <2>3. <<0, L>> \in Spans(L)
      BY DEF Spans
    <2>4. f[<<0, L>>] = Nearest(k, <<0, L>>)
      BY <2>2, <2>3
    <2>5. QED BY <2>4 DEF Nearest
  <1>3. QED BY <1>1, <1>2

\* So each of Python's searches finds the place its name says.
LEMMA BisectRight ==
  ASSUME NEW s \in Seq(Int), NEW x \in Int, NEW k, AfterEquals(s, x, k)
  PROVE  bisect_right(s, x) = k
  <1> DEFINE L == Len(s)
             G == {n \in 1..L : s[n] <= x}
             Step(f, p) == IF p[1] >= p[2] THEN p[1]
                           ELSE IF x < s[Middle(p) + 1] THEN f[<<p[1], Middle(p)>>]
                           ELSE f[<<Middle(p) + 1, p[2]>>]
             Is(f) == f = [p \in Spans(L) |-> Step(f, p)]
  <1>1. L \in Nat /\ k \in 0..L /\ \A n \in 1..L : s[n] \in Int /\ (n \in G) = (n <= k)
    BY LenProperties, ElementOfSeq DEF AfterEquals
  <1>2. ASSUME NEW f PROVE Is(f) <=> IsSearch(L, G, f)
    <2>1. ASSUME NEW p \in Spans(L) PROVE Step(f, p) = SearchStep(G, f, p)
      <3>1. CASE p[1] >= p[2]
        BY <3>1 DEF SearchStep
      <3>2. CASE ~(p[1] >= p[2])
        <4>1. Middle(p) + 1 \in 1..L
          <5>1. p[1] < p[2]
            BY <1>1, <3>2 DEF Spans
          <5> HIDE DEF L
          <5>2. QED BY <1>1, <5>1, Halves
        <4>2. (x < s[Middle(p) + 1]) = (Middle(p) + 1 \notin G)
          BY <1>1, <4>1
        <4> HIDE DEF G
        <4>3. QED BY <3>2, <4>2 DEF SearchStep
      <3>3. QED BY <3>1, <3>2
    <2> HIDE DEF Step
    <2>2. QED BY <2>1 DEF IsSearch
  <1>3. bisect_right(s, x) = (CHOOSE f : Is(f))[<<0, L>>]
    BY DEF bisect_right, Middle, Spans
  <1> HIDE DEF Is, G, L
  <1>4. Is(CHOOSE f : Is(f))
    BY <1>1, <1>2, SearchEnds
  <1>5. QED BY <1>1, <1>2, <1>3, <1>4, SearchEnds

LEMMA BisectLeft ==
  ASSUME NEW s \in Seq(Int), NEW x \in Int, NEW k, BeforeEquals(s, x, k)
  PROVE  bisect_left(s, x) = k
  <1> DEFINE L == Len(s)
             G == {n \in 1..L : s[n] < x}
             Step(f, p) == IF p[1] >= p[2] THEN p[1]
                           ELSE IF s[Middle(p) + 1] < x THEN f[<<Middle(p) + 1, p[2]>>]
                           ELSE f[<<p[1], Middle(p)>>]
             Is(f) == f = [p \in Spans(L) |-> Step(f, p)]
  <1>1. L \in Nat /\ k \in 0..L /\ \A n \in 1..L : s[n] \in Int /\ (n \in G) = (n <= k)
    BY LenProperties, ElementOfSeq DEF BeforeEquals
  <1>2. ASSUME NEW f PROVE Is(f) <=> IsSearch(L, G, f)
    <2>1. ASSUME NEW p \in Spans(L) PROVE Step(f, p) = SearchStep(G, f, p)
      <3>1. CASE p[1] >= p[2]
        BY <3>1 DEF SearchStep
      <3>2. CASE ~(p[1] >= p[2])
        <4>1. Middle(p) + 1 \in 1..L
          <5>1. p[1] < p[2]
            BY <1>1, <3>2 DEF Spans
          <5> HIDE DEF L
          <5>2. QED BY <1>1, <5>1, Halves
        <4>2. (s[Middle(p) + 1] < x) = (Middle(p) + 1 \in G)
          BY <1>1, <4>1
        <4> HIDE DEF G
        <4>3. QED BY <3>2, <4>2 DEF SearchStep
      <3>3. QED BY <3>1, <3>2
    <2> HIDE DEF Step
    <2>2. QED BY <2>1 DEF IsSearch
  <1>3. bisect_left(s, x) = (CHOOSE f : Is(f))[<<0, L>>]
    BY DEF bisect_left, Middle, Spans
  <1> HIDE DEF Is, G, L
  <1>4. Is(CHOOSE f : Is(f))
    BY <1>1, <1>2, SearchEnds
  <1>5. QED BY <1>1, <1>2, <1>3, <1>4, SearchEnds

\* insort keeps a sequence sorted, and puts one element into it.
LEMMA InsortProperties ==
  ASSUME NEW s \in Seq(Nat), Sorted(s), NEW x \in Nat
  PROVE  LET t == insort(s, x)
         IN  /\ t \in Seq(Nat) /\ Sorted(t)
             /\ Len(t) = Len(s) + 1
             /\ \E k \in 0..Len(s) : /\ t[k + 1] = x
                                     /\ \A n \in 1..Len(s) : t[IF n <= k THEN n ELSE n + 1] = s[n]
  <1> DEFINE L == Len(s)
             t == insort(s, x)
  <1>1. L \in Nat /\ s \in Seq(Int) /\ \A n \in 1..L : s[n] \in Nat
    BY LenProperties, ElementOfSeq, SeqMonotonic, Nat \subseteq Int
  <1>2. PICK k : AfterEquals(s, x, k)
    BY <1>1, SplitExists
  <1>3. /\ k \in 0..L
        /\ \A n \in 1..L : (s[n] <= x) = (n <= k)
        /\ bisect_right(s, x) = k
    <2>1. bisect_right(s, x) = k
      BY <1>1, <1>2, BisectRight
    <2>2. QED BY <1>2, <2>1 DEF AfterEquals
  <1> HIDE DEF L
  <1> DEFINE before == SubSeq(s, 1, k)
             after == SubSeq(s, k + 1, L)
  <1>4. /\ before \in Seq(Nat) /\ Len(before) = k
        /\ \A n \in 1..k : before[n] = s[n]
    BY <1>1, <1>3, SubSeqProperties
  <1>5. /\ after \in Seq(Nat) /\ Len(after) = L - k
        /\ \A n \in 1..(L - k) : after[n] = s[k + n]
    <2>1. /\ after \in Seq(Nat) /\ Len(after) = IF k + 1 <= L THEN L - (k + 1) + 1 ELSE 0
          /\ \A n \in 1..(L - (k + 1) + 1) : after[n] = s[(k + 1) + n - 1]
      <3>1. k + 1 \in Int /\ L \in Int /\ \A n \in (k + 1)..L : s[n] \in Nat
        BY <1>1, <1>3
      <3>2. QED BY <3>1, SubSeqProperties
    <2>2. QED BY <1>1, <1>3, <2>1
  <1>6. t = (before \o <<x>>) \o after
    <2>1. t = SubSeq(s, 1, (k + 1) - 1) \o <<x>> \o SubSeq(s, k + 1, Len(s))
      BY <1>3 DEF insort, InsertAt
    <2>2. (k + 1) - 1 = k
      BY <1>3
    <2>3. QED BY <2>1, <2>2 DEF L
  <1> HIDE DEF t, before, after
  <1>7. /\ before \o <<x>> \in Seq(Nat) /\ Len(before \o <<x>>) = k + 1
        /\ \A n \in 1..k : (before \o <<x>>)[n] = s[n]
        /\ (before \o <<x>>)[k + 1] = x
    <2>1. <<x>> \in Seq(Nat) /\ Len(<<x>>) = 1 /\ <<x>>[1] = x
      OBVIOUS
    <2>2. /\ before \o <<x>> \in Seq(Nat) /\ Len(before \o <<x>>) = k + 1
          /\ \A n \in 1..(k + 1) : (before \o <<x>>)[n] = IF n <= k THEN before[n] ELSE <<x>>[n - k]
      BY <1>4, <2>1, ConcatProperties
    <2>3. ASSUME NEW n \in 1..k PROVE (before \o <<x>>)[n] = s[n]
      <3>1. n \in 1..(k + 1) /\ n <= k
        BY <1>3
      <3>2. (before \o <<x>>)[n] = before[n]
        BY <2>2, <3>1
      <3>3. QED BY <1>4, <3>2
    <2>4. (before \o <<x>>)[k + 1] = x
      <3>1. k + 1 \in 1..(k + 1) /\ ~(k + 1 <= k) /\ (k + 1) - k = 1
        BY <1>3
      <3>2. (before \o <<x>>)[k + 1] = <<x>>[1]
        BY <2>2, <3>1
      <3>3. QED BY <2>1, <3>2
    <2>5. QED BY <2>2, <2>3, <2>4
  <1>8. /\ t \in Seq(Nat) /\ Len(t) = L + 1
        /\ \A n \in 1..(L + 1) :
             t[n] = IF n <= k + 1 THEN (before \o <<x>>)[n] ELSE after[n - (k + 1)]
    <2>1. /\ t \in Seq(Nat) /\ Len(t) = (k + 1) + (L - k)
          /\ \A n \in 1..((k + 1) + (L - k)) :
               t[n] = IF n <= k + 1 THEN (before \o <<x>>)[n] ELSE after[n - (k + 1)]
      <3> DEFINE front == before \o <<x>>
      <3>1. front \in Seq(Nat) /\ Len(front) = k + 1 /\ t = front \o after
        BY <1>6, <1>7
      <3> HIDE DEF front
      <3>2. /\ front \o after \in Seq(Nat)
            /\ Len(front \o after) = Len(front) + Len(after)
            /\ \A n \in 1..(Len(front) + Len(after)) :
                 (front \o after)[n] = IF n <= Len(front) THEN front[n] ELSE after[n - Len(front)]
        BY <1>5, <3>1, ConcatProperties
      <3>3. /\ t \in Seq(Nat) /\ Len(t) = (k + 1) + (L - k)
            /\ \A n \in 1..((k + 1) + (L - k)) :
                 t[n] = IF n <= k + 1 THEN front[n] ELSE after[n - (k + 1)]
        BY <1>5, <3>1, <3>2
      <3>4. QED BY <3>3 DEF front
    <2>2. (k + 1) + (L - k) = L + 1
      BY <1>1, <1>3
    <2>3. QED BY <2>1, <2>2
  <1>9. t[k + 1] = x /\ \A n \in 1..L : t[IF n <= k THEN n ELSE n + 1] = s[n]
    <2>1. t[k + 1] = x
      BY <1>1, <1>3, <1>7, <1>8
    <2>2. ASSUME NEW n \in 1..L, n <= k PROVE t[n] = s[n]
      <3>1. n \in 1..(L + 1) /\ n <= k + 1 /\ n \in 1..k
        BY <1>1, <1>3, <2>2
      <3>2. QED BY <1>7, <1>8, <3>1
    <2>3. ASSUME NEW n \in 1..L, ~(n <= k) PROVE t[n + 1] = s[n]
      <3>1. n + 1 \in 1..(L + 1) /\ ~(n + 1 <= k + 1) /\ (n + 1) - (k + 1) = n - k
            /\ n - k \in 1..(L - k) /\ k + (n - k) = n
        BY <1>1, <1>3, <2>3
      <3>2. QED BY <1>5, <1>8, <3>1
    <2>4. QED BY <2>1, <2>2, <2>3
  <1>10. Sorted(t)
    <2>1. ASSUME NEW m \in 1..(L + 1), NEW n \in 1..(L + 1), m <= n
          PROVE  t[m] <= t[n]
      <3>1. \A j \in 1..L, l \in 1..L : j <= l => s[j] <= s[l]
        BY DEF Sorted, L
      <3>2. \A j \in 1..(L + 1) :
              t[j] = IF j <= k THEN s[j] ELSE IF j = k + 1 THEN x ELSE s[j - 1]
        <4>1. ASSUME NEW j \in 1..(L + 1), ~(j <= k), j # k + 1 PROVE t[j] = s[j - 1]
          <5>1. j - 1 \in 1..L /\ ~(j - 1 <= k) /\ (j - 1) + 1 = j
            BY <1>1, <1>3, <4>1
          <5>2. QED BY <1>9, <5>1
        <4>2. ASSUME NEW j \in 1..(L + 1), j <= k PROVE t[j] = s[j]
          BY <1>1, <1>3, <1>9, <4>2
        <4>3. QED BY <1>9, <4>1, <4>2
      <3> DEFINE jm == IF m <= k THEN m ELSE m - 1
                 jn == IF n <= k THEN n ELSE n - 1
      <3>3. CASE m = k + 1 \/ n = k + 1
        BY <1>1, <1>3, <2>1, <3>2, <3>3
      <3>4. CASE m # k + 1 /\ n # k + 1
        <4>1. jm \in 1..L /\ jn \in 1..L /\ jm <= jn
          BY <1>1, <1>3, <2>1, <3>4
        <4>2. t[m] = s[jm] /\ t[n] = s[jn]
          BY <3>2, <3>4
        <4> HIDE DEF jm, jn
        <4>3. QED BY <3>1, <4>1, <4>2
      <3>5. QED BY <3>3, <3>4
    <2>2. QED BY <1>8, <2>1 DEF Sorted
  <1>11. QED BY <1>3, <1>8, <1>9, <1>10 DEF t, L

\* The positions of s that hold one of T.
At(s, T) == {n \in 1..Len(s) : s[n] \in T}

LEMMA AtIsFinite ==
  ASSUME NEW S, NEW s \in Seq(S), NEW T
  PROVE  IsFiniteSet(At(s, T)) /\ Cardinality(At(s, T)) \in Nat
  <1>1. Len(s) \in Nat /\ At(s, T) \subseteq 1..Len(s)
    BY LenProperties DEF At
  <1>2. IsFiniteSet(1..Len(s))
    BY <1>1, FS_Interval
  <1>3. QED BY <1>1, <1>2, FS_Subset, FS_CardinalityType

LEMMA InsortCounts ==
  ASSUME NEW s \in Seq(Nat), Sorted(s), NEW x \in Nat, NEW T
  PROVE  Cardinality(At(insort(s, x), T)) =
           Cardinality(At(s, T)) + (IF x \in T THEN 1 ELSE 0)
  <1> DEFINE L == Len(s)
             t == insort(s, x)
  <1>1. L \in Nat /\ t \in Seq(Nat) /\ Len(t) = L + 1
    BY LenProperties, InsortProperties
  <1>2. PICK k \in 0..L : /\ t[k + 1] = x
                          /\ \A n \in 1..L : t[IF n <= k THEN n ELSE n + 1] = s[n]
    BY InsortProperties
  <1> HIDE DEF L, t
  <1> DEFINE to == [n \in At(s, T) |-> IF n <= k THEN n ELSE n + 1]
             Old == {to[n] : n \in At(s, T)}
  <1>3. At(s, T) \subseteq 1..L
    BY DEF At, L
  <1>4. IsFiniteSet(Old) /\ Cardinality(Old) = Cardinality(At(s, T))
    <2>1. to \in Bijection(At(s, T), Old)
      <3>1. \A m, n \in At(s, T) : to[m] = to[n] => m = n
        <4>1. ASSUME NEW m \in At(s, T), NEW n \in At(s, T), to[m] = to[n] PROVE m = n
          <5>1. m \in 1..L /\ n \in 1..L
            BY <1>3
          <5>2. (IF m <= k THEN m ELSE m + 1) = (IF n <= k THEN n ELSE n + 1)
            BY <4>1
          <5>3. QED BY <1>1, <5>1, <5>2
        <4>2. QED BY <4>1
      <3>2. QED BY <3>1 DEF Bijection, Injection, Surjection, IsInjective
    <2>2. ExistsBijection(At(s, T), Old)
      <3> HIDE DEF to, Old
      <3>1. QED BY <2>1 DEF ExistsBijection
    <2>3. QED BY <2>2, AtIsFinite, FS_Bijection
  <1>5. At(t, T) = Old \union (IF x \in T THEN {k + 1} ELSE {}) /\ k + 1 \notin Old
    <2>1. \A n \in 1..L : n \in At(s, T) <=> s[n] \in T
      BY DEF At, L
    <2>2. \A n \in 1..(L + 1) : n \in At(t, T) <=> t[n] \in T
      BY <1>1 DEF At
    <2>3. k + 1 \notin Old
      BY <1>1, <1>2, <1>3
    <2>4. ASSUME NEW m \in Old PROVE m \in At(t, T) /\ m \in 1..(L + 1)
      <3>1. PICK n \in At(s, T) : m = IF n <= k THEN n ELSE n + 1
        OBVIOUS
      <3>2. n \in 1..L /\ s[n] \in T /\ m \in 1..(L + 1)
        BY <1>1, <1>3, <2>1, <3>1
      <3>3. t[m] = s[n]
        BY <1>2, <3>1, <3>2
      <3>4. QED BY <2>2, <3>2, <3>3
    <2>5. ASSUME NEW m \in At(t, T), m # k + 1 PROVE m \in Old
      <3> DEFINE n == IF m <= k THEN m ELSE m - 1
      <3>1. m \in 1..(L + 1) /\ t[m] \in T
        BY <1>1 DEF At
      <3>2. n \in 1..L /\ m = (IF n <= k THEN n ELSE n + 1)
        BY <1>1, <1>2, <2>5, <3>1
      <3> HIDE DEF n
      <3>3. s[n] \in T
        BY <1>2, <3>1, <3>2
      <3>4. n \in At(s, T)
        BY <2>1, <3>2, <3>3
      <3>5. QED BY <3>2, <3>4
    <2>6. k + 1 \in 1..(L + 1) /\ (k + 1 \in At(t, T) <=> x \in T)
      BY <1>1, <1>2, <2>2
    <2> HIDE DEF Old
    <2>7. QED BY <2>3, <2>4, <2>5, <2>6
  <1> HIDE DEF Old, to
  <1>6. Cardinality(At(s, T)) \in Nat
    BY AtIsFinite
  <1>7. CASE x \in T
    BY <1>4, <1>5, <1>7, FS_AddElement DEF t
  <1>8. CASE x \notin T
    <2>1. At(t, T) = Old
      BY <1>5, <1>8
    <2>2. QED BY <1>4, <1>6, <1>8, <2>1 DEF t
  <1>9. QED BY <1>7, <1>8

\* count()'s two searches find the times at most `window` old.
LEMMA WindowIsExact ==
  ASSUME NEW s \in Seq(Nat), Sorted(s), NEW now \in Nat, NEW window \in Nat
  PROVE  bisect_right(s, now) - bisect_left(s, now - window)
           = Cardinality(At(s, (now - window)..now))
  <1> DEFINE L == Len(s)
  <1>1. L \in Nat /\ s \in Seq(Int) /\ \A n \in 1..L : s[n] \in Nat
    BY LenProperties, ElementOfSeq, SeqMonotonic, Nat \subseteq Int
  <1>2. PICK a, b : AfterEquals(s, now, a) /\ BeforeEquals(s, now - window, b)
    <2>1. now \in Int /\ now - window \in Int
      OBVIOUS
    <2>2. (\E a : AfterEquals(s, now, a)) /\ (\E b : BeforeEquals(s, now - window, b))
      BY <1>1, <2>1, SplitExists
    <2>3. QED BY <2>2
  <1>3. bisect_right(s, now) = a /\ bisect_left(s, now - window) = b
    BY <1>1, <1>2, BisectRight, BisectLeft
  <1>4. /\ a \in 0..L /\ \A n \in 1..L : (s[n] <= now) = (n <= a)
        /\ b \in 0..L /\ \A n \in 1..L : (s[n] < now - window) = (n <= b)
    BY <1>2 DEF AfterEquals, BeforeEquals
  <1> HIDE DEF L
  <1>5. b <= a
    <2>1. CASE b = 0
      BY <1>1, <1>4, <2>1
    <2>2. CASE b # 0
      <3>1. b \in 1..L /\ b <= b
        BY <1>1, <1>4, <2>2
      <3>2. s[b] < now - window /\ s[b] \in Nat
        BY <1>1, <1>4, <3>1
      <3>3. s[b] <= now
        BY <3>2
      <3>4. QED BY <1>4, <3>1, <3>3
    <2>3. QED BY <2>1, <2>2
  <1>6. At(s, (now - window)..now) = (b + 1)..a
    BY SMTT(30), <1>1, <1>4 DEF At, L
  <1>7. Cardinality((b + 1)..a) = a - b
    <2>1. b + 1 \in Int /\ a \in Int
      BY <1>1, <1>4
    <2>2. Cardinality((b + 1)..a) = IF b + 1 > a THEN 0 ELSE a - (b + 1) + 1
      BY <2>1, FS_Interval
    <2>3. QED BY <1>1, <1>4, <1>5, <2>2
  <1>8. QED BY <1>3, <1>6, <1>7
-----------------------------------------------------------------------------
\* The rows a query selects.

\* Nth numbers the members of a finite set of positions in their order.
LEMMA NthProperties ==
  ASSUME NEW L \in Nat, NEW K \in SUBSET (1..L)
  PROVE  /\ IsFiniteSet(K) /\ Cardinality(K) \in 0..L
         /\ \A j \in 1..Cardinality(K) : /\ Nth(K, j) \in K
                                         /\ Cardinality({m \in K : m < Nth(K, j)}) = j - 1
         /\ \A n \in K : \E j \in 1..Cardinality(K) : Nth(K, j) = n
         /\ \A i, j \in 1..Cardinality(K) : Nth(K, i) = Nth(K, j) => i = j
  <1> DEFINE C == Cardinality(K)
             Before(n) == {m \in K : m < n}
             rank == [n \in K |-> Cardinality(Before(n)) + 1]
  <1>1. IsFiniteSet(K) /\ C \in 0..L
    <2>1. IsFiniteSet(1..L) /\ Cardinality(1..L) = L
      BY FS_Interval
    <2>2. IsFiniteSet(K) /\ Cardinality(K) <= Cardinality(1..L)
      BY <2>1, FS_Subset
    <2>3. Cardinality(K) \in Nat
      BY <2>2, FS_CardinalityType
    <2>4. QED BY <2>1, <2>2, <2>3
  <1>2. ASSUME NEW n \in K
        PROVE  IsFiniteSet(Before(n)) /\ Cardinality(Before(n)) \in Nat /\ Cardinality(Before(n)) < C
    <2>1. Before(n) \in SUBSET K /\ Before(n) # K
      OBVIOUS
    <2> HIDE DEF Before
    <2>2. IsFiniteSet(Before(n)) /\ Cardinality(Before(n)) <= C /\ C # Cardinality(Before(n))
      BY <1>1, <2>1, FS_Subset
    <2>3. Cardinality(Before(n)) \in Nat
      BY <2>2, FS_CardinalityType
    <2>4. QED BY <1>1, <2>2, <2>3
  <1>3. ASSUME NEW m \in K, NEW n \in K, m < n
        PROVE  Cardinality(Before(m)) # Cardinality(Before(n))
    <2>1. Before(m) \in SUBSET Before(n) /\ Before(m) # Before(n)
      <3>1. K \subseteq Nat
        OBVIOUS
      <3>2. m \in Before(n) /\ m \notin Before(m)
        BY <1>3, <3>1
      <3>3. \A i \in K : i < m => i < n
        BY <1>3, <3>1
      <3>4. QED BY <3>2, <3>3
    <2> HIDE DEF Before
    <2>2. QED BY <1>2, <2>1, FS_Subset
  <1>4. rank \in Injection(K, 1..C)
    <2>1. ASSUME NEW n \in K PROVE rank[n] \in 1..C
      <3>1. rank[n] = Cardinality(Before(n)) + 1
        OBVIOUS
      <3> HIDE DEF rank, Before
      <3>2. QED BY <1>1, <1>2, <3>1
    <2>2. ASSUME NEW m \in K, NEW n \in K, rank[m] = rank[n] PROVE m = n
      <3>1. rank[m] = Cardinality(Before(m)) + 1 /\ rank[n] = Cardinality(Before(n)) + 1
        OBVIOUS
      <3> HIDE DEF rank, Before
      <3>2. Cardinality(Before(m)) \in Nat /\ Cardinality(Before(n)) \in Nat
        BY <1>2
      <3>3. Cardinality(Before(m)) = Cardinality(Before(n))
        <4>1. Cardinality(Before(m)) + 1 = Cardinality(Before(n)) + 1
          BY <2>2, <3>1, Zenon
        <4>2. QED BY <3>2, <4>1
      <3>4. K \subseteq Nat
        OBVIOUS
      <3>5. m < n \/ n < m \/ m = n
        BY <3>4
      <3>6. QED BY <1>3, <3>3, <3>5
    <2>3. rank \in [K -> 1..C]
      BY <2>1
    <2> HIDE DEF rank
    <2>4. QED BY <2>2, <2>3, Zenon DEF Injection, IsInjective
  <1>5. rank \in Surjection(K, 1..C)
    <2>1. 0 \in Int /\ 1 \in Int /\ C \in Int
      BY <1>1
    <2>2. IsFiniteSet(1..C) /\ Cardinality(1..C) = C
      BY <1>1, <2>1, FS_Interval
    <2> HIDE DEF rank
    <2>3. QED BY <1>4, <2>2, FS_Injection
  <1>6. ASSUME NEW j \in 1..C
        PROVE  Nth(K, j) \in K /\ Cardinality(Before(Nth(K, j))) = j - 1
    <2>1. \E n \in K : rank[n] = j
      <3> HIDE DEF rank
      <3>1. QED BY <1>5 DEF Surjection
    <2>2. PICK n \in K : rank[n] = j
      BY <2>1
    <2>3. Cardinality(Before(n)) = j - 1
      <3>1. j = Cardinality(Before(n)) + 1
        BY <2>2
      <3> HIDE DEF Before, rank
      <3>2. QED BY <1>2, <3>1
    <2>4. QED BY <2>3 DEF Nth
  <1>7. ASSUME NEW n \in K PROVE \E j \in 1..C : Nth(K, j) = n
    <2> DEFINE j == rank[n]
    <2>1. j \in 1..C /\ j = Cardinality(Before(n)) + 1
      <3>1. j \in 1..C
        <4> HIDE DEF rank
        <4>1. QED BY <1>4 DEF Injection
      <3>2. QED BY <3>1
    <2> HIDE DEF j, rank, Before
    <2>2. Cardinality(Before(n)) = j - 1
      BY <1>2, <2>1
    <2>3. Nth(K, j) \in K /\ Cardinality(Before(Nth(K, j))) = j - 1
      BY <1>6, <2>1
    <2>4. Nth(K, j) = n
      <3>1. Nth(K, j) \in Nat /\ n \in Nat
        <4>1. K \subseteq Nat
          OBVIOUS
        <4>2. QED BY <2>3, <4>1
      <3>2. Nth(K, j) < n \/ n < Nth(K, j) \/ Nth(K, j) = n
        BY <3>1
      <3>3. QED BY <1>3, <2>2, <2>3, <3>2
    <2>5. QED BY <2>1, <2>4
  <1>8. ASSUME NEW i \in 1..C, NEW j \in 1..C, Nth(K, i) = Nth(K, j) PROVE i = j
    <2>1. i - 1 = j - 1
      BY <1>6, <1>8, Zenon
    <2>2. QED BY <2>1
  <1>9. QED BY <1>1, <1>6, <1>7, <1>8

\* A selection is a sequence of the rows with those numbers.
LEMMA SelectedProperties ==
  ASSUME NEW S, NEW s \in Seq(S), NEW K \in SUBSET (1..Len(s))
  PROVE  /\ Selected(s, K) \in Seq(S)
         /\ Len(Selected(s, K)) = Cardinality(K)
         /\ Cardinality(K) \in 0..Len(s)
         /\ \A j \in 1..Cardinality(K) : Nth(K, j) \in K /\ Selected(s, K)[j] = s[Nth(K, j)]
         /\ \A n \in K : \E j \in 1..Cardinality(K) : Selected(s, K)[j] = s[n] /\ Nth(K, j) = n
         /\ Selected(s, K) = <<>> <=> K = {}
  <1> DEFINE C == Cardinality(K)
             t == Selected(s, K)
  <1>1. Len(s) \in Nat /\ \A n \in 1..Len(s) : s[n] \in S
    BY LenProperties, ElementOfSeq
  <1>2. /\ IsFiniteSet(K) /\ C \in 0..Len(s)
        /\ \A j \in 1..C : Nth(K, j) \in K
        /\ \A n \in K : \E j \in 1..C : Nth(K, j) = n
    BY <1>1, NthProperties
  <1>3. t = [j \in 1..C |-> s[Nth(K, j)]]
    BY DEF Selected
  <1> HIDE DEF C, t
  <1>4. t \in [1..C -> S]
    BY <1>1, <1>2, <1>3
  <1>5. t \in Seq(S) /\ Len(t) = C
    <2>1. C \in Nat
      BY <1>1, <1>2
    <2>2. t \in Seq(S)
      BY <1>4, <2>1
    <2>3. QED BY <1>4, <2>1, <2>2, LenProperties
  <1>6. \A j \in 1..C : t[j] = s[Nth(K, j)]
    BY <1>3
  <1>7. t = <<>> <=> K = {}
    <2>1. C = 0 <=> K = {}
      BY <1>2, FS_EmptySet DEF C
    <2>2. t = <<>> <=> Len(t) = 0
      BY <1>5, EmptySeq
    <2>3. QED BY <1>5, <2>1, <2>2
  <1>8. \A n \in K : \E j \in 1..C : t[j] = s[n] /\ Nth(K, j) = n
    BY <1>2, <1>6
  <1>9. QED BY <1>2, <1>5, <1>6, <1>7, <1>8 DEF C, t

\* The first row of a selection, and the others.
LEMMA SelectedHeadTail ==
  ASSUME NEW S, NEW s \in Seq(S), NEW K \in SUBSET (1..Len(s)), K # {}
  PROVE  /\ Nth(K, 1) \in K
         /\ Head(Selected(s, K)) = s[Nth(K, 1)]
         /\ Tail(Selected(s, K)) = Selected(s, K \ {Nth(K, 1)})
  <1> DEFINE first == Nth(K, 1)
             J == K \ {first}
             C == Cardinality(K)
             t == Selected(s, K)
             u == Selected(s, J)
  <1>1. Len(s) \in Nat /\ J \in SUBSET (1..Len(s)) /\ J \subseteq K
    BY LenProperties
  <1>2. /\ IsFiniteSet(K) /\ C \in Nat /\ C # 0
        /\ \A j \in 1..C : Nth(K, j) \in K /\ Cardinality({m \in K : m < Nth(K, j)}) = j - 1
        /\ \A i, j \in 1..C : Nth(K, i) = Nth(K, j) => i = j
    BY <1>1, NthProperties, FS_EmptySet
  <1>3. first \in K /\ \A m \in K : first <= m
    <2>1. first \in K /\ Cardinality({m \in K : m < first}) = 0
      <3>1. 1 \in 1..C
        BY <1>2
      <3>2. first \in K /\ Cardinality({m \in K : m < first}) = 1 - 1
        BY <1>2, <3>1
      <3>3. QED BY <3>2
    <2> HIDE DEF first
    <2>2. {m \in K : m < first} = {}
      <3>1. IsFiniteSet({m \in K : m < first})
        BY <1>2, FS_Subset
      <3>2. QED BY <2>1, <3>1, FS_EmptySet
    <2>3. QED BY <2>1, <2>2
  <1> HIDE DEF first
  <1>4. Cardinality(J) = C - 1
    BY <1>2, <1>3, FS_RemoveElement
  <1>5. /\ t \in Seq(S) /\ Len(t) = C /\ t # <<>>
        /\ \A j \in 1..C : t[j] = s[Nth(K, j)]
    <2>1. K # {}
      OBVIOUS
    <2>2. t \in Seq(S) /\ Len(t) = C /\ \A j \in 1..C : t[j] = s[Nth(K, j)]
      BY SelectedProperties
    <2>3. t = <<>> <=> K = {}
      BY SelectedProperties
    <2>4. QED BY <2>1, <2>2, <2>3
  <1>6. /\ u \in Seq(S) /\ Len(u) = C - 1
        /\ \A j \in 1..(C - 1) : u[j] = s[Nth(J, j)]
    <2> HIDE DEF J
    <2>1. QED BY <1>1, <1>4, SelectedProperties
  <1> HIDE DEF t, u, C
  <1>7. ASSUME NEW j \in 1..(C - 1) PROVE Nth(J, j) = Nth(K, j + 1)
    <2> DEFINE n == Nth(K, j + 1)
               B == {m \in K : m < n}
    <2>1. n \in K /\ Cardinality(B) = j
      <3>1. j + 1 \in 1..C /\ (j + 1) - 1 = j
        BY <1>2
      <3>2. n \in K /\ Cardinality(B) = (j + 1) - 1
        BY <1>2, <3>1
      <3>3. QED BY <3>1, <3>2
    <2>2. n # first
      <3>1. 1 \in 1..C /\ j + 1 \in 1..C /\ j + 1 # 1
        BY <1>2
      <3>2. Nth(K, j + 1) # Nth(K, 1)
        BY <1>2, <3>1
      <3>3. QED BY <3>2 DEF first
    <2> HIDE DEF n
    <2>3. first \in B /\ {m \in J : m < n} = B \ {first} /\ IsFiniteSet(B)
      <3>1. first < n
        BY <1>1, <1>3, <2>1, <2>2
      <3>2. IsFiniteSet(B)
        BY <1>2, FS_Subset
      <3>3. QED BY <1>3, <3>1, <3>2
    <2>4. Cardinality({m \in J : m < n}) = j - 1
      <3> HIDE DEF B
      <3>1. QED BY <2>1, <2>3, FS_RemoveElement
    <2>5. n \in J
      BY <2>1, <2>2
    <2>6. Nth(J, j) \in J /\ Cardinality({m \in J : m < Nth(J, j)}) = j - 1
      <3>1. \E m \in J : Cardinality({i \in J : i < m}) = j - 1
        BY <2>4, <2>5
      <3> HIDE DEF J
      <3>2. QED BY <3>1 DEF Nth
    <2>7. PICK i \in 1..(C - 1) : Nth(J, i) = n
      <3> HIDE DEF J
      <3>1. \E i \in 1..Cardinality(J) : Nth(J, i) = n
        BY <1>1, <2>5, NthProperties
      <3>2. QED BY <1>4, <3>1
    <2>8. Cardinality({m \in J : m < Nth(J, i)}) = i - 1
      <3> HIDE DEF J
      <3>1. i \in 1..Cardinality(J)
        BY <1>4
      <3>2. QED BY <1>1, <3>1, NthProperties
    <2>9. i = j
      <3>1. i - 1 = j - 1
        BY <2>4, <2>7, <2>8, Zenon
      <3>2. QED BY <1>2, <3>1
    <2>10. QED BY <2>7, <2>9 DEF n
  <1>8. Head(t) = s[first]
    BY <1>2, <1>5 DEF first
  <1>9. Tail(t) = u
    <2>1. /\ Tail(t) \in Seq(S) /\ Len(Tail(t)) = C - 1
          /\ \A j \in 1..(C - 1) : Tail(t)[j] = t[j + 1]
      BY <1>5, HeadTailProperties
    <2>2. ASSUME NEW j \in 1..(C - 1) PROVE Tail(t)[j] = u[j]
      <3>1. j + 1 \in 1..C
        BY <1>2
      <3>2. QED BY <1>5, <1>6, <1>7, <2>1, <3>1
    <2> HIDE DEF J
    <2>3. QED BY <1>6, <2>1, <2>2, SeqEqual
  <1>10. QED BY <1>3, <1>8, <1>9 DEF t, u, first

-----------------------------------------------------------------------------
\* Sums over finite sets.

\* What holds of a set when it holds of all smaller ones holds of every finite
\* one.  G are the subsets it holds of.
LEMMA SubsetInduction ==
  ASSUME NEW S, IsFiniteSet(S), NEW G,
         \A T \in SUBSET S : (\A U \in SUBSET T : U # T => U \in G) => T \in G
  PROVE  \A T \in SUBSET S : T \in G
  <1> SUFFICES ASSUME {T \in SUBSET S : T \notin G} # {} PROVE FALSE
    OBVIOUS
  <1> DEFINE Bad == {T \in SUBSET S : T \notin G}
             R == StrictSubsetOrdering(S)
  <1>1. IsWellFoundedOn(R, SUBSET S)
    <2>1. IsWellFoundedOn(R, FiniteSubsetsOf(S))
      BY FS_StrictSubsetOrderingWellFounded
    <2>2. FiniteSubsetsOf(S) = SUBSET S
      BY FS_FiniteSubsetsOfFinite
    <2>3. QED BY <2>1, <2>2
  <1>2. PICK T \in Bad : \A U \in Bad : <<U, T>> \notin R
    <2>1. Bad # {} /\ Bad \subseteq SUBSET S
      OBVIOUS
    <2> HIDE DEF Bad, R
    <2>2. QED BY <1>1, <2>1, WFMin
  <1>3. \A U \in SUBSET T : U # T => U \in G
    BY <1>2 DEF StrictSubsetOrdering
  <1>4. QED BY <1>2, <1>3

Chosen(T) == CHOOSE x \in T : TRUE

SumStep(f, g, T) == IF T = {} THEN 0 ELSE f[Chosen(T)] + g[T \ {Chosen(T)}]

\* g holds the sum of f over each subset of S.
IsSum(f, S, g) == g = [T \in SUBSET S |-> SumStep(f, g, T)]

LEMMA SumIsChosen ==
  ASSUME NEW f, NEW S
  PROVE  SumFunctionOnSet(f, S) = (CHOOSE g : IsSum(f, S, g))[S]
  BY DEF SumFunctionOnSet, FoldFunctionOnSet, MapThenFoldSet, IsSum, SumStep, Chosen

LEMMA SumIsUnique ==
  ASSUME NEW f, NEW S, NEW T \in SUBSET S, IsFiniteSet(T),
         NEW g, IsSum(f, S, g), NEW h, IsSum(f, T, h)
  PROVE  \A U \in SUBSET T : g[U] = h[U]
  <1> DEFINE G == {U \in SUBSET T : g[U] = h[U]}
  <1>1. ASSUME NEW U \in SUBSET T, \A W \in SUBSET U : W # U => W \in G
        PROVE  U \in G
    <2>1. g[U] = SumStep(f, g, U) /\ h[U] = SumStep(f, h, U)
      BY DEF IsSum
    <2>2. U # {} => Chosen(U) \in U
      BY DEF Chosen
    <2>3. U # {} => U \ {Chosen(U)} \in G
      BY <1>1, <2>2
    <2>4. QED BY <2>1, <2>3 DEF SumStep
  <1> HIDE DEF G
  <1>2. \A U \in SUBSET T : U \in G
    BY <1>1, SubsetInduction
  <1>3. QED BY <1>2 DEF G

\* There is such a function.
LEMMA SumExists ==
  ASSUME NEW f, NEW S, IsFiniteSet(S)
  PROVE  IsSum(f, S, [T \in SUBSET S |-> SumFunctionOnSet(f, T)])
  <1> DEFINE Sums(T) == [U \in SUBSET T |-> SumFunctionOnSet(f, U)]
             G == {T \in SUBSET S : IsSum(f, T, Sums(T))}
  <1>1. ASSUME NEW T \in SUBSET S, \A U \in SUBSET T : U # T => U \in G
        PROVE  T \in G
    <2> DEFINE h == [U \in SUBSET T |-> IF U = T THEN SumStep(f, Sums(T), T)
                                         ELSE SumFunctionOnSet(f, U)]
    <2>1. \A U \in SUBSET T : U # {} => Chosen(U) \in U /\ U \ {Chosen(U)} \in SUBSET U
      BY DEF Chosen
    <2>2. ASSUME NEW U \in SUBSET T PROVE h[U] = SumStep(f, h, U)
      <3>1. CASE U = T
        <4>1. T # {} => h[T \ {Chosen(T)}] = Sums(T)[T \ {Chosen(T)}]
          BY <2>1
        <4>2. QED BY <3>1, <4>1 DEF SumStep
      <3>2. CASE U # T
        <4>1. IsSum(f, U, Sums(U))
          BY <1>1, <3>2
        <4>2. Sums(U)[U] = SumStep(f, Sums(U), U)
          BY <4>1 DEF IsSum
        <4>3. h[U] = Sums(U)[U]
          BY <3>2
        <4>4. U # {} => h[U \ {Chosen(U)}] = Sums(U)[U \ {Chosen(U)}]
          BY <2>1
        <4> HIDE DEF h, Sums
        <4>5. QED BY <4>2, <4>3, <4>4 DEF SumStep
      <3>3. QED BY <3>1, <3>2
    <2>3. IsSum(f, T, h)
      <3>1. h = [U \in SUBSET T |-> h[U]]
        OBVIOUS
      <3> HIDE DEF h
      <3>2. QED BY <2>2, <3>1 DEF IsSum
    <2> HIDE DEF h
    <2> DEFINE g == CHOOSE e : IsSum(f, T, e)
    <2>4. IsSum(f, T, g)
      BY <2>3
    <2>5. SumFunctionOnSet(f, T) = g[T]
      BY SumIsChosen
    <2> HIDE DEF g
    <2>6. ASSUME NEW U \in SUBSET T PROVE g[U] = Sums(T)[U]
      <3>1. CASE U = T
        BY <2>5, <3>1
      <3>2. CASE U # T
        <4>1. IsSum(f, U, Sums(U)) /\ IsFiniteSet(U)
          BY <1>1, <3>2, FS_Subset
        <4>2. g[U] = Sums(U)[U]
          <5> HIDE DEF Sums
          <5>1. QED BY <2>4, <4>1, SumIsUnique
        <4>3. QED BY <4>2
      <3>3. QED BY <3>1, <3>2
    <2>7. g = Sums(T)
      <3>1. g = [U \in SUBSET T |-> SumStep(f, g, U)]
        BY <2>4 DEF IsSum
      <3>2. g = [U \in SUBSET T |-> g[U]]
        BY <3>1
      <3>3. QED BY <2>6, <3>2
    <2>8. QED BY <2>4, <2>7
  <1> HIDE DEF G
  <1>2. S \in G
    BY <1>1, SubsetInduction
  <1>3. QED BY <1>2 DEF G

LEMMA SumEquation ==
  ASSUME NEW f, NEW S, IsFiniteSet(S)
  PROVE  SumFunctionOnSet(f, S) =
           IF S = {} THEN 0 ELSE f[Chosen(S)] + SumFunctionOnSet(f, S \ {Chosen(S)})
  <1> DEFINE g == [T \in SUBSET S |-> SumFunctionOnSet(f, T)]
  <1>1. IsSum(f, S, g)
    BY SumExists
  <1>2. g[S] = SumStep(f, g, S)
    <2> HIDE DEF g
    <2>1. QED BY <1>1 DEF IsSum
  <1>3. QED BY <1>2 DEF SumStep

\* f gives whole numbers on S.
WholeOn(f, S) == \A x \in S : f[x] \in Int

LEMMA SumType ==
  ASSUME NEW f, NEW S, IsFiniteSet(S), WholeOn(f, S)
  PROVE  SumFunctionOnSet(f, S) \in Int
  <1> DEFINE G == {T \in SUBSET S : SumFunctionOnSet(f, T) \in Int}
  <1>1. ASSUME NEW T \in SUBSET S, \A U \in SUBSET T : U # T => U \in G
        PROVE  T \in G
    <2>1. SumFunctionOnSet(f, T) =
            IF T = {} THEN 0 ELSE f[Chosen(T)] + SumFunctionOnSet(f, T \ {Chosen(T)})
      BY SumEquation, FS_Subset
    <2>2. T # {} => Chosen(T) \in T /\ T \ {Chosen(T)} \in G
      <3>1. T # {} => Chosen(T) \in T
        BY DEF Chosen
      <3>2. T # {} => T \ {Chosen(T)} \in SUBSET T /\ T \ {Chosen(T)} # T
        BY <3>1
      <3> HIDE DEF G
      <3>3. QED BY <1>1, <3>1, <3>2
    <2>3. QED BY <2>1, <2>2 DEF WholeOn
  <1> HIDE DEF G
  <1>2. S \in G
    BY <1>1, SubsetInduction
  <1>3. QED BY <1>2 DEF G

\* Any member may come first.
LEMMA SumMember ==
  ASSUME NEW f, NEW S, IsFiniteSet(S), WholeOn(f, S), NEW x \in S
  PROVE  SumFunctionOnSet(f, S) = f[x] + SumFunctionOnSet(f, S \ {x})
  <1> DEFINE G == {T \in SUBSET S : \A y \in T :
                     SumFunctionOnSet(f, T) = f[y] + SumFunctionOnSet(f, T \ {y})}
  <1>1. ASSUME NEW T \in SUBSET S, \A U \in SUBSET T : U # T => U \in G
        PROVE  T \in G
    <2> SUFFICES ASSUME NEW y \in T
                 PROVE  SumFunctionOnSet(f, T) = f[y] + SumFunctionOnSet(f, T \ {y})
      OBVIOUS
    <2> DEFINE c == Chosen(T)
    <2>1. c \in T
      BY DEF Chosen
    <2>2. SumFunctionOnSet(f, T) = f[c] + SumFunctionOnSet(f, T \ {c})
      BY SumEquation, FS_Subset
    <2> HIDE DEF c
    <2>3. CASE y = c
      BY <2>2, <2>3
    <2>4. CASE y # c
      <3>1. T \ {c} \in G /\ T \ {y} \in G
        <4>1. T \ {c} \in SUBSET T /\ T \ {c} # T /\ T \ {y} \in SUBSET T /\ T \ {y} # T
          BY <2>1
        <4> HIDE DEF G
        <4>2. QED BY <1>1, <4>1
      <3>2. (T \ {c}) \ {y} = (T \ {y}) \ {c}
        OBVIOUS
      <3>3. SumFunctionOnSet(f, T \ {c}) = f[y] + SumFunctionOnSet(f, (T \ {y}) \ {c})
        BY <2>4, <3>1, <3>2
      <3>4. SumFunctionOnSet(f, T \ {y}) = f[c] + SumFunctionOnSet(f, (T \ {y}) \ {c})
        BY <2>1, <2>4, <3>1
      <3>5. SumFunctionOnSet(f, (T \ {y}) \ {c}) \in Int /\ f[y] \in Int /\ f[c] \in Int
        <4>1. (T \ {y}) \ {c} \in SUBSET S
          OBVIOUS
        <4>2. IsFiniteSet((T \ {y}) \ {c}) /\ WholeOn(f, (T \ {y}) \ {c})
          BY <4>1, FS_Subset DEF WholeOn
        <4>3. QED BY <2>1, <4>2, SumType DEF WholeOn
      <3>6. QED BY <2>2, <3>3, <3>4, <3>5
    <2>5. QED BY <2>3, <2>4
  <1> HIDE DEF G
  <1>2. S \in G
    BY <1>1, SubsetInduction
  <1>3. QED BY <1>2 DEF G

LEMMA SumEmpty ==
  ASSUME NEW f
  PROVE  SumFunctionOnSet(f, {}) = 0
  BY SumEquation, FS_EmptySet

LEMMA SumInsert ==
  ASSUME NEW f, NEW S, IsFiniteSet(S), NEW x, x \notin S, WholeOn(f, S \union {x})
  PROVE  SumFunctionOnSet(f, S \union {x}) = f[x] + SumFunctionOnSet(f, S)
  <1>1. IsFiniteSet(S \union {x}) /\ (S \union {x}) \ {x} = S
    BY FS_AddElement
  <1>2. QED BY <1>1, SumMember

\* A sum depends on the values alone.
LEMMA SumSame ==
  ASSUME NEW f, NEW g, NEW S, IsFiniteSet(S), \A x \in S : f[x] = g[x]
  PROVE  SumFunctionOnSet(f, S) = SumFunctionOnSet(g, S)
  <1> DEFINE G == {T \in SUBSET S : SumFunctionOnSet(f, T) = SumFunctionOnSet(g, T)}
  <1>1. ASSUME NEW T \in SUBSET S, \A U \in SUBSET T : U # T => U \in G
        PROVE  T \in G
    <2>1. IsFiniteSet(T)
      BY FS_Subset
    <2>2. /\ SumFunctionOnSet(f, T) =
               IF T = {} THEN 0 ELSE f[Chosen(T)] + SumFunctionOnSet(f, T \ {Chosen(T)})
          /\ SumFunctionOnSet(g, T) =
               IF T = {} THEN 0 ELSE g[Chosen(T)] + SumFunctionOnSet(g, T \ {Chosen(T)})
      BY <2>1, SumEquation
    <2>3. T # {} => Chosen(T) \in T
      BY DEF Chosen
    <2>4. T # {} => T \ {Chosen(T)} \in G
      <3>1. T # {} => T \ {Chosen(T)} \in SUBSET T /\ T \ {Chosen(T)} # T
        BY <2>3
      <3> HIDE DEF G
      <3>2. QED BY <1>1, <3>1
    <2>5. QED BY <2>2, <2>3, <2>4
  <1> HIDE DEF G
  <1>2. S \in G
    BY <1>1, SubsetInduction
  <1>3. QED BY <1>2 DEF G

\* Of a times f and b times g.
LEMMA SumLinear ==
  ASSUME NEW f, NEW g, NEW h, NEW S, IsFiniteSet(S), WholeOn(f, S), WholeOn(g, S),
         NEW a \in Int, NEW b \in Int, \A x \in S : h[x] = a * f[x] + b * g[x]
  PROVE  SumFunctionOnSet(h, S) = a * SumFunctionOnSet(f, S) + b * SumFunctionOnSet(g, S)
  <1> DEFINE G == {T \in SUBSET S :
                     SumFunctionOnSet(h, T) = a * SumFunctionOnSet(f, T) + b * SumFunctionOnSet(g, T)}
  <1>1. ASSUME NEW T \in SUBSET S, \A U \in SUBSET T : U # T => U \in G
        PROVE  T \in G
    <2>1. IsFiniteSet(T)
      BY FS_Subset
    <2>2. CASE T = {}
      <3>1. SumFunctionOnSet(h, T) = 0 /\ SumFunctionOnSet(f, T) = 0 /\ SumFunctionOnSet(g, T) = 0
        BY <2>2, SumEmpty
      <3>2. QED BY <3>1
    <2>3. CASE T # {}
      <3> DEFINE c == Chosen(T)
                 U == T \ {c}
                 F == SumFunctionOnSet(f, U)
                 E == SumFunctionOnSet(g, U)
      <3>1. c \in T /\ c \in S
        BY <2>3 DEF Chosen
      <3>2. /\ SumFunctionOnSet(f, T) = f[c] + F
            /\ SumFunctionOnSet(g, T) = g[c] + E
            /\ SumFunctionOnSet(h, T) = h[c] + SumFunctionOnSet(h, U)
        BY <2>1, <2>3, SumEquation
      <3> HIDE DEF c
      <3>3. U \in SUBSET T /\ U # T /\ U \in SUBSET S
        BY <3>1
      <3>4. U \in G
        <4> HIDE DEF G, U
        <4>1. QED BY <1>1, <3>3
      <3>5. SumFunctionOnSet(h, U) = a * F + b * E
        BY <3>4
      <3>6. F \in Int /\ E \in Int
        <4>1. IsFiniteSet(U) /\ WholeOn(f, U) /\ WholeOn(g, U)
          BY <3>3, FS_Subset DEF WholeOn
        <4> HIDE DEF U
        <4>2. QED BY <4>1, SumType
      <3>7. h[c] = a * f[c] + b * g[c] /\ f[c] \in Int /\ g[c] \in Int
        BY <3>1 DEF WholeOn
      <3> HIDE DEF F, E, U
      <3>8. /\ a * (f[c] + F) = a * f[c] + a * F /\ a * f[c] \in Int /\ a * F \in Int
            /\ b * (g[c] + E) = b * g[c] + b * E /\ b * g[c] \in Int /\ b * E \in Int
        BY <3>6, <3>7
      <3>9. SumFunctionOnSet(h, T) = (a * f[c] + b * g[c]) + (a * F + b * E)
        BY <3>2, <3>5, <3>7
      <3>10. QED BY <3>2, <3>8, <3>9
    <2>4. QED BY <2>2, <2>3
  <1> HIDE DEF G
  <1>2. S \in G
    BY <1>1, SubsetInduction
  <1>3. QED BY <1>2 DEF G

\* The order and the names of what is added do not matter.
LEMMA SumRenamed ==
  ASSUME NEW f, NEW S, IsFiniteSet(S), NEW g, NEW T, WholeOn(g, T),
         NEW h, \A x \in S : h[x] \in T /\ f[x] = g[h[x]],
         \A x, y \in S : h[x] = h[y] => x = y
  PROVE  SumFunctionOnSet(f, S) = SumFunctionOnSet(g, {h[x] : x \in S})
  <1> DEFINE Image(U) == {h[x] : x \in U}
             G == {U \in SUBSET S : SumFunctionOnSet(f, U) = SumFunctionOnSet(g, Image(U))}
  <1>1. ASSUME NEW U \in SUBSET S, \A W \in SUBSET U : W # U => W \in G
        PROVE  U \in G
    <2>1. IsFiniteSet(U) /\ IsFiniteSet(Image(U))
      <3>1. IsFiniteSet(U)
        BY FS_Subset
      <3>2. DOMAIN [x \in U |-> h[x]] = U /\ Image(U) = {[x \in U |-> h[x]][y] : y \in U}
        OBVIOUS
      <3>3. [x \in U |-> h[x]] \in Surjection(U, Image(U))
        BY DEF Surjection
      <3>4. QED BY <3>1, <3>3, FS_Surjection
    <2>2. CASE U = {}
      <3>1. Image(U) = {}
        BY <2>2
      <3> HIDE DEF Image
      <3>2. QED BY <2>2, <3>1, SumEmpty
    <2>3. CASE U # {}
      <3> DEFINE c == Chosen(U)
                 W == U \ {c}
      <3>1. c \in U
        BY <2>3 DEF Chosen
      <3>2. SumFunctionOnSet(f, U) = f[c] + SumFunctionOnSet(f, W)
        BY <2>1, <2>3, SumEquation
      <3> HIDE DEF c
      <3>3. W \in SUBSET U /\ W # U /\ h[c] \in Image(U) /\ Image(U) \ {h[c]} = Image(W)
        BY <3>1
      <3>4. W \in G
        <4> HIDE DEF G, W
        <4>1. QED BY <1>1, <3>3
      <3>5. WholeOn(g, Image(U))
        BY DEF WholeOn
      <3>6. SumFunctionOnSet(f, W) = SumFunctionOnSet(g, Image(W)) /\ f[c] = g[h[c]]
        BY <3>1, <3>4
      <3> HIDE DEF Image, W
      <3>7. SumFunctionOnSet(g, Image(U)) = g[h[c]] + SumFunctionOnSet(g, Image(W))
        BY <2>1, <3>3, <3>5, SumMember
      <3>8. QED BY <3>2, <3>6, <3>7 DEF Image
    <2>4. QED BY <2>2, <2>3
  <1> HIDE DEF G
  <1>2. S \in G
    BY <1>1, SubsetInduction
  <1>3. QED BY <1>2 DEF G

\* What is zero may be left out.
LEMMA SumOfPart ==
  ASSUME NEW f, NEW g, NEW S, IsFiniteSet(S), NEW T \in SUBSET S, WholeOn(f, S),
         \A x \in S : g[x] = IF x \in T THEN f[x] ELSE 0
  PROVE  SumFunctionOnSet(f, T) = SumFunctionOnSet(g, S)
  <1> DEFINE G == {U \in SUBSET S : SumFunctionOnSet(g, U) = SumFunctionOnSet(f, U \intersect T)}
  <1>1. ASSUME NEW U \in SUBSET S, \A W \in SUBSET U : W # U => W \in G
        PROVE  U \in G
    <2>1. IsFiniteSet(U) /\ IsFiniteSet(U \intersect T)
      BY FS_Subset
    <2>2. CASE U = {}
      BY <2>2, SumEmpty
    <2>3. CASE U # {}
      <3> DEFINE c == Chosen(U)
                 W == U \ {c}
      <3>1. c \in U
        BY <2>3 DEF Chosen
      <3>2. SumFunctionOnSet(g, U) = g[c] + SumFunctionOnSet(g, W)
        BY <2>1, <2>3, SumEquation
      <3> HIDE DEF c
      <3>3. W \in SUBSET U /\ W # U
        BY <3>1
      <3>4. W \in G
        <4> HIDE DEF G, W
        <4>1. QED BY <1>1, <3>3
      <3>5. SumFunctionOnSet(g, W) = SumFunctionOnSet(f, W \intersect T)
        BY <3>4
      <3>6. WholeOn(f, U \intersect T) /\ WholeOn(f, W \intersect T) /\ IsFiniteSet(W \intersect T)
        BY <2>1, FS_Subset DEF WholeOn
      <3>7. CASE c \in T
        <4>1. c \in U \intersect T /\ (U \intersect T) \ {c} = W \intersect T
          BY <3>1, <3>7
        <4>2. SumFunctionOnSet(f, U \intersect T) = f[c] + SumFunctionOnSet(f, W \intersect T)
          <5> HIDE DEF W
          <5>1. QED BY <2>1, <3>6, <4>1, SumMember
        <4>3. g[c] = f[c]
          BY <3>1, <3>7
        <4>4. QED BY <3>2, <3>5, <4>2, <4>3
      <3>8. CASE c \notin T
        <4>1. U \intersect T = W \intersect T /\ g[c] = 0
          BY <3>1, <3>8
        <4>2. SumFunctionOnSet(f, W \intersect T) \in Int
          <5> HIDE DEF W
          <5>1. QED BY <3>6, SumType
        <4> HIDE DEF W
        <4>3. SumFunctionOnSet(g, U) = 0 + SumFunctionOnSet(f, W \intersect T)
          BY <3>2, <3>5, <4>1
        <4>4. SumFunctionOnSet(f, W \intersect T) = SumFunctionOnSet(f, U \intersect T)
          BY <4>1, Zenon
        <4>5. SumFunctionOnSet(g, U) = SumFunctionOnSet(f, W \intersect T)
          BY <4>2, <4>3
        <4>6. QED BY <4>4, <4>5
      <3>9. QED BY <3>7, <3>8
    <2>4. QED BY <2>2, <2>3
  <1> HIDE DEF G
  <1>2. S \in G
    BY SMTT(30), <1>1, SubsetInduction
  <1>3. S \intersect T = T
    OBVIOUS
  <1>4. QED BY <1>2, <1>3 DEF G

LEMMA SumOfDifferences ==
  ASSUME NEW A, IsFiniteSet(A), NEW f, NEW g, NEW u,
         \A k \in A : f[k] \in Int /\ g[k] \in Int /\ u[k] = g[k] - f[k]
  PROVE  /\ SumFunctionOnSet(f, A) \in Int /\ SumFunctionOnSet(g, A) \in Int
         /\ SumFunctionOnSet(u, A) = SumFunctionOnSet(g, A) - SumFunctionOnSet(f, A)
  <1>1. WholeOn(f, A) /\ WholeOn(g, A) /\ WholeOn(u, A)
    BY DEF WholeOn
  <1>2. /\ SumFunctionOnSet(f, A) \in Int /\ SumFunctionOnSet(g, A) \in Int
        /\ SumFunctionOnSet(u, A) \in Int
    BY <1>1, SumType
  <1>3. \A k \in A : g[k] = 1 * u[k] + 1 * f[k]
    OBVIOUS
  <1>4. SumFunctionOnSet(g, A) = 1 * SumFunctionOnSet(u, A) + 1 * SumFunctionOnSet(f, A)
    BY <1>1, <1>3, SumLinear
  <1>5. QED BY <1>2, <1>4
=============================================================================
